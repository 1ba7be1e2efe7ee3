# Verification of mycron-emu

mycron-emu emulates the Mycron-1 and Mycron-3 microcomputers: a Z80 core in C,
the boards' I/O devices in Python, diskette images in files of the host. This
directory holds TLA+ models of the parts whose state has a life of its own, the
TLC configurations that check them on small instances, and TLAPS proofs of what
holds for every value of the constants.

Paths below are relative to `src/src/mycron_emu/` unless they begin with `csrc/`.

## 1. The system

| component | state | operations | interacts with |
|---|---|---|---|
| C core, `csrc/z80emu_core_z80ex.c` | memory, protection and trace bytes, IRQ line, CPU registers (z80ex) | run steps, read and write memory, set protection, callbacks for IN and OUT | calls Python for I/O, called by `z80.py` |
| callback bridge, `z80.py` | pending exception, the two I/O callbacks | `_call_c`, `run_steps`, `_c_io_in`, `_c_io_out`, `_c_log_callback` | between core and board; shared by the run loop and the debug console's thread |
| run loop, `app.py` | pause flag | `run_sim`, `sim_pause`, `sim_cont`, `dump_mem` | everything |
| board and PROMs, `boards.py`, `prom.py`, `IOP14` of `devices/simple.py` | per region `is_on` and saved RAM; port table | `set_proms_enabled`, port dispatch | called inside an OUT; writes core memory and protection |
| disk drive and controller, `devices/disk.py` | per drive: head, scan phase, byte counters, status flags, write buffer; selected drive, read and write command states | OUT to three ports, IN from two | called inside IN and OUT; calls the disk image |
| disk image, `disks/image.py` | cached bytes | read and write of a sector, load | the host's file system, reopened for each operation |
| console input, `app.py`, `config.py`, `scheduler.py`, `channels.py` | registered streams, scheduled messages | `poll_inputs`, `ScheduledSender.poll` | host terminals, serial ports |
| I/O port dispatch, `boards.py`, `devices/base.py` | the port table, filled once | `register_io_ports`, `io_in`, `io_out` | between callbacks and devices |
| serial ports, `devices/serial.py` | receive queue, selected register, write registers | read, write, `queue_bytes` | guest, channels |
| parallel port, CTC, `devices/parallel.py`, `devices/simple.py` | three latches | read, write | guest; tells it to print through the SIO |
| channels, `channels.py` | listeners by id, next id, whether errors are suppressed | subscribe, unsubscribe, send | serial ports, terminals, debug console |
| configuration and start, `cli/mycron.py`, `config.py`, `app.py` | none | `build_parser`, `read_config`, `make_config`, `run_emulator` up to its loop | terminals, images, the script's links |
| debug console, `embedded_console.py` | a thread with a Python prompt | wait for a link, open it; then any call | memory, pause flag, bridge, channels |
| socat helper, `tools/setup-socat.py` | processes and links noted | launch, wait, supervise, clean up | socat, links in the working directory, Ctrl-C |
| tracing and logging | none | output | |

What is hard here:

- the guest drives the controller by polling flags and counting bytes; a byte too
  many at a flag loses a sector, and any legal sequence of port writes must
  leave the drive in a state the next request can start from;
- the host changes image files under a running guest, and the emulator may die
  between two system calls;
- switching the PROMs copies memory in four statements for each of two chips,
  guided by flags kept in two languages, and a Ctrl-C may cut it off anywhere;
- an exception cannot cross the C core: it has to be kept, raised later, and no
  device may work in between;
- the debug console's thread shares memory, pause flag and pending exception with
  the run loop, without locks, while the core runs outside the interpreter lock;
- typed bytes, streams that hang up and scheduled messages meet in one queue;
- a channel calls its listeners one by one, while any of them may fail, and while
  the debug console, or a listener, subscribes and unsubscribes;
- a control register takes two bytes through one port, and the guest's print
  routine polls without a bound for bits that another device's answer leads it to;
- three processes make six links in their own time, Ctrl-C comes anywhere in the
  script that starts them, and an emulator opens the links while they come and go.

Correctness, component by component: the controller's flags tell the head's place
and no guest takes a counter or buffer out of range; a failed command can be
repeated, though the image may have taken part of what it wrote; to the guest's
operating system, PROM, controller and drives are a sector service; an image is
a durable store of sectors; chips and RAM never disturb each other, and a switch
that was cut off leaves at most one chip open to the guest's writes; an exception ends the emulator, and nothing happens between
it and the end; a pause brings the core to rest; no input byte or message is
lost, doubled, split or reordered; each listener hears exactly what was sent
while it was subscribed, and a message that was lost ends the emulator; a
register holds what was programmed into it; the script leaves no process and no
link behind, and an emulator started as announced gets the terminals announced.

## 2. Modules

### Disk drive and controller

`DiskDrive` is class `DiskDrive` as a record and one operator per method; a read
is a value (`ReadByte`) and a successor (`AfterRead`). `DiskController` is class
`IODiskController`: `WriteCW1`, `WriteCW2`, `WriteData`, `ReadStatus`, `ReadData`
are the OUT and IN handlers, each whole, for an arbitrary guest. `media` stands
for what `DiskImage.read_sector` answers. An exception an operation raises is in
`err`. Two operations call the host's file system and may fail there (`hostOk`):
the fetch of a sector, which changes nothing, and the commit (`CommitFails`),
which has patched the cache by then. What `read_sector` answers afterwards
depends on how far `write_sector` came: with the image there, the first bytes of
the buffer, any number of them; with the image missing, the whole buffer out of
the cache, or a file that was created and cut short, padded with zeros
(`AfterFailedWrite`). `ChangeDiskette` is the host putting another image in
place. Counters the code lets grow are cut off where it stops telling their
values apart (`HPOS_END`, `DPOS_END`).

`MonitorDisk` puts the guest program on it that the controller was written for:
the read and write routines of the DIM-1003 monitor PROM, one port access a step,
as the comments of `disk.py` (124-131, 167-174, 339-340, 360-363) and the PROM
images in `src/run-tst` describe them. It is marked external in the map.
`SectorService` is what the guest's operating system expects of the whole: a
request takes effect at one moment, on one sector, whatever diskette is there.
`MonitorDisk` implements it: a read takes effect when the first byte of the field
is read (that is when `_read_data` fetches the sector), a write at 0xad.

### Disk image

`DiskImage` has one action per system call of `read_sector` and `write_sector`
(`ReadOpen`, `ReadFile`, `WriteOpen`, `WriteFile`, `DumpOpen`, `DumpWrite`), a
crash at any point, a restart through `load_disk_images`, and a host that copies
over (`cp`: truncate, then write), renames over and removes the file. Files are
inodes, so that an open file survives a rename. `SectorStore` is the promise to
the controller; its `epoch` tells a host action from a write, so that no write of
the emulator can pass for the host's.

### Memory and PROMs

`PromMemory` has `memory[]`, `memory_prot[]`, and per region `is_on` and
`ram_vals`; `set_proms_enabled` is a loop over the regions of the statements of
`set_enabled` (`Check`, `Backup`, `Load`, `Protect`, `Mark`), steps of their own
because the debug console may write memory between them (`Poke`, on addresses
`PokeAddr`, never in the region being switched: see section 6) and a Ctrl-C may be
raised there (`Interrupt`). The exception is recorded by the OUT callback's
`onerror` handler; no later IN or OUT reaches the board (`cut`), and the core
executes what is left of its chunk on memory as the statement before left it.
`BankedMemory` is what the mechanism is for: RAM and chips with a switch per
region. Its `open` is what a cut may cost: the chip that had been copied in and
not yet protected.

### Bridge, run loop and debug console

`RunLoop` has the main thread (`Top`, `Wake`, `Poll`, `Enter`, the core's
`Instruction`s and callbacks, `Exit`), the console's thread (`SimPause`,
`SimCont`, `ConsoleCall`, the five steps of `dump_mem`), and Ctrl-C. `Enter` and
`Exit` are the two `_raise_pending_callback_exception()` calls around a C call;
`CallNested` is the same around the calls a device makes from its callback.
`LockFree` is the interpreter lock as far as it matters: copying memory holds it,
so no callback runs meanwhile; the core's instructions run without it. The
constant `ConsoleWaits` says whether the console's user follows the warning of
`embedded_console.py` (6-9) and touches the core only when the simulator is
paused and at rest.

### Console input

`Scheduler` has `ScheduledSender`'s queue: when each line of the startup script
is due, and Python's binary heap with the comparisons `heapq` makes (external,
but modelled exactly, because with NaN the comparisons are not an order). Times
are whole numbers and NaN; an infinite delay, which the reader also accepts, is to
the queue a number beyond every clock. Text is ASCII (`config.py` 40-47).
`ConsoleInput` is the loop around it: `scheduled_input.poll()` a message at a
time, `poll_inputs` an event at a time over what `poll` reported, the serial
ports' receive queues, a guest that polls its status, and a host that types and
hangs up between any two steps. The history `source` has, for each byte that has
entered a port, which key or which message it is of, so that `KeysInOrder` and
`ScriptInOrder` can say for every interleaving which byte stands where.

### Ports, serial ports, parallel port and channels

`BoardIo` is the guest's I/O space: `Registrations` is the table of both boards in
the order their devices register, `DeviceAt` the lookup, `Out` the whole of
`io_out` with the device's write behind it, `In` the reads that the guest's
routines act on. `AfterControl` is `SerialPort._write_control`. A write to a data
port begins `Send`: `ListenerReturns`, `ListenerFails` and `ListenerInterrupted` are
the calls of the listeners in turn, and `Subscribe` and `Unsubscribe` may come
between any two. The ids are the channel's own counter; `subs` is the history of
who was subscribed from which message to which. `Printing` is the guest's print
routine as the parallel port's comments describe it (`devices/parallel.py`).
The guest's names for its ports (`DataPort`, `ControlPort`, `LatchPort`) come from the
hardware and not from the table, so that a wrong registration shows. What
bytes then wait in a receive queue is `ConsoleInput`, what IOP14 does is
`PromMemory`, what the disk ports do is `DiskController`.

### Configuration, socat helper and start

`Config` has the command line and `config.toml` as functions on the options given,
and `make_config` with Python's notion of truth: an empty string is an answer for
`-ec`, and none for the others. `SocatPairs` is `tools/setup-socat.py` statement by
statement where Ctrl-C can tell them apart: `Unlink`, `Popen`, `AppendProcess`,
`ExtendPaths` for each port, `Poll` and `CheckPaths`, `Supervise`, and the `finally`
clause `Terminate`, `Wait`, `Kill`, `RemovePaths`. socat is external: it makes its
links in its own time, removes them when it ends, leaves them when killed, and
dies when it likes. A link is absent, left over (`old`: somebody else's terminal
answers), made, dangling, or a plain file that an emulator's open for output has
made. `PtySession` puts `run_emulator` beside it (`LoadDiskImages`, the streams one
by one, `EnterRunLoop`) and the debug console's thread (`LinkExists`, `OpenLink`).

### Composition

`PtySession` extends `SocatPairs` and `Config`: the script, an emulator started at any
moment with any of several command lines and files, and the links they share.
`MonitorDisk` extends `DiskController`, which extends `DiskDrive`. `DiskController`
uses of `DiskImage` what `SectorStore` promises: `media`. `RunLoop` and
`ConsoleInput` share the loop of `run_sim`: `RunLoop` has its pause and its
exceptions and takes polling as a step, `ConsoleInput` has the polling. `BoardIo`
takes the chunk and the loop as two places of its main thread, for an exception
to come out of either.

## 3. What is checked

| run | question | properties | states |
|---|---|---|---|
| `disk_controller` | any guest, any order of port accesses, diskettes changing, commits and fetches failing | `TypeOK`, `FlagsTellPosition`, `MarkSeenBeforeHeader`, `FieldIsLoaded`, `FailureIsRepeatable` | 1,341,868 |
| `monitor_disk` | the PROM's routines, diskette swaps at any byte | `NeverGivesUp`, `NeverRaises`, `ImplementsSectorService`, `RequestsComplete` | 142,408 |
| `image_store` | crashes at any system call, host actions between operations | `TypeOK`, `CacheIsFile`, `DiesLoadable`, `ImplementsSectorStore` | 189,462 |
| `prom_memory` | guest writes, switches, debugger pokes, a Ctrl-C within a switch | `TypeOK`, `ProtectionAgrees`, `ImplementsBankedMemory`, `SwitchCompletes` | 2,944 |
| `run_loop` | exceptions, Ctrl-C anywhere, a console that waits for the pause | `TypeOK`, `ExceptionEndsRun`, `NoDeviceAfterException`, `SnapshotOfOneMoment`, `CtrlCStops`, `PauseParks` | 397 |
| `board_io` | both boards, a guest at every port, listeners that come, go and fail | `TypeOK`, `EachHearsItAll`, `LossEndsRun`, `DevicesAsProgrammed`, `PrintArrives` | 151,767 |
| `pty_session` | Ctrl-C, dying socats and an emulator starting at any moment | `TypeOK`, `NothingLeft`, `Settles`, `AnnouncedTerminalsOpen`, `DebugConsoleAttaches` | 227,800 |
| `console_input` | two streams, a script with equal deadlines, hangups | `TypeOK`, `KeysInOrder`, `ScriptInOrder`, `DueExactly`, `KeysArrive`, `EndedIsForgotten` | 188,519 |

Four runs show disagreements between the code and what it says of itself:

| run | property | what TLC finds |
|---|---|---|
| `image_race` | `DumpOnlyIfMissing` | an image put in place between `open(..., 'rb+')` failing and `open(..., 'wb')` is overwritten with the cache |
| `run_loop_steals` | `InterruptEndsRun` | with `ConsoleWaits` FALSE, a console call takes a Ctrl-C recorded in the run loop's chunk; the emulator runs on |
| `run_loop_tears` | `SnapshotOfOneMoment` | with `ConsoleWaits` FALSE, `dump_mem` copies memory while the core is still in its chunk |
| `console_input_nan` | `DueExactly` | after a script command with `"delay": NaN`, an earlier command that is due stays in the heap for ever |

Each property of a passing run is also run against a mutant of a modelled
operation, defined beside it and commented `Mutant:`, which it has to reject.

### Bounds, and why they are enough

- `disk_controller`: 2 tracks, 1 sector of 2 bytes, 1 drive, two diskettes, one
  blank and one not, of which a guest writes the bytes of the other: enough for a
  write that failed half way to leave a sector that is neither, on the track
  written or on the other. Two tracks and two bytes are what clamping and
  first/next/last byte need. The wrap of the sector counter and a second drive,
  whose buffer could be taken for the first's, are in `monitor_disk`, and in the
  theorems, which cover every geometry and up to eight drives. The control words
  are the seven the code knows, one it ignores, head steps both ways, and a drive
  without an image.
- `monitor_disk`: 2 drives, 2 tracks, 2 sectors of 2 bytes, every sector of the
  two diskettes distinct from every other, 2 requests (`MaxRequests`: what the
  first leaves behind is what the second starts from, on the same or the other
  drive) and 1 swap (`MaxSwaps`) at any port access.
- `image_store`: 2 tracks, 2 sectors of 1 byte, 2 host actions (`MaxHostOps`: one
  to bring a diskette, one to change or remove it). Crashes and operations are
  not bounded. 4 inodes are enough for name, open file and copy to differ.
- `prom_memory`: two chips of 2 and 1 bytes with RAM between them, the console
  poking one address under a chip and one that is not, so that at the others
  only the guest's writes can explain a change.
- `run_loop`: 3 steps in chunks of 2, so that there is a full chunk and a rest.
- `console_input`: 4 script commands and `--send`, three of them due together, one
  before them and one that does not come due (`MaxClock` 1); 2 typed bytes (`MaxKeys`), a NUL and 138, which is
  LF with the eighth bit set, on either stream.
- `board_io`: registers 1 and 3, values 0 and 193 (which has the low bits of a
  register's number, so that a value taken for a number shows). `Budgets` makes a
  behaviour be about registers (3 OUTs and a character) or about listeners (1 to
  3 messages, 3 to 1 subscriptions): together they need two of each at once,
  which is where a copied table, a reused id or a second call can differ.
- `pty_session`: all three ports, since the emulator opens console and aux and the
  thread the debug link; one Ctrl-C (`MaxInterrupts`; with two, 400,264 states
  hold as well), for which every place of the script is open, while a process
  that dies brings the clean-up about without it, so that the one Ctrl-C may also
  come during the clean-up. Five ways to start: the announced command over a file
  that names another terminal, everything from the file, one stream on the
  command line and `-ec ""`, conflicting `-t` and `-to` with an unknown board, and
  output without input, which is refused. The directory starts empty or with every
  link of an earlier run.

Deadlock is checked in `disk_controller`, `image_store` and `prom_memory`. The
other systems may stop: the monitor when its requests are used up, the run loop
and the board when the emulator has died, the console's world when its bounds are
reached, the session when script and emulator have ended.

### Fairness

- `prom_memory`: weak fairness of the loop over the regions, which runs inside one
  OUT instruction of the guest.
- `monitor_disk`: weak fairness of the routine's steps: the core keeps executing
  instructions. Nothing is assumed of requests or swaps.
- `run_loop`: strong fairness of the main thread (it gets the interpreter lock
  back again and again); a device's operation ends; a pending signal is raised
  at one of the points where Python looks for signals; a dump that was begun
  ends. Nothing is assumed of the user or of the console's other commands.
- `console_input`: weak fairness of the loop of `run_sim`, whose chunks are bounded
  numbers of instructions. Nothing is assumed of guest, host or clock.
- `board_io`: strong fairness of the print routine (in every chunk the core executes
  instructions, and the routine's are the next ones); weak fairness of a send
  under way (its listeners return or raise: a host terminal that nobody reads can
  block one, and then the whole emulator), of the chunk's end and of the next
  chunk. Nothing is assumed of the rest of the guest, of host or debug console.
- `pty_session`: weak fairness of the script's statements, of raising a pending
  Ctrl-C, of the five seconds' deadline, of the end of a process that got SIGKILL, and of
  the debug console's thread. Nothing is assumed of socat otherwise, of the user,
  or of the emulator's process.

## 4. What is proved

All proofs are checked by TLAPS to the last leaf, for every value of the
constants that the named `ASSUME`s allow.

`DiskController_proofs`, from `GeometryAssumption` (tracks, sectors and sector size
positive), `BytesAssumption`, `DrivesAssumption` (1 to 8 drives) and
`PortValuesAssumption` (port values are bytes) and `DiskettesAssumption` (a diskette
is an image whole, and 0 a byte):
`TypeCorrect`, `StatusHonest` (`FlagsTellPosition`), `MarkBeforeHeader`
(`MarkSeenBeforeHeader`), `DataComesFromAFetchedSector` (`FieldIsLoaded`). These
properties are not inductive one by one: that the next data byte exists depends
on the fetch at position 0, which depends on the counters being reset when a
phase begins. `IInv` therefore joins, for each drive, its record type, the flags,
the mark, the buffers and the resets (`DriveInv`); each method of `DiskDrive` has
a lemma that it preserves `DriveInv`, and each port operation one that it
preserves `IInv`, so that a port operation's proof cites methods and never opens
them.

`PromMemory_proofs`, from `RegionAssumption` (the regions are disjoint) and
`ContentsAssumption`: `TypeCorrect`, `ProtectionMatches` (`ProtectionAgrees`) and
`Refinement` (`ImplementsBankedMemory`), all with a Ctrl-C before any statement of a
switch. `ProtectionAgrees` speaks of the moments when the CPU runs; the induction needs
what holds in the middle of a switch as well: which step knows what (`StepInv`),
that the regions before the one in hand are as asked and those from it on agree
with each other (`AgreeInv`), and that the protection bytes are ahead of `is_on` for
one step (`ProtInv`). The refinement also rests on the RAM under a chip having been
saved as it is when the chip is about to overwrite it (`BackupCurrent`). In it each
statement of `set_enabled` is a stutter except `Load`, which switches the region;
`Interrupt` is one too, except between a chip's `Load` and its `Protect`, where it
abandons the switch (`InterruptRefines`) and later writes of the guest may reach
that chip (`GuestWriteRefines`).

`RunLoop_proofs`, from `ChunkAssumption` and `ConsoleAssumption`: `TypeCorrect` for
any console; `ExceptionsStop` (`ExceptionEndsRun`), `DevicesStop`
(`NoDeviceAfterException`) and `SnapshotsHold` (`SnapshotOfOneMoment`) under
`ConsoleWaits = TRUE`, which the theorems name as a hypothesis, as two of the runs
above show they must. In `IInv`, nothing
is pending and no exception has been left outside the core and inside a device
(`QuietInv`), a console in the middle of a call or a dump finds the run loop at
rest with the flag set (`RestInv`), and an instruction in a callback has not been
counted yet (`CountInv`).

`DiskController_proofs` also has `FailuresAreRepeatable` (`FailureIsRepeatable`): the
one property of a step there, from the same `IInv`, since it is the state before the
step that tells which exception can be raised. A refused command changes nothing at
all (`RefusedIsRepeatable`); a commit that the host fails may have changed the image of
the selected drive, for which its buffer was full (`FailedCommitIsRepeatable`).

`DiskImage_proofs`, from `GeometryAssumption`, `HostAssumption` (at least four inodes:
name, open file and copy may take three) and `ContentsAssumption` (a diskette of the
host's is an image whole): `TypeCorrect`, `CacheFollows` (`CacheIsFile`) and
`DeathLeavesLoadable` (`DiesLoadable`) whether or not the host acts during
operations, and `Refinement` (`ImplementsSectorStore`) under `HostRaces = FALSE`. They rest
on the arithmetic of `_get_offset` (`OffsetBounds`, `OffsetsDisjoint`: sectors lie within
the image and do not overlap, for any geometry) and of replacing bytes (`PatchInside`,
`PatchPadded`, `ReadBack`). `CacheIsFile` speaks of the time between operations; what
carries it through one is `CacheInv`: the open file is the one under the name, and the
cache differs from it by the write under way and no more. The refinement needs
`SoloInv` as well: an operation has the present file open, no operation runs during
a copy, and whatever is in place between operations can be loaded. A read takes
effect where its answer is known, a write in `WriteFile` or `DumpWrite`; opening a
file is a stutter.

`BoardIo_proofs`, from `BoardAssumption`, `RegisterAssumption` and `BudgetAssumption`, for
any registers and values and any number of messages and subscriptions: `TypeCorrect`,
`EveryListenerHears` (`EachHearsItAll`), `LossStops` (`LossEndsRun`) and `AsProgrammed`
(`DevicesAsProgrammed`). `EachHearsItAll` says what a listener has heard; that the next
message finds it depends on the table: `FanInv` has the table hold exactly the
subscriptions that have not ended, each under an id that no other has had, and
`HearInv` has each of the listeners yet to be called be owed the message under way
and no other. `RegInv` has a port's selection agree with what the guest is in the
middle of, `PhaseInv` has an exception in the air while a message is not through.

`MonitorDisk_proofs`, from the assumptions of `DiskController` and `MonitorAssumption`, for
every geometry, gap, payload and set of diskettes, and for requests and swaps in any
number: `MInvariance`, `RoutineNeverGivesUp` (`NeverGivesUp`), `RoutineNeverRaises`
(`NeverRaises`) and `SectorServiceRefinement` (`ImplementsSectorService`). The invariant
`MInv` joins `DiskController`'s `IInv` with what the PROM's programmer had to know at each
access: where the head of the selected drive is (`HeadInv`), that the header bytes it
was given are of the sector the head is over, and that this is the wanted one once it
has been found (`HeaderInv`); that no drive is left in the middle of a header for the
next request to take for another (`ParkedInv`); that the headers which may still be
counted reach to the wanted sector, around the end of the track and after a step
(`SearchInv`: the distance to it is less than the count left, which is what keeps the
routine from giving up); that the bytes transferred are the front of the sector
(`FieldInv`) or of the payload, in a buffer emptied for them (`BufferInv`). For the
refinement every access is a stutter but two: the first byte of the field, where the
sector is fetched, and 0xad, where it is written. The proof uses the lemmas of
`DiskController_proofs`.

`PtySession_proofs`, from `PortsAssumption` (known ports, at least one, none twice) and
`InterruptsAssumption`, for any number of Ctrl-Cs: `TypeCorrect`, `CleanEnd` (`NothingLeft`)
and `TerminalsOpen` (`AnnouncedTerminalsOpen`).
`NothingLeft` speaks of the end; it follows from what the script has noted at each
point: the processes in the order of the ports up to the one in hand (`OrderInv`), a
process that was started and its links noted but for that one (`NotedInv`), and the
processes before the one it waits for dead (`ReapInv`).
`TerminalsOpen` needs an invariant of the links (`LinksInv`) from the moment the script
has unlinked them: no leftover is among them, and one of a pair's links tells of the
other, since socat makes them in order (`MadeInOrder`); every port has been noted
before its links are waited for, so that a pair that is supervised has its links or
no process (`PairsInv`). `ConfInv` has an emulator that opens streams have a console to
open, and `StreamsAsAsked` that the four streams of `make_config` are the first answers
of command line and file.

`ConsoleInput_proofs`, from `SchedulerAssumption` (a delay is a number or NaN) and
`InputAssumption`, for scripts of any length and any number of keys: `TypeCorrect` and
`KeysArriveInOrder` (`KeysInOrder`) for every script; `ScriptArrivesInOrder`
(`ScriptInOrder`) and `DueAreDelivered` (`DueExactly`) for those whose delays are numbers
(`Timed`, a hypothesis the theorems name, as the run `console_input_nan` shows they must).
Three layers carry them.

1. *Recursion.* `Rise`, `Sink`, `elapsed` and `filled` are recursive functions, that is,
   chosen ones; that functions with these equations exist has to be proved. The
   library's induction theorems cannot be used here (section 5), but what does not hold
   of all numbers has a least counterexample (`Least`, from `WFMin`), and so `Inductive`,
   `TailRecursion`, `TailInvariant` and `PrimitiveRecursion` are stated over sets.
2. *heapq.* `RiseHolds`, `SinkHolds`, `PushHolds` and `PopHolds`: no item is lost or doubled,
   whatever the comparisons answer, NaN included. `RiseMakesHeap`, `SinkMakesHeap`,
   `PushMakesHeap`, `PopMakesHeap` and `RootIsLeast`: with numbers for deadlines, a heap of
   any length stays one and its root is least, although `heappop` lets an item sink to a
   leaf without looking at it and rise from there.
3. *The loop.* `IInv`: the queue holds just the messages that wait (`QueueInv`); the guest
   is told of a byte only where there is one (`PortInv`; without this a read of an empty
   queue would let a 0 into what has entered); what the emulator has not read is the end of
   what the host wrote (`WireInv`); the keys that have entered are the first ones
   written (`KeyInv`). `TimedInv`: the queue is a heap, what has been sent was due and before
   all that waits, and stands whole in what has entered.

## 5. What is only model-checked

- Liveness (`SwitchCompletes`, `RequestsComplete`, `CtrlCStops`, `PauseParks`,
  `KeysArrive`, `EndedIsForgotten`, `PrintArrives`, `Settles`, `DebugConsoleAttaches`):
  fairness and ENABLED are out of the prover's reach.
  Every other property of a passing run is a theorem.
- Induction over data in general: the library's theorems for it take an operator as a
  parameter, which the provers cannot instantiate. Where a recursive function had to be
  reasoned about (`ConsoleInput_proofs`), least counterexamples over sets of numbers took
  their place.
- That the invariants of the proofs are strong enough was first tried by TLC on the
  instances of section 3; that the mutants break the properties is TLC's alone.

## 6. What is not modelled, and what is assumed

- Instruction execution (z80ex), disassembly, tracing and logging texts. argparse,
  tomllib and `select.poll` are taken at their word.
- The interrupt line and `reset()`: nothing in the emulator but the user of the
  debug console calls them while a guest runs. The CTC and ports without a device log and keep nothing.
- `DiskImage.save`, `all_sectors`, `flush=False`, `read_from_file=False` and
  `DiskDrive.set_position`, `ScheduledSender.clear`: no caller.
- The debug console's prompt and its redirection of standard output. What its user
  may call is in `RunLoop` (pause, calls into the core, dumps), `BoardIo`
  (subscriptions) and `PromMemory` (`Poke`).
- A host that copies an image while the emulator reads it: the cache then takes a
  short sector padded with zeros, as `read_sector` says it does. `image_store`
  has the host act between operations; `image_race` shows what a race can do.
- A debug console write into the region being switched is lost or ends up in the
  chip's image; the console's own warning leaves this to its user, so `Poke`
  leaves that region alone.
- PROM files that overlap: `RegionAssumption`.
- A commit or a fetch that fails in the host raises through the core and ends the
  emulator. `DiskController` goes on, as a test or another caller of the controller
  may; in `MonitorDisk` the host does not fail. A Ctrl-C within a commit leaves of
  the image what a failing host may leave; a Ctrl-C within another operation of the
  controller leaves one that is not used again.
- A switch cut off by Ctrl-C is the last: the emulator ends with its chunk. Should the
  debug console take the exception away (`run_loop_steals`), the guest would go on
  with a board in the middle of a switch; `PromMemory` does not follow it there.
- `DiesLoadable` exempts the write that creates a missing image: an emulator that
  dies in it leaves a file the next one refuses. `DumpWrite` and the crash are
  modelled; `SectorStore` lets that death take the diskette.
- A KeyboardInterrupt that Python raises at the entry of a cffi `onerror` handler
  (`z80.py` 38-74) is printed by cffi and lost, with the exception the handler was
  called for. The window is a few instructions wide; `Record` is one step.
- The debug console may also call `reset()`, which drops a pending exception, and
  `run_steps`: `ConsoleCall` is a call of any other function through `_call_c`.
- `Channel.subscribe` is three statements, and one step: CPython does not change
  threads between them.
- The heap's pop before the destination is called (`scheduler.py` 62): that a message
  whose destination fails ends the run is `LossEndsRun`, which has the message come from
  the loop as a whole (`HostMessage`).
- `setup-socat.py` prints the announced command with all three links whatever
  `--ports` says (`src/tools/setup-socat.py` 103-109), so `pty_session` has all three
  ports. A port named twice would share its links between two processes:
  `PortsAssumption`.
- A dangling link stays one: that its terminal number is given to somebody else
  while the session lasts is only modelled for links of an earlier run (`old`). The
  emulator opens a terminal once and never again.

## 7. Plan

Built: the disk path (drive, controller, PROM routines, image), memory and PROM
switching, bridge and run loop, console input, ports, serial and parallel ports,
channels, configuration, socat helper and start; theorems about all eight systems,
which state every safety property and refinement that a passing run checks.

Next, in this order:

1. Proofs about what the compositions rest on: that `media` as `DiskController` assumes it
   is what `SectorStore` gives, commit by commit.
2. `DiskSystem`: controller and image composed, with `SectorStore` in the place of
   `media`, for the failing commit and the crash between 0xad and the file.
3. `DiskImage` with several images at once through `load_disk_images`.

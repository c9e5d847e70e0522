# A TLA+ verification project for dosemu2

dosemu2 runs DOS programs on Linux. Most of it is a sequential emulator, but the parts that are
hard to get right are not: device threads raise interrupts while DOS programs the controllers,
helper threads move bytes and timer ticks, cooperative threads leave and re-enter DOS code in
whatever order DOS returns, and several emulators on one machine coordinate file sharing and shared
memory through nothing but files, `rename` and `flock`. Those parts are what this project models.
TLC checks small instances exhaustively; TLAPS proves the central results for every size of the
system.

Paths below are relative to the repository (`src/src/...` is written `src/...`).

## 1. The system: inventory

| Part | State it keeps | Operations | What makes it hard |
| --- | --- | --- | --- |
| Unix command output (`base/misc/dos2linux.c`, `base/lib/misc/spscq.c`) | byte ring with `rd_pos` and `fillup`, `done` flag, pty descriptor | `rd_thread`, `pty_worker`, `spscq_write_area`, `spscq_commit_write`, `spscq_read` | producer fills the ring without the mutex; sleep on a full ring; end of file against the last bytes |
| Directory locks (`base/lib/misc/shlock.c`) | directories and files on disk, `flock`s | `shlock_open`, `shlock_close` | no lock of its own: other processes create, collect and remove the same directories; processes die |
| DPMI shared memory (`dosext/dpmi/memory.c`) | named object, descriptor with reference count, blocks per client | `DPMI_mallocShared`, `DPMI_freeShared`, error paths | who is last is learned from a lock library; several emulators; failures half way |
| MFS sharing (`dosext/mfs/share.c`) | table of open files, a set of locks per handle | open, create, close, rename, delete, set attributes | admission by several probes, claims one by one; close without serialisation |
| Interrupt controllers (`base/dev/pic`) | registers of two 8259s, INT outputs | `pic_request`, `pic_untrigger`, port reads and writes, `pic_get_inum` | any thread raises and lowers; cached outputs; cascade; two calls to take one interrupt |
| Virtual IRQs (`base/dev/misc/virq.c`, mouse queue of `base/mouse/mousedrv.c`) | request register, event queues, current bottom half | `virq_raise`, `virq_lower`, `virq_handler`, reset | one line shared by many sources; bottom halves with interrupts enabled; reboot |
| Virtual timers (`base/dev/misc/vtmr.c`, `base/core/vint.c`, `base/dev/misc/timers.c`) | `vtmr_irr`, `vtmr_imr`, `vtmr_pirr`, semaphore, `q_ticks` | expire, raise, request, redirect, mask, acknowledge, latch | three threads and registers updated without locks; interrupts faked on another line |
| Cooperative threads (`base/core/coopth.c`, `base/emu-i386/coopth_vm86.c`) | stacks of instances, counters, list of active threads, DOS return addresses, saved registers (`lowmem.c`) | start, yield, wait, sleep, wake, leave, cancel, detach, flush, shutdown | a thread goes on when DOS returns to its HLT; programs are aborted, the machine reboots below it |
| Main loop and signals (`do_vm86.c`, `arch/linux/async/signal.c`), console switch (`plugin/console/vc.c`, `vga.c`) | signal queue, callbacks of other pthreads, `in_handle_signals`, `in_vc_call` | `run_vm86`, `handle_signals`, `coopth_run`, `SIGACQUIRE_call`, `SIGRELEASE_call`, copying thread | the loop nests in itself when a thread joins another; a wake-up comes from a pthread |
| Serial port (`base/serial/ser_ports.c`, `ser_irq.c`, `ser_init.c`, `tty_io.c`) | UART registers, receive buffer, time-out, pending conditions, host terminal | register reads and writes, `serial_run`, callback of a readable terminal, reset | edge-triggered line computed by hand at every change; reading suspended when the buffer is full |
| DPMI memory (`dosext/dpmi/memory.c`, `base/lib/misc/smalloc.c`) | list of areas per pool, blocks per client, page attributes, `mem_allocd` | functions 0501 to 0507, start and end of a client | commit can fail half way; page by page accounting over every order of resizes |
| Host timers, I/O select (`base/lib/timer`, `base/misc/iosel.c`) | handler tables, missed expirations | add, remove, callback, block | removal while the callback runs |
| DPMI host (`dosext/dpmi/dpmi.c`) | clients, descriptors, callbacks | enter, leave, call back | nesting with interrupts |
| XMS, EMS, HMA (`dosext/misc`) | handle tables, page maps | allocate, lock, map | table limits, overlapping maps |
| DMA, sound (`base/dev/dma`, `base/dev/sb16`, `base/sound`) | counters, FIFOs, DSP state | transfer, command, interrupt | device threads, end of transfer |
| Keyboard, mouse, network, disks, video, plugins | queues and register files | port access, host I/O | mostly data and host I/O |

How they interact: the lock library is under DPMI shared memory and MFS sharing; the controllers
are under the virtual IRQs, the virtual timers and the serial port, which are composed with them
here; the cooperative threads are composed with the main loop that runs them and with four of their
users; the DPMI functions are composed with the pools they allocate from; the device list
of `base/init/dev_list.c` fixes the order of resets that Virq uses. `PROJECT.json` lists every part,
including those not modelled and why, and every hazard with its line.

What should hold of each modelled part:

* **Output pipe**: no byte of the child is lost, repeated or moved, the call returns to DOS only
  after all of them were shown, and it does return.
* **Directory locks**: exclusion; a user's directory is never removed; everything is removed in the
  end, after crashes of others too; every call returns.
* **Shared memory**: the reference count is exact, a user is registered as long as it uses the
  object, the object goes with its last user, the exclusive lock around an allocation or a release is
  given back.
* **Sharing**: rights respect denials, answers follow the DOS table, checks still hold when the
  operation acts on them, emulators do not block each other.
* **Controllers**: outputs follow registers, requests are not lost, service nests, EOI ends the
  right interrupt, spurious interrupts have a cause.
* **Virtual IRQs**: no event without a signal, no signal without an event, no re-entry, all handled.
* **Timers**: a tick is neither lost nor doubled, and the faked interrupt is ended on both chips.
* **Cooperative threads**: no assertion or fatal error of the library is reached, its counters are
  exact, DOS returns to every attached thread exactly once, a wake-up finds the sleeper it is for.
* **Signals and console**: one signal is handled at a time unless its handler yields, one console
  switch is in progress at a time, and a requested one is started and comes to its end.
* **Serial port**: an interrupt the port wants is never lost to an edge already used, waiting bytes
  are announced, a driver that stays set up to receive gets all of them, the transmitter recovers.
* **DPMI memory**: the page count is exact, areas tile the pools, contents survive every resize, the
  protection of a page follows its attributes, whatever the host refuses in between.

## 2. Modules

Each component is a module with its state as variables named as in the code and one action per
step that other actors can observe. A step is what runs under a mutex, or one system call, or one
port access; `pc`, `tpc`, `vt` and `cpu` are locations between such steps. Definitions whose name
ends in `_mut` are deliberately wrong variants that show a property can fail.

| Module | Models | Notes |
| --- | --- | --- |
| `Spscq` | `spscq.c` | ring arithmetic as operators; used by `PtyPipe` |
| `Console` | what the console makes of one piece: NUL ends it, `strdup_crlf` | gives the parameter `Shown` of `PtyPipe` its value |
| `PtyPromise` | the promise of the pipe | abstract specification |
| `PtyPipe` | `rd_thread`, `pty_worker` and the child | composes `Spscq`; `INSTANCE PtyPromise` is the refinement |
| `PtyPipeProofs` | | theorems of section 5 |
| `Shlock`, `ShlockProofs` | `shlock.c` | one action per system call; the file system is `pdir`, `cur`, `content` |
| `DpmiShm`, `DpmiShmProofs` | shared memory part of `memory.c` | uses the lock directory as `Shlock` describes it: `users` are the files in it, and the two `rmdir`s of a close are two steps |
| `Share`, `ShareProofs` | `share.c` | a lock is a name in a handle's set; a probe is "does any handle hold the name" |
| `I8259` | `i8259.c`, `i8259_common.c`, `pic.c` | the controllers as functions of their state; registers are sets of bits |
| `I8259Lemmas` | | the search of `pic_get_irq` and the registers, for every state; used by the next three proof modules |
| `Pic`, `PicProofs` | controllers between device threads and DOS | `newer` (which of two interrupts in service began later) and `withdrawn` are history variables |
| `Virq`, `VirqProofs` | `virq.c` with the mouse queue, on `I8259` | `cpu` and `stack` are the frames of the DOS thread |
| `Vtmr`, `VtmrProofs` | `vtmr.c`, `vint.c`, counter 0 of `timers.c`, on `I8259` | times are free choices; `cpu` and `stack` as in `Virq` |
| `Coopth` | `coopth.c`, `coopth_vm86.c`, the register stack of `lowmem.c` | the library as functions of its state; an assertion that fails is recorded in `err` |
| `EventLoop` | main loop, signals, callbacks, console switch, interrupt threads, reboot by `int19`, on `Coopth` | a thread body is external and makes the calls its type makes in the program |
| `Uart` | `ser_ports.c`, `ser_irq.c`, `ser_init.c`, `tty_io.c`, on `I8259` | one port as functions of its state; registers are sets of bits |
| `SerialPort` | the port between the host, the main loop and a DOS driver, on `Uart` | the driver may write any register at any time; its handler is the textbook one |
| `Smalloc` | `smalloc.c` | areas are a sequence; sizes in pages; the outcome of each commit is a parameter |
| `DpmiMem` | memory functions of `memory.c`, client start and end of `dpmi.c`, on `Smalloc` | every page carries its contents, so that a wrong copy shows |
| `MC*` | | instances for TLC |

What is abstracted. Bytes are numbered so that a misplaced one shows; only NUL and line feed are
told apart, because `pty_worker` treats them differently. `args.crlf` is never initialised by
`do_wait_cmd` (`dos2linux.c:297`), so it is an arbitrary Boolean. File names are model values; the
map from a file and suffix to a lock name is injective. Sizes of shared memory are left out. In the
controllers the vector base and the read register are left out: nothing else depends on them.
`q_ticks` wraps at 2^16 in place of 2^32, which is beyond TLC's integers; the counter stays far below
either. In `Coopth` the DOS stack is a list of return addresses, each "code" or the HLT of a thread,
and a thread body is what it can do to the loop. In `Uart` received bytes are counted, not stored;
modem lines are reduced to RTS, CTS and DCD. `DpmiMem` counts in pages, because every modelled caller
rounds up, and gives each page of a block a tag in place of its contents.

Atomicity. Calls on files that no other process can see yet are folded into one step (`Open` of
`Shlock`). The lock operations in `Share` are single steps because a lock is only ever probed under
the exclusive lock of the file, except by `mfs_close`, whose releases are therefore separate steps.
The relaxed accesses to `*done` lie between mutex operations of the same thread; those to the
`vtmr` registers are single read-modify-write operations, and are interleaved freely. The main loop
of `EventLoop`, the accesses of `SerialPort` and the calls of `DpmiMem` run on one thread, so a step
there is what happens between two places where other code can come in: a switch of a cooperative
thread, a port access, a call of INT 31h. Signals are queued while the loop is about to look at the
queue; at another time of the pass they commute with everything else.

## 3. Runs

Passing runs. "states" are distinct states.

| Run (`cfg`) | Instance | What it shows | states |
| --- | --- | --- | --- |
| `pty_pipe` (`MCPtyPipe`) | ring 3, 5 bytes, buffer 2, one key | the handed-out area is free, nothing lost, return when complete and not before (`ReturnsComplete`, `CloseReturns`), every byte shown, implements `PtyPromise` | 13,932 |
| `shlock` (`MCShlock`) | 2 processes opening twice, 2 names, all modes, crashes | exclusion, stable directory, clean when idle, removal only when unused, every call returns | 563,198 |
| `dpmi_shm` (`MCDpmiShm`) | 2 clients, 2 handles each, failures and kills | exact counts, registration, no orphan object, the exclusive lock is released | 175,316 |
| `share` (`MCShare`) | 2 emulators, 2 calls each, 2 files, all 15 modes, all operations | denials respected, the DOS table answered exactly, checks still hold, only a cycle of renames blocks | 551,697 |
| `pic` (`MCPic`) | IRQ 1, 8, 12; masks of the cascade and of IRQ 12 (one byte, 20, has both bits); IRQ 12 edge or level; plain and rotating EOI | outputs, cascade, nesting, EOI, spurious interrupts | 91,260 |
| `virq` (`MCVirq`) | 2 threads, 2 queues of 2, 3 events each, a key, a reboot, masks | every event signalled down to the controller (`EventsSignalled`), `NoReentry`, `EventsHandled` | 269,331 |
| `vtmr` (`MCVtmr`) | 2 ticks, singly or in a burst, 2 latches, depth 2, masks, both settings of `timer_tweaks` | `TickInOnePlace`, `ServiceEnds`, `TicksDrain` | 362,013 |
| `event_loop` (`MCEventLoop`) | interrupt, fdpp, signal and console threads, 2 instances each, 3 DOS frames, an abort or a reboot | `NoFatal`, `CountersExact`, `FramesMatch`, `WakeMeetsSleeper` | 669,767 |
| `event_loop_liveness` (`MCEventLoopLive`) | the same without the kernel thread, aborts and reboots, 2 DOS frames | `SwitchHappens` | 1,653 |
| `serial_port` (`MCSerialPort`) | buffer 2, trigger 2, 3 bytes in, pseudo terminal or real line with flow control, reboots | `NoLostInterrupt`, `Announced`, `EveryByteRead`, `TransmitterReady` | 338,811 |
| `dpmi_mem` (`MCDpmiMem`) | 2 clients, a pool of 7 pages with a limit of 6, a linear area of 3, blocks of 1 and 3 pages, one failed commit | `Accounted`, `Tiled`, `ContentsKept`, `Protected` | 174,413 |

The type invariant of a module, and facts that only make sense together, are conjuncts of one
property: `RefcntExact` includes that every user is registered with the lock library,
`OutputsCurrent` that the cascade input follows the slave, `EventsSignalled` and `TickInOnePlace`
that the line follows the request register, `ServiceEnds` that the poll of `vint.c` found its
interrupt, and `NoFatal`, `NoLostInterrupt` and `Accounted` the `TypeOK` of their modules.

The properties of the parts that run on the main thread, in words:

* `NoFatal`: the assertions and fatal errors of `coopth.c` that `err` records (a HLT of a thread that
  is not attached, a return of one, too deep a recursion, a wake-up of an inactive thread, an end below
  the current instance, a thread that cancels itself) are not reached. `FramesMatch`
  is the reason: for each attached instance there is exactly one place
  from which DOS gets back to its HLT, on the DOS stack or in the registers another instance saved.
* `CountersExact`: `threads_joinable`, `threads_left`, `threads_total`, `active_tids` and
  `in_handle_signals` agree with the table of threads, through cancellation, detach and a reboot from
  inside a thread.
* `WakeMeetsSleeper`: the copying pthread of `vga.c` or its callback is outstanding exactly while the
  console thread sleeps.
* `SwitchHappens`: a console switch that Linux asked for is started and ends. The last part needs DOS
  to run, since the console thread waits for its HLT, so it fails once DOS is frozen behind its back;
  the one way to get there is the exemption `co.late` (section 4).
* `NoLostInterrupt`: the line is high exactly while a condition is pending, enabled and let out, and
  outside the handler such a condition is in the request register of the controller. Because the
  controller is edge triggered, one missed `pic_untrigger` is an interrupt that never comes again.
* `EveryByteRead`: the port stops watching the terminal when its buffer is full, and something else
  has to take it up again.
* `Accounted`, `Tiled`, `ContentsKept`, `Protected`: count, layout, contents and protection of the
  same pages, each maintained by different code.

Why the bounds are enough. The ring is smaller than the stream and coprime to the buffer, so it
fills, empties and wraps at every offset. Two processes that open twice reach every pair of
locations, on one name and on two; what a third one could add is covered by the proofs, which hold
for any number, and six inodes never run out. Two handles reach a descriptor shared by two blocks
while the other client comes and goes. A share conflict involves two handles, and MatrixExact asks
for every second mode in each state with one. Queues of two overflow with three events. The devices
put two requests on the slave and one above the cascade, which is every relation of priorities the
cascade can be in. Two ticks in one burst are the least that leave a tick after an acknowledgement;
for any number of ticks and latches the safety of `Vtmr` is proved.
In `event_loop`, two instances of an interrupt thread are the least for one to end below another, and
three DOS frames let an interrupt of a callback of a thread return in either order; the kernel thread
has the other return convention (DOS calls its HLT) and leaves by a jump into DOS (`fdpp_call_noret`).
An abort and a reboot are not combined (each empties the DOS stack), and a reboot is not combined with
a console switch (`Mixed`, see section 4), so what a reboot does to `in_vc_call` is not covered.
In `serial_port`, one byte more than the buffer holds makes the port stop reading, and the trigger
level is reached only by a full buffer, so the time-out matters for the last byte. A buffer that is
above the trigger level and not yet full does not occur with these two equal, and with one byte to send
at a time the holding register and the shift register become empty together; both are left to larger
instances. MCR is written with
OUT2 or with LOOP (RTS, which loopback shows as CTS, is defined and not run). In `dpmi_mem` a
block of three pages can be resized in place, into the area before it, and by moving; seven pages
against a limit of six plus one reserved make both refusals happen.

Deadlock is checked where a system runs to an end that is marked (`Over` of `PtyPipe`, `Done` of
`Shlock`) and where it never ends (`EventLoop`: the loop always has a next step). The other systems
stop because their bounds on calls, events, ticks or handles are used up, or, in `Share`, because
crossing renames really block, or, in `DpmiShm`, because every client was killed; there it is off and
`OnlyRenamesBlock` and the liveness properties say what must not stop.

Fairness. `PtyPipe`: weak fairness of each thread, because the kernel schedules `rd_thread` and the
main loop resumes a waiting cooperative thread; none of the child or the user; the signal wakes the
producer since only one thread waits. `Shlock`: a process goes on with the call it is in and closes
what it opened; a `flock` wait is fair only in that a lock free for ever is taken. `DpmiShm`: a call
that was started goes on. `Virq`, `Vtmr`: threads run, the DOS thread takes interrupts and its
handlers end; `Virq` also needs that a bottom half that runs again and again ends in one of its runs:
DOS callbacks may ask to be run again, but not for ever. Their liveness properties assume that DOS does
not go on masking the line: a program that leaves an interrupt masked gets none. `EventLoop`: weak
fairness of the main loop, the copying pthread and the signal handlers; strong fairness of the return
of a DOS call and of the end of a thread body, since both are enabled only in the passes of the loop
that run them. `SerialPort`: `serial_run` is called on every timer tick, the callback of a readable
terminal on every pass, the host sends what it was given, and the CPU goes on; none of the program's
register writes. In `Virq`, `Vtmr` and `SerialPort` weak fairness is written out, as "again and again
not possible, or again and again done".

## 4. Where the code and its words disagree

One run expects a violation. `share_third_open` checks what
`test/func_ds3_share_open_twice.py:236` says of its table, that it holds for "Second and subsequent
Opens". An open that `do_mfs_open` admits as an exception (`share.c:243-256`) claims no locks, so a
later open does not see it and is admitted beside it. No handle has to be closed for that: the first is
open in compatibility mode for reading, the second, deny-write for reading, comes in through lines
252-256, and the third, in compatibility mode for writing, looks only for the lock `noncompat`, which
neither of them holds.

The modelling met other places where the code does less than its words or its callers suggest. They
are recorded here; where a property would fail because of one of them, the property names the
exemption or a constant of the `.cfg` keeps the case out, as said below.

*Locks and sharing.* `shlock.c:253` says "whoever removes our dir, returns the removal indication to
the caller", but a failed non-blocking open removes it at line 224 and has no way to tell.
`share.c:253`: a refusal without a conflict. `share.c:140`: lock names are file names.
`memory.c:957`: two objects of one name. `memory.c:634`: a size that is not reduced. `dpmi.c:2171`: a
second lock call overwrites `shm_lock`.

*Interrupts and timers.* `i8259.c:245`: the special mask command leaves the output stale.
`vint.c:55-56` asserts after the poll ("see if it worked") that the interrupt is in service; with
automatic EOI there is no in-service bit (`AutoEoi`, FALSE in `MCVtmr.cfg`). `timers.c:518`: a
reprogrammed counter skips queued ticks. `vtmr.c:418`: a reset is not serialised with the vtmr thread.

*Main loop.* `signal.c:793`: the tail of the signal queue is not checked against the head, so more than
`MAX_SIG_QUEUE_SIZE` signals in one pass overwrite older ones. A reboot in the middle of a console
switch cancels the thread that the copying pthread will wake, and the wake-up then finds no thread, or
the next one (`Mixed`, FALSE in the `.cfg` files). `SIGACQUIRE_call` calls `unfreeze_dosemu` once, at
`vc.c:107`, and then waits for the switch in progress; if that is a release, its `post_release`
(`vc.c:173-179`) freezes DOS again when it is joined. The acquisition is then started, but
`loopstep_run_vm86` (`do_vm86.c:720`) does not run DOS, so the console thread never gets to run and
`in_vc_call` turns every later release away. `co.late` records it and `SwitchHappens` exempts it.

*Serial port.* `ser_irq.c:330` ("optimization: don't read() when enough data buffered") compares with
`rx_fifo_trigger`, which is 0 until the program writes FCR: a port that was dropped from the select
set is then not taken up again by `serial_update`, hence `S.trigger > 0` in `EveryByteRead`. `put_mcr`
does not lower the line when it enters loopback without OUT2, the exemption in `LineCurrent`. Setting
DLAB drops pending receive and transmit requests while a pseudo terminal keeps its buffer, the
exemption in `Announced`. The branch of `get_iir` for `THRI` tests a bit that `RLSI` has too.
`ser_reset_dev` keeps LSR, `int_condition`, the receive buffer and the FIFO flag of IIR.
`rx_fifo_size` is never assigned. `put_tx` in loopback does not compare with the end of the buffer
(a bound of `WriteTx`).

*DPMI memory.* `DPMI_malloc`, `DPMI_mallocShared` and `DPMI_realloc` compare the result of the
allocator with 0, but it fails with -1: the block then has the address `Bad`, and a block that could
not grow loses the pages it had (`S.lost`). `dpmi_init` without room for the stack uses the block it
has not got (a bound of `StartClient`). Function 0507 does not compare its range with the block: neither
`dpmi.c:3217-3221` nor `memory.c:1211-1228` nor the loop of `memory.c:376-396` does. Behind the end of a
block it takes what follows the array of attributes for attributes and changes `mem_allocd` and the
protection of pages that belong to another block or to none. The bound `InBlock` of `SetAttributes`
keeps such calls out; `Accounted` and `Protected` are about programs that name pages of their own
blocks. The first client restarts the handles at 1, a handle the host
has used; `Accounted` shows that the stack a client frees is nevertheless its own. Read-only pages
become writable by a resize, and mapping over a committed page loses its count (neither is modelled).

## 5. Proofs

`PtyPipeProofs`, for every ring size, buffer size, output length and conversion `Shown` of a piece
(`SizeAssumption`, `PipeAssumption`):

* `Invariance`: `Spec => []IInv` with `IInv == TypeOK /\ NothingLost /\ Phases`. `NothingLost` alone
  is not inductive: that the area stays clear of unread bytes while the reader works without the
  mutex needs `Phases`, which ties the area to `rd_pos + fillup`, a sum that reads leave alone
  modulo the size, and which says what each thread's location implies of the other.
* `AreaStaysFree`, `OrderKept`, `CompleteOnReturn`: the three safety properties, from `IInv`.
* `Refinement`: `PtyPipe` implements `PtyPromise`. `WorkerWrite` is `PShow`, the last empty read is
  `PFinish`, all other thread steps stutter.

`ShlockProofs`, for any sets of processes, names and inodes (`ShlockAssumption`):

* `Invariance`: `IInv == TypeOK /\ StableDir /\ PrivateDir /\ Tree /\ LockTable`. `PrivateDir` says
  that a private directory is nobody else's and holds exactly its owner's file; `Tree` that two
  names never lead to one inode and that there is no name without a parent; `LockTable` that locks
  on one inode are compatible and only those inside hold a descriptor. Exclusion is about names and
  `flock` about inodes: `StableDir` closes the gap, since all users of a name hold the inode it
  leads to.
* `LockExcludes`, `DirectoryStable`, `RemovalUnused` (an action property), and `NothingLeft`, which
  needs a second invariant, `Responsible`: a directory that exists has a process whose file is in it
  or which is on its way to remove it.

`DpmiShmProofs`, for any sets of clients, handles and objects:

* `CountExact` (`RefcntExact`) from `IInv == TypeOK /\ \A c : Local(c)`. The count is compared with a
  cardinality, so `Local` keeps the set of blocks finite, and it says at which locations a client has
  no block, has its file in the lock directory, or has a descriptor: the count alone is not inductive
  because `_close_shm` decides by the count what to release.
* `ObjectUnlinked` (`NoOrphan`) from `Owned`: while nobody died, an object that exists has a client
  that uses the name or that `shlock_close` told to unlink it. This is the hand-over that the two
  `rmdir`s of a close could break: between them another client may open the name again.

`PicProofs`, for any devices, masks and trigger modes. The theorems assume `PlainCommands`: the bytes
written to the command ports are end of interrupt, rotation, set priority and read register. The
hypothesis is needed, not convenient: `i8259.c` does not call `pic_update_irq` after a poll, after
special mask mode and after ICW1 of an idle controller, so the outputs are then stale until the next
call. `EoiEndsNewest` also assumes `RotatesOnEoi`, because a set-priority command makes an older
interrupt the most urgent one. Both hold for the commands of the run.

* `OutputsFollow` (`OutputsCurrent`): the invariant `Good` says that both controllers are in plain
  mode and that the two outputs, INT of the master and its line 2, are what the registers want. The
  proof is one lemma per call of the controllers: the slave's update runs the master's.
* `SpuriousHasCause`: between `pic_pending` and `pic_get_inum` the master wants an interrupt, or a line
  was lowered; new requests and masks of the other controller cannot take it away.
* `EoiEndsNewest`: `Ordered`, of two interrupts in service the more urgent began later. Every
  operation is one of four moves (`Moves`): nothing, begin one more urgent than all in service, end
  any, end the most urgent and rotate past it; each keeps the order.

`ShareProofs`, for any emulators, files and handles (`ShareAssumption`; `NameAssumption`, no file has
the name of another with a suffix; `HandleAssumption`):

* `Invariance`: `IInv == Types /\ Pairs /\ \A p : Call(p) /\ Entries(p) /\ Known(p)`. `Call` ties the
  exclusive locks to the location, `Entries` each entry of the table to the call that opens or closes
  it, `Known` is what makes the protocol work: the names a probe found free are still free, and the
  file a modification found closed is still closed, because everybody else would need the exclusive
  lock. `Pairs` says that two claimed handles on a file agree one way round.
* `DenialsRespected`, `ChecksHold`, `RenamesBlock` follow from it. `AnswersExact` (`MatrixExact`) runs
  through the table of modes: with one claimed handle, the probes and the loophole answer as the test
  tabulates.

`VirqProofs`, for any threads, virtual IRQs, queue lengths and masks, and any number of reboots
(`VirqAssumption`):

* `Invariance`: `IInv` has six parts. `Cascade` is the state of the controllers in the mode `bios_setup`
  programs: only the lines in use are requested, and line 2 of the master only for a slave that wants
  it. `Frames` says, for every location of the DOS thread, what its suspended frames are and which
  interrupts are in service. `Mutexes` says who holds `hndl_mtx` and `irr_mtx`. `Queues` is about the
  race of an empty queue: a thread that makes a queue non-empty is the only one about to raise it, and
  its bit is clear or is going to be cleared by the handler that emptied the queue; that is why `hndl_mtx`
  is held over draining and `virq_lower`. `Current` ties `inum` and the bottom half to the location.
  `LineOf15` relates the line of IRQ 15 to the register of pending virtual IRQs, through the windows in
  which they may differ: between the bit and `pic_request`, between the last bit and `pic_untrigger`,
  and during a reboot.
* `EventsReach` (`EventsSignalled`) from `Queues` and `LineOf15`. `NoReentrance` (`NoReentry`, an action
  property) from `Frames`: while the handler or its bottom half is active the master serves line 2, so
  only IRQ 1 gets through; and IRQ 15 is requested only while its line is high.

`VtmrProofs`, for any number of ticks, size of bursts, latches, depth of nested interrupts and set of
masks, and both settings of `timer_tweaks` (`VtmrAssumption`; it bounds ticks plus latches below the
width of `q_ticks`, since a counter that wraps to 0 would lose the ticks it counted):

* `VtmrInvariant`: `IInv == Chips(pics) /\ Shared /\ OfDos`. `Chips` is the state of the controllers in
  the mode the program keeps them in. `Shared` is what the timer thread, the vtmr thread and DOS rely
  on together: `Counters` (the counter never exceeds the ticks and latches so far, so it does not wrap),
  `Pending` (the semaphore counts the pending bit not yet read), `Mutex` (who holds `irr_mtx`),
  `Stopped` (the event timer is blocked and its callback idle while a latch raises a tick itself),
  `OnePlace` and `LineOf11`, which follow one tick from `q_ticks` to the acknowledgement and the line of
  IRQ 11 through the windows in which it differs from the register. `OfDos` is about the DOS thread
  alone: `Shape`, which frames can lie on which, `Masking`, when the vtmr mask is set and the master
  waits for a poll, and `Services`, what is in service at every location.
* `TickAlwaysInOnePlace` (`TickInOnePlace`) from `OnePlace` and `LineOf11`. The property alone is not
  inductive: that an acknowledgement with ticks left starts exactly one new request depends on where
  the other two threads are, which is `Pending` and `Mutex`.
* `ServiceAlwaysEnds` (`ServiceEnds`), under `~AutoEoi`: with automatic EOI the
  assertion of `vint.c` does not hold (section 4). `Services` is the argument: each return of a
  frame restores what was in service when it was entered, so the redirection finds IRQ 0 free to poll
  and its two EOIs end IRQ 11 and the cascade, not something below.

  The proof has one lemma per kind of step, so that each looks at the part of the invariant it can
  disturb: steps of the two threads, which leave `OfDos` alone; steps of DOS outside of the mutex and
  the latch, which leave the timer registers alone (`QuietStep`); steps inside one frame (`InFrame`);
  and the steps that cross the border (`BorderStep`). The lemma of returns (`GoesBack`) reads the
  location to return to off `Shape`.

Every leaf that reasons about an `EXCEPT` cites the type invariant for the domain of the function: the
SMT encoding would accept `[f EXCEPT ![p] = e][q] = f[q]` without it, TLA+ does not.

The inductive invariants were also checked with TLC, on the instances of section 3.
Writing the proofs changed three models without changing their behaviour: `Pic` keeps the order of
service as a relation instead of a sequence, the stacks of `Virq` and `Vtmr` grow at their head, and
`TickInOnePlace` says that the set of places that hold the tick has one element, not that its
cardinality is 1.

Only model-checked: liveness (it rests on fairness and `ENABLED`, which the prover does not handle),
what folds and recursive library operators compute on sequences (induction over data; this concerns
`DPMIfreeAll`, `KillAll` and the sums of `Accounted` and `Tiled`), and so far the safety of
`EventLoop`, `SerialPort` and `DpmiMem`. For `Pic`, commands outside of `PlainCommands`; for
`ServiceEnds`, automatic EOI, which the run leaves out too.

## 6. Not modelled

* `memory.c`: the NS variants and `SHM_EXCL`; `dpmi.c`: the lock calls of clients.
* `share.c`: the PSP comparison (one program per emulator), and the full table of open files, which
  ends the emulator.
* `i8259.c`: all commands are in `I8259`; of the programs that use them, `Pic` has end of interrupt,
  rotation, masks and ELCR, `Vtmr` the poll extension and `Virq` the initialisation at a reboot. Special
  mask, specific end of interrupt and set priority are defined and not run.
* `vtmr.c`: the protected mode entry, `vtmr_reset` and the RTC timer; `timers.c`: counters 1 and 2,
  reprogramming and time stamps.
* `coopth.c`: the protected mode back-end (`coopth_pm.c`) and the context switches of libpcl;
  `coopth_detach` (nothing calls it), `coopth_attach` (its callers are attached already) and
  `quick_sched` (no detached thread of the program sleeps for it); thread classes and user data; the
  limit `MAX_ACT_THRS` (ten threads at once) and the assertions that hold by the shape of the model, such
  as that a call is made from inside a thread. `NoFatal` is about those that `err` records.
* `signal.c`: the handlers of CPU exceptions and a queue that overflows. `iosel.c`: the callbacks of a
  descriptor are steps of `SerialPort`; removing one while it runs is not modelled.
* Serial: the FOSSIL driver, modem emulation, serial mouse, divisor and line format, and in the run the
  end of file on a line (the actions have it, the bound `MaxHups` keeps it out for the size of the run).
* DPMI memory: mapped memory (0508, 0509, 0800), read-only pages (the page of the host's helper code, made
  read-only at `dpmi.c:4342`, among them), ranges of 0507 behind the end of a block, resident clients, a client that ends
  before a later one, failures of `mprotect` outside commit. `smalloc.c`: areas smaller than a page,
  alignment, and the pool without commit callbacks of full simulation.
* CPU emulation is an instruction set, video and file name translation are data, and disks, printers,
  sound back-ends and plugins are host I/O; `PROJECT.json` has the reason for every part.

## 7. Plan

1. Proofs, in this order: `Announced` of `SerialPort`; `WakeMeetsSleeper` and the scalar counters of
   `EventLoop`; the tiling part of `Tiled` for one pool.
2. `Vtmr` with `vtmr_reset` and reprogramming of the PIT (`tmr_skip`, `q_ticks`); the host timer
   (`evtimer_fd.c`) as its environment; RTC as second timer.
3. Receive paths: `iosel.c` with removal against callbacks, NDIS and packet driver on virtual IRQs;
   keyboard queue to the 8042; DMA and DSP.
4. XMS and EMS handle tables, record locks (`rlocks.c`); the DPMI client frames on `Coopth`.

## 8. Running it

`tlc -workers 2 -config X.cfg MCModule` in this directory runs one line of the table in section 3
(`MCEventLoopLive.cfg` with `MCEventLoop`, `MCShareThree.cfg` with `MCShare`); each takes at most a few
minutes. `tlapm M.tla` checks the proofs of `M`, for `M` one of `PtyPipeProofs`, `ShlockProofs`,
`DpmiShmProofs`, `I8259Lemmas`, `PicProofs`, `ShareProofs`, `VirqProofs` and `VtmrProofs`; each takes
up to six minutes, `VtmrProofs` ten.

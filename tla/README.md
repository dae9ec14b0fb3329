# Verification of the TinySYS common firmware

This directory holds TLA+ models of `src/`, the firmware that MediaTek's small
companion processors share: drivers (mailboxes, clocks, DMA, timers, buses,
audio) and middleware (logging, SCMI, wake locks) on FreeRTOS.  The models are
checked with TLC on small instances, and what matters most of them is proved
with TLAPS for every value of the constants.  `PROJECT.json` is the index: which
definition stands for which lines, what each run checks, which change of the
code each property would notice.

## 1. The system

Tasks of several priorities run on one core (some builds have two harts).  They
are preempted by interrupt handlers; kernel services give semaphores, queues,
mutexes and a timer task.  Other processors (the application processor "AP", an
audio DSP) share memory with it and raise interrupts.

| Part | State it keeps | Operations | Hard behaviour | What makes it correct |
|---|---|---|---|---|
| `drivers/mbox/v2` | pins: shared slot, interrupt bit, `mutex`, `notify`, callback/buffer/private data | `ipi_send`, `ipi_send_compl`, `ipi_recv`, `ipi_recv_reply`, `ipi_register`, `ipi_unregister`, `mbox_isr` | test, write and trigger are three steps; binary notifications merge; late answers; registration races the interrupt | nothing pending is overwritten, news is never forgotten, an answer belongs to its question, mutexes come back |
| `drivers/mbox/v1`, `v3` | tables of callbacks | same idea, no synchronous layer (v3) | same | same |
| `middleware/wakelock` | list of locks, expiry tick and software timer of each | `wake_lock`, `wake_lock_timeout`, `wake_unlock`, `_FromISR`, `wake_lock_deinit`, the timer callback | the timer task works off commands later; full queue; wrap | a lock is held as long as promised and, if it is held for a time, released |
| `drivers/audio/audio_utility/audio_lock` | mutex, one-place signal queue, count of waiters | lock, lock with time out, trylock, unlock, wait, signal | signals against time outs; starvation | exclusion, no lost signal, fairness |
| `drivers/audio/framework/audio_sw_mixer` | targets, sources, paths with ring buffers, mixer threads | attach and detach of source and target, write, the mixing loop | a web of locks and signals, direct writes past the thread, objects freed while others work | a returned write was mixed, nothing freed is used, nobody sleeps forever, order |
| `audio_ringbuf`, `audio_ringbuf_pure` | base, read, write, end pointers | put, get, copy between rings, grow, drop | wrap, full against empty | FIFO |
| `audio_messenger_ipi`, `audio_task_*` | queues of messages, task scenes and states | send, acknowledge, route to a task | bypassed acknowledgements, full queues | messages reach the task once and in order |
| `audio_ipi_dma` | regions in shared DRAM with read and write index | write and read of both sides | two processors move the indexes | FIFO across processors |
| `audio/aurisys` | libraries, handlers and pools per scene | parse a configuration, process a buffer | sizes of pools, many formats | no data is dropped between libraries |
| `middleware/logger` | SRAM ring, DRAM ring shared with the AP, pending flags | `logger_puts`, move to DRAM, enable, flush | callers in any context, update pended to the timer task, reader elsewhere | what is read was written, in order; overflow drops oldest data only |
| `middleware/scmi` | protocol table, channel context, feature table | message handler, respond, notify, receive | one context per channel, one buffered message per feature | a reply answers its request |
| `middleware/pbfr`, `MemMang`, `sanitize_helper` | time stamps per task, traces | hooks of the kernel and the compiler | none of their own | accounting |
| `clk`, `hwccf` | enable counts over a tree, votes in registers | enable, disable, vote | nested counts, polling | a parent is on while a child is |
| `dma` | channel table | request, configure, start, poll, free | channel sharing, alignment | no channel has two owners |
| `irq`, `eint` | handler tables, groups, masks | request, mask, dispatch, migrate (two harts) | nested masks | every pending line is served |
| `timer` | base of the AP time, sequence word | read, convert, synchronise | 64-bit products, torn reads | time is monotonic |
| `sem`, `sramrc`, `i2c`, `spi`, `spmi`, `pmic_wrap`, `thermal`, `uart`, `wdt`, `bus_tracker`, `zerocpy_ipc` | registers | register accesses and polling | the state is in the hardware | the hardware's contract |

The parts interact as follows.  `mbox` carries every message between processors:
SCMI, the logger's requests, the audio messenger and time synchronisation are its
clients through registered callbacks.  Wake locks are taken around work by any
task or handler and are consulted by the idle task before it sleeps.  The audio
framework's tasks share `audio_lock`; the mixer is used by tasks (sources), by
`audio_dummy_mixer` and `audio_pipe`, and calls back into the target's owner.

## 2. Plan

The parts with the most concurrency of their own came first, bottom up, then what
data passes through, then what keeps the system powered and told.

| Order | Module | Over | State |
|---|---|---|---|
| 1 | `Mailbox`, `Ipi`, `IpiProofs` | - | done |
| 2 | `Wakelock`, `TimerTaskProofs` | - | done |
| 3 | `AudioLock`, `AudioProofs` | - | done |
| 4 | `SwMixer`, `SwMixerProofs` | uses the locks of 3 in their abstract form | done but for a second target |
| 5 | `Fifo`, `AudioRingbuf`, `AudioRingbufProofs` | any number of rings; implements `Fifo` | done |
| 6 | `Logger`, `TimerTaskProofs` | SRAM ring, DRAM ring, the AP as reader | done |
| 7 | `Scmi`, `TransferProofs` | message handler, features, notifications, two agents | done |
| 8 | `AudioDma`, `AudioProofs` | two processors over two regions, messenger and message queue of a task | done for messages with data |
| 9 | `ClkTree`, `PowerDomain` | power domains call the clock tree | done |
| 10 | `Eint`, `Irq`, `IrqProofs` | external interrupts; dispatch and migration on two harts | done |
| 11 | `TimeSync`, `TransferProofs` | the time of the AP | done |
| 12 | `Aurisys`, `AurisysControl`, `AurisysProofs` | chains of libraries; who makes and frees them | done but for parsing |
| 13 | `ZeroCopy`, `IpiV1`, `Gdma`, `TransferProofs` | messages between cores, the older mailbox, DMA channels | done |
| 14 | `RingBuf`, `AudioRingbufProofs`; `AudioPipe`, `AudioProofs` | rings of fixed size, pipes | done |

Abstract specifications: one-place mailboxes (`Mailbox`, implemented by `Ipi`); a byte
FIFO (`Fifo`, implemented by `AudioRingbuf`).  Section 4 ends with what is only
model-checked.

Parts that share no state are checked in one run, one part in each behaviour: the
first state chooses `part`, and only that part's actions are enabled.  Such a run
(`MCPower`, `MCServices`, `MCExchange`, `MCStreams`) shows what separate runs of its
parts would.

## 3. Module by module

### Ipi (drivers/mbox/v2/ipi.c over mbox_common.c)

One mailbox between this processor and a remote one.  `slot[i]` and `busy[i]` are
the share memory and the interrupt bit of the send pin of id `i`; `rslot`,
`rbusy` those of the receive pin; `data[i]` is `pin_buf`, the copy the callback
reads; `notify[i]`, `mutex[i]`, `cb[i]`, `buf[i]`, `prdata[i]` are the fields of
the pin of the same names, `regMutex` is `mutex_ipi_reg`.  `isr` is where
`mbox_isr` is and the status word it read.  A task's call goes through `pc`:
`CallSend`/`TakeMutex` (`_ipi_send` and its mutex), `CheckPin` (the polling loop
and the last check), `WriteSlot`, `TriggerIrq`, `AwaitAck` (the wait of
`ipi_send_compl`), `GiveMutex`; `CallRecv`, `TakeNotify`, `TestCallback`,
`CallCallback`, `EndCallback` (`ipi_recv`), with `CallReply` going on into the
send steps; `CallRegister` ... `GiveRegMutex`.  While the handler runs no task
takes a step, the remote does.

`Mailbox` states what a sender is promised: an id is a place for one message that
is filled once and emptied once.  `MailboxSpec` is that specification under the
mapping "a place holds `slot[i]` if `busy[i]`".

* `MCIpiSend`: two tasks on three ids, waiting for answers or not, with one
  retry, refused over-long messages, one unregistration of an id without receive
  pin, and one task that answers without `pin->mutex`.  Three messages of this
  side and one of the remote are enough for two senders to meet at one pin while
  a third message is pending on it.  Shows that pending messages stay intact,
  that a pin has one writer, that answers belong to their calls, that the pins
  implement the mailboxes, and that mutexes are given back.
* `MCIpiReceive`: a listening task, an interrupt-context pin and a pin that two
  tasks register and unregister, with bad lengths in queue mode.  Two messages
  per run of the remote overwrite one another in `data`.
* `MCIpiLate` (violation): `response_timeout` may expire.  A late answer gives
  `notify`, and the next `ipi_send_compl` returns done before its own answer.

Fairness: weak, of a task inside a call (preemptive scheduler, the critical
sections are short), of the handler and of the remote taking and answering;
nobody has to start a call.  `ListenSpec` adds a receiver that calls `ipi_recv`
again, as the users' loops do.

Met while modelling, without a run of their own: `ipi_register` stores the
callback before the buffer and the private data, so an interrupt in between calls
back with a null buffer (`RegistrationWhole` therefore speaks of the time outside
`mutex_ipi_reg`); `buf_full_opt` is set in tables and never read; a plain
`ipi_send` on an id with an acknowledge pin leaves a token that completes a later
`ipi_send_compl`, just as a late answer does, so `MCIpiSend` uses such ids with one
of the two calls only; an answer goes out without the pin's mutex, so
`ReplyAssumption` asks of the users that nobody else sends on that id.

### Wakelock (middleware/wakelock/wakelock.c)

`listed` is `xWakelocksList`, `expired` the lock's expiry tick, `present`,
`active`, `left` its software timer, `queue` the command queue of the timer task,
`daemon` what the timer task is at: in its queue, `Looking`, or about to run the
callback of a lock.  A call from a task is one critical section (`WakeLock`,
`WakeLockTimeout`, `WakeUnlock`), a call from an interrupt one step;
`wake_lock_deinit` is three.  `TimerLooks`, `TimerExpires`, `TimerCallback`,
`TimerCommand`, `OtherCommand` are the timer task, modelled from how FreeRTOS
software timers are used here: it drains its queue before it looks for an expired
timer (`TimerLooks`; when the tick count has wrapped it takes expired timers first),
and the callback runs outside any critical section.

`promise` and `excuse` are history: how long the callers still want the lock, and
what was special in their calls - `hasty` (made before the timer task was done
with the ones before), `delayed` (a tick passed before a command was taken),
`late` (the tick count wraps before the expiry), `zero` (expiry exactly at tick
0), `refused` (command queue full), `unlimited` (held by `wake_lock`).  The
properties say which of them an assurance survives: `HeldWhenSettled` none but
`unlimited`, `TimedArmed` the first three, `ExpiryReleases` all.

* `MCPower`, part "wakelock": one lock, periods 1 and 2, ticks modulo 3 for
  4 ticks, a queue of two that other timers fill too, so that the tick count wraps once.
  Locks only meet in the queue, and `other` commands stand for the rest, so one lock is
  enough.
* `MCWakelockLate` (violation): `wake_lock_timeout`, then `wake_lock` before the
  timer task took the command: the timer is not active yet, so nothing stops it,
  and its expiry releases the lock.  There is one period, and no call comes between the
  timer task's last look at its queue and the expiry (`NoneBetween`), which would
  be another way to lose the lock.

Other exceptions that the excuses name: with a wrapped tick a longer time out is
taken for a shorter one and ignored; an expiry at tick 0 arms nothing
(`xExpiredTick` 0 means none); with a full queue the new expiry is stored and no
timer runs; `wake_lock` followed by a time out arms nothing, because an unlimited
hold wins; `wake_lock_deinit` with a full queue leaves a timer that may expire
into `configASSERT(lock->xTimer)`.

### AudioLock (drivers/audio/audio_utility/audio_lock.c)

`mutex`, `cond` and `lock_count` are the fields of `alock_t`; `pc` is where a task
is in `alock_lock*`, `alock_trylock`, `alock_wait*` or `alock_unlock`; `signalled`
records that a task slept when a signal was given.  `Take` after `CallLock` and
`CountDown` after `Take` are separate steps because `lock_count` is changed
outside the mutex.  `Yield` is `portYIELD` among tasks of one priority:
the task goes on only when no other task is ready to take the free mutex.

* `MCServices`, part "lock": two tasks that make every call and one that signals.  Two are
  enough for each race of the mutex; the third shows signals from outside.  Weak
  fairness of every task inside a call, which includes that a caller unlocks, is
  what the scheduler and every caller in `audio_*` give.  `Unstarved` excludes a
  partner that returns from waits again and again: a wait gives the mutex back
  without a yield.

### SwMixer (drivers/audio/framework/audio_sw_mixer.c)

The mixer thread (`Mixer`), source tasks (`Sources`) and a control task
(`Control`) that attaches and detaches the target and ends the manager.  `lock`,
`plock`, `slock` are the mutexes, `cond` and `pcond` their signals, in the
form `AudioLock` justifies: exclusive, one signal kept.  `path[s]` is
the path of a source to the target with its ring buffer `buf` (one element per
unit, the number of the write it came from), `target` and `thread` are the
structures of these names, `out` is what the target's write callback got.  The
names of the control points follow the functions: `Thread*` is
`sw_mixer_thread_routine`, `MixTop` to `MixDone` `sw_mixer_do_mix` and its
helpers, `CallWrite` to `WriteReturns` `sw_mixer_source_write`, `Unlink` the shared
end of a path.  `setup` is the configuration; it is a variable that no step
changes, so that one run looks at several.

* `MCSwMixerSafety`: four setups of two sources - `Double` (a write of two
  mixes), `Odd` (sizes that do not divide, mute, a full path), `OddLate` (the same with
  writers that time out), `Detach` (the target goes and comes while sources write).
  `NotLeftAsleep` has as a conjunct that no launch is lost once the thread has run;
  `FreedUnused` is about paths and targets.
* `MCStreams`, part "mix": under fairness, writers without time outs return
  (`WriteReturned`), and detaching and ending end (`MixerEnds`).
* `MCSwMixerBoot` (violation): a target attached before the thread first runs
  signals nobody, and the thread then waits without looking.
* `MCSwMixerOrder` (violation): a source that became the only one writes directly
  past data of its own that the thread has taken out of the ring.

Bounds: two sources are enough for mixing, for direct mode to begin and end and
for one to leave while the other is looked at; one or two writes each make a
signal that belongs to an earlier write visible.  Fairness: weak for each task,
as the scheduler gives among ready tasks whose higher-priority neighbours block.

Assumed: `LOCK_ALOCK(thread->lock)` does not time out (`idleTimeout`).  If it
does, after a second, `sw_mixer_target_detach` goes on and frees the target under
the thread; `IdleTimeout` lets the model do that.  Seen without a run: the choice
of direct mode is made under `mix_lock` and used under `direct_lock`, so a direct
write and the thread can be in the write callback together; `InOrder` is also
broken by a writer that timed out.

### AudioRingbuf (drivers/audio/audio_utility/audio_ringbuf_pure.c)

`rb[r]` is one `struct audio_ringbuf_t`: `mem` is what `base` points to, `read` and
`write` are offsets from it, `size` is 0 before the first write.  One action per
call; `CopiedIn`, `CopiedOut`, `CopiedAcross` and `Compensated` are the `memcpy` and
`memset` calls with their cases, `Resized` the change of size that every write
makes first, with its doubling and halving loops.  `Store` is the common shape of
`audio_ringbuf_copy_from_linear` and `audio_ringbuf_write_value`.  Calls are steps
because the owners hold a lock of theirs or are one task.

`tape`, `head`, `tail`, `kept` are history: the bytes that callers put, in places
that never move, with marks of the reader, the writer and of how far the reader
may step back.  They are computed from the calls alone, never from the memory,
and are the state of `Fifo`, the abstract specification; `FifoSpec` is that
specification over them, with `result`, what a read returned, as the
observation.  A refused write is no step of `Fifo`, so the refinement says too that
the change of size always makes enough room.

* `MCExchange`, part "buffer": `setup` says which calls the owners make.  `Back` steps back by
  rollback and compensation across the start of the memory; `Sizes` grows and
  shrinks filled, empty and wrapped buffers; `Pair` copies between two rings that
  both wrap.  Amounts of 1 and 3, `Spare` 1 for the 16 of
  `MAX_SIZE_OF_ONE_FRAME`: a first write of 1 gives a memory of 3 that wraps after
  two more bytes, one of 3 gives 7, and twelve bytes reach two doublings and a
  halving.  `Behind` and `Ahead` bound the tape, so the writes end and the run does
  not look for deadlock; nothing here waits.

Left out: `audio_ringbuf_drop_all`, which nobody calls and which sets `read` and
`write` to NULL next to a base; calls for more than is there, which assert and
which every caller avoids by asking first; sizes near 2^32 (`2 * write_size`,
`8 * (data_count + write_size)`), far above the buffers of a frame.  Rollback is
modelled for bytes read since the last change of size: the code does not know
when that was, the caller has to.

### Logger (middleware/logger/v1/logger.c)

`logRead`, `logWrite` and `logBuf` are the SRAM ring, the DRAM's indexes and contents
those that the AP shares; the bytes of all texts are numbered, so a ring says where
its contents come from.  `logger_puts` is an action, as it runs in a critical section
or an interrupt; `logger_update`, in the timer task, is cut where callers may come
between: the test, the positions it reads, the critical section with the DMA.
`LogInOrder` says that what was read, what waits in DRAM and what waits in SRAM is the
log in order; `LogKeeps` that a byte is dropped only when its place is needed, but for
a text that ends exactly at the read position, which makes a full ring look empty and
drops all of it (logger.c:161); `LogWillMove` that the flag which keeps callers from
pending an update never stays up without one.

* `MCExchange`, part "log": a ring of 6, a DRAM of 5, texts of 2 and 3, nine bytes in
  all.  Both rings wrap, the SRAM overruns, the DRAM is full, the AP loses its memory.

### Scmi (middleware/scmi/v1)

`Respond` and the handlers are those of `scmi_message_handler` in the interrupt, the
callback and `scmi_tinysys_message_receive` those of a task, `scmi_notify` what tries
the channel of notifications.  The agents, external, send in a free channel.
`ScmiMine`: an answer is that of the request it lies on, an accepted notification stays
until it is read.  `ScmiAnswered`: every request is answered.  Excused (`scmiHalted`)
is a feature asked between the two stores of its binding, which meets an assertion.

* `MCServices`, part "scmi": two channels with one agent each, one feature, asked
  through one of the channels, as the record of a feature has one place for a request.
  Fairness: weak of the interrupt, strong of the message handler and the tasks, which
  interrupts keep disabling; the platform is faster than its agents.

### AudioDma (audio_ipi_dma.c, audio_messenger_ipi.c, the queue in audio_task_utility.c)

`Up*` are the steps of a sender of data to the AP: the lock, the index kept, the
write, the mailbox; `Down*` the dispatcher in the interrupt, the array and queue of the
task, its reads and drops, creation and destruction.  The AP runs the same region code.
`DmaWhole`: who reads the data of a message gets all of its data and nothing else.

* `MCExchange`, parts "up" and "down": regions of 6 with alignment 2, messages of 1 and 3
  bytes, five of them, so the indexes come round; messages given up leave their data.

### ClkTree, PowerDomain (drivers/clk/v1/mtk_clk.c, mtk_pd.c)

A call is a list of steps still to do (`clkWork`, `pdWork`), made as the recursion
over the tree makes them, with one access to the hardware in each; so other tasks
can be looked at between any two.  `ClkTree` has both counts of a clock, voters (`hc`),
groups (`pdck`), `clk_set_parent` of a mux with users and the switching off of unused
clocks.  `PowerDomain` has the masters, the clock of a domain, the two power switches
that acknowledge late, or never for the domains in `PdTimeouts`.  The clocks of a domain
are held by the driver (`PdDriver`), not by the task whose enable took them: whoever makes
the last disable gives them back.  `Powered` is `ClkRuns` (what somebody holds runs, all
the way up, between any two accesses), `PdRuns` (the same of domains; those that timed out
are excused), `Counted` (between calls the counts are the references there are, nobody's
clock is on, and the driver has the clocks of the domains that are on, once) and
`ClkAsserts` with `PdAsserts`: no call that gives back what its task was given ends in the
assertion of a count that is 0, or of a domain that others live in.

* `MCPower`, parts "clock" and "power": three tasks on an oscillator, a PLL with a
  voter, a mux, a gate and a group; two tasks that share a domain which lives in another
  one, which one of them uses too, and a third that the boot loader leaves on.  One level of nesting and one mux between two parents
  are what every rule of the code is about.

### Eint (drivers/eint/v02/src/eint.c), Irq (drivers/irq/v3/irq_smp.c)

`Eint`: calls are lists of accesses, between which the handler may come.  Every function
that saves and restores a mask holds it in a flag of its own (`inner`, `outer`, `domain`),
and storing and restoring all pins goes through them one after the other.
`EintAssumption`: pins are numbers, registrations are records of Booleans.
`EintAsWanted`: no driver is called that does not wait for it, and between calls
every pin is as its driver wants it, over saving and restoring too.  A pin that the
handler leaves masked must not be changed in the meantime: `mask_restore` would unmask
it (`EintPause` keeps such calls to masked pins).  `MCPower`, part "pins": a level
and an edge.

`Irq`: `request`, `enable`, `disable`, `migrate` and the dispatch of two harts.  The enable
register, the register of each group and `intc_irq_bitmap` are words (`irqWord`); every
change of one is `IrqRead` and, any time later, `IrqWrite` of the whole word.  A critical
section keeps off the dispatch of its own hart only, `intc_migrate_irq` has none, and the
dispatch asks nobody, so changes by the two harts overlap in every way.  Any interrupt that
is enabled in a group of the hart may be the one taken.

Two things that the code does not keep off break the rule of one place, and the model has
both: a write of a word that the other hart has changed since it was read loses an
interrupt of that group or brings back one that has left it (`irqTorn` notes them), and
enabling an interrupt again that was sent to the other hart puts it into the group of its
request as well (`irqTwice`).  `IrqOnePlace` says what holds all the same: no interrupt is
ever in a group but that of its request and its counterpart; one that was enabled is lost
only by such a write, never by enabling, disabling or sending it; and it is in two groups,
or dispatched on both harts, only after one of the two.

* `MCPower`, part "irq": two interrupts of one group and one word, a task of hart 0 and the
  handlers of hart 1 that make five calls in all.  Two interrupts are what it takes for one
  to be torn by the change of the other, and five calls for two requests and three changes
  on top; the dispatches are not bounded.

### TimeSync (drivers/timer/v2/ostimer.c)

The AP writes a base into four words while tasks and an interrupt read them.  `TimeWhole`:
what a reader has read to its end is one base (part "time" of `MCExchange`; one task and
the interrupt, two counts, two bases).  `MCTime` (violation): with two tasks the base
that one has half read, stored in `cd`, is used by the other; and a timer that was
read before a newer base came makes the difference wrap.

### Aurisys, AurisysControl (drivers/audio/aurisys/framework)

`Aurisys` is one call through a chain: pools, formatters, units, the smoother with its
silence.  The data of one time is a number, a pool holds it once for each channel.
`AuSteady`: every call gets as much as it brings, and in the course of time silence
once and then everything in order, every frame with its own echo reference.  Part
"chain" of `MCExchange`: two libraries with units of their own behind a recording, two
ahead of a speaker, one that is never short, 30 times.  `AuAssumption` is what the
configurations have to give.  Its second part keeps a failing case away: when the first
call brings whole units of a library and a later one does not, `pad_flag` is set without
any silence (aurisys_lib_handler.c:1018) and the later call gets less than it asks for.

`AurisysControl` is who makes, uses, tells and frees libraries: controller, components,
managers of streams, handlers with their library instance (`arsi`), reserved memory,
and the commands of the AP.  A call is a list of steps, one for each lock it takes.
`AcServes`: nothing is used that was freed, a handler and its library log as the last
command said, reserved memory is with one library that runs.  A stream replaces
parameters without a lock (`acRaced` stops the model where a command applies them at
that moment); calls for a manager come from its own task; the controller ends when
nobody is in a call and no manager is left; `LOCK_ALOCK` always gets its lock, although it
gives up after a second in the code.  `AcAssumption` is what the setups of streams
have to give.  Part "control" of `MCStreams`: two streams
with a library in one scenario, and one with two libraries in two scenarios.

### ZeroCopy (drivers/zerocpy_ipc/v1), IpiV1 (drivers/mbox/v1), Gdma (drivers/dma/v3)

`ZeroCopy`: `ZcpyServes` is `ZcpyInOrder` (the rings hand on what was sent, in order),
`ZcpyWoken` (no message without an interrupt to come, no task asleep on its buffer; a
send that failed half way, zerocpy_ipc.c:129, is excused in `zcpyHalf`) and `ZcpyInUse`
(the table has each used buffer once).  Asked of the users: a handler is registered
before anything is sent to it, a buffer is marked once at a time, one core sends; and
the memory keeps the order of writes, since the code has no barrier.  Parts "send" (two
ids, one with a handler, rings of one and two) and "use" (two cores, two entries).

`IpiV1`: the answer lies in the slot of the message.  `V1Delivers` is that an answer
returned is to one's own message, and that a message whose bit is cleared was read or is
about to be.  A call that asks for more words than the pin has (`v1Long`) leaves its
answer to the next call and is excused; a message before the registration's semaphore
exists is an assertion (`v1Halted`).  Parts "ask" and "hear": four pins, three messages.

`Gdma`: `GdmaServes` is that a call told done is done, that a busy channel will be freed,
that channels have one owner, and that bytes land where they should across the blocks the
hardware can address.  Excused: tasks that have given up a wait, whose notification is
taken for the next transfer's (`gdmaLate`); strided transfers that are waited for, which
switch their interrupt off, wait 10000 ticks and keep the channel (`gdmaStuck`); the
result of the first half, which nobody looks at (`gdmaHalf`); a source that ends exactly
at its block.  Part "dma": two channels, blocks of four.

### RingBuf (audio_ringbuf.c), AudioPipe (audio_pipe.c)

`RbQueues`: between the pointers are the bytes written and not read, `datacount` says
how many, and the checks of the code stop at nothing.  Excused: the source of a copy,
which keeps its count (`rbStale`); readers by DMA and cache on a full buffer, which take
it for empty; everything after an overrun (`rbOver`) except the checks; a whole round
between two tellings of an index (`RbTold`).  The AP tells of a write before it makes the
next, and waits until the task has taken the index (`RbApWrites`, `rbSent`): two writes that
are told at once are not looked at.  Part "ring": one buffer with every call of
its own; "shared": one that the AP fills and one that is filled from another.  Length 3,
amounts 1 and 3.

`PipeServes`: every attached task has, in order and once, each unit since it came but
those its own buffer had no room for; the hardware runs while somebody is attached and
is closed with the pipe.  A look-up without `g_pipe_lock` against a close, and
`update_read_size` against the interrupt, stop the model (`pipeGone`); a failing open
leaves the hardware open (`pipeLeaked`), with a period of 0 even returning 0.  Part "pipe":
an owner and two users with buffers of one and two, two units.

## 4. Proofs

`IpiProofs`: `SendInductive` proves `SendInv`, a conjunction of six parts: types,
where a task can be in which call (`CallShape`), who holds the mutex
(`HoldsMutex`), an idle pin between test and trigger (`WindowIdle`), unsent
messages are new and held once (`UnsentFresh`), what is pending was posted and is
in one slot (`PendingPosted`).  `PendingIntact` alone is not inductive: that a
second writer cannot be in the window needs `HoldsMutex`, and for answers
`CallShape` with `ReplyAssumption`.  From it follow `PendingIntactHolds`,
`OneWriterHolds` and `ImplementsMailbox` (initial states map to initial states,
`TriggerIrq` to `Put`, `RemoteTake` to `Take`, every other step to a stutter).
`TypeCorrect` adds the receive side.  Assumed are the named ASSUMEs of `Ipi`.

The receive side has four invariants more, each proved from `TypeCorrect` and the ones
before it.  `RegInv` says which of callback, buffer and private data the holder of
`mutex_ipi_reg` has stored (`RegistrationWholeHolds`).  `PinInv` ties the interrupt bit, the
status word of the handler and what the remote still owes, and with it `IrqInv` says that
what a callback of interrupt context has seen and what is on its way to it are the
messages sent, in order (`IrqExactlyOnceHolds`).  `TaskInv` says the same of pins of task
context, where messages may merge but never change places, and that an unseen message has
a notification, a caller of `ipi_recv` past it, or the handler before it
(`NothingForgottenHolds`, `NeverBackwardsHolds`).  `AnswerInv` places each request that is
waited for, or its answer, at exactly one point of its way (`OnWay`); `AnswerIsMineHolds`
needs `Undisturbed` - no time outs, and no one else on an id that is asked - because with
time outs it is false, as `MCIpiLate` shows.

`TimerTaskProofs`, wake locks: `TypesAndTimers` proves the types together with "a timer whose
callback is due does not run" (`CallbackOneShot`: only the timer task starts
timers, and it is busy), and from it `ExpiryReleasesHolds`.  `HoldInductive` proves
`HoldInv` and `ArmedInv`.  The first says of a lock whose calls needed no excuse that
neither its timer, nor a command in the queue, ends before the stored expiry, and that
the expiry is not before the promise.  The second says what `TimedArmed` says of listed
locks of every stored expiry, because a call that is not longer relies on the timer it
stands for.
All of it is for any length of queue, width of tick and periods.

`AudioProofs`, locks: one inductive invariant (types, `Exclusive`, `SignalKept`, only
sleepers are recorded) for three theorems; `CountIsWaitersHolds` counts over the
finite set of tasks with the library's cardinality facts.

`AudioProofs`, pipes: `PipeInv` is the types and, until a task has used a
freed pipe, `PipeGood`: a task that works has the lock where the code takes it, the buffer
it works on is its own or one it holds under the lock, `PipeHas` ties what an attached task
is counted for to its buffer, and `PipeStream` says that what is in the buffer, before it
what was read and after it what is to come, is the recorded data in order.  Each action has
a lemma that says point by point what it changes (`Pipe...Does`); each part of the
invariant then follows from these.  `PipeAssumption` asks that sizes are numbers and that
nobody is called like the free lock.

`AudioProofs`, data of messages: `DmaWholeHolds` from `DmaInv`.  `DmaSends` says where the
lock, the kept index and the copied bytes of each sender are, `DmaMailed` that the data of
the message in a mailbox is in its region, `DmaQueued` that the messages of the task are in
the order of their data, the next one nearest.  All of it is measured by `DmaDist` from the
read index, which frees it of where the region wraps; each message's data ends before the
next one's begins (`DmaBefore`), also past messages that were dropped.  `DmaAssumption`:
sizes are positive, as the code refuses empty messages (audio_ipi_dma.c:641), and a region
is a multiple of its alignment.

`SwMixerProofs`: `Inv` is types; who holds which lock at which control point (`Holds`); what
Control has made of target and thread, which path is being freed and what the loops of the
thread may still meet (`Roles`); whoever sleeps is known to sleep or is signalled
(`Awake`); a path marked to be mixed has a whole mix in its buffer, in each loop from
choice to copy (`Thick`).  `FreedUnused`, `EnoughIsEnough` and `NotLeftAsleep` follow and
none is inductive alone: that a path is freed unused needs the locks of three tasks at
once.  `DoneInv` says where the units of a source's last write are - ring buffer,
thread or target - and how many; that a signalled writer's are all with the target
(`DoneIsWrittenHolds`) follows.  All four are under `Patient`: `idleTimeout` is off and the
thread ran before a target came.  Both are findings or named limits of section 3, where the
run says what happens without.

`AudioRingbufProofs`: everything is said in the distance of a byte from `read`,
`Cell(B, d)`.  A first layer of lemmas (`CopiedInCells`, `ForwardCells`,
`BackwardCells`, `CopiedAcrossCells`, `CompensatedCells`, `ResizedCells`) says what
each operation does to the bytes at each distance, through every case of
wrapping; a second (`AppendHolds`, `ForwardHolds`, ...) carries over
`Holds(B, h, t, k, T)`, the relation of one buffer to its tape; a third takes one
call each and shows that it keeps the invariant `Inv` (`RingInvariant`) and is a
step of `Fifo`.  `Inv` adds to the checked invariants that `Spare` bytes always stay
unused (`Shape`), without which neither the fill level nor `BytesInPlace` is
inductive, and that the marks are in order.  From it follow `TypeCorrect`,
`CountIsWaitingHolds`, `BytesInPlaceHolds` and `ImplementsFifo`, for any number of
buffers, any bytes, any sizes and sequences of calls.  Assumed is `RingAssumption`:
writes are not empty (the code returns at once for those) and `Spare` > 0.

The legacy rings are there too: `RbQueuesHolds` from `RbInv`.  `RbShares` says how far the
indices that the AP and the task hold of the shared buffer lag behind one another
(`RbDist`), and that what has been sent and not yet been told is the difference; `RbWell`
says of every buffer that was not overrun that count and indices agree and its bytes are
the recorded ones.  `RbAssumption`: no call is about more bytes than the buffer has, and
the AP is the only writer of its buffer.  Of buffers that the hardware has overrun only the range of
the pointers is proved, which is all the code checks.

`TimerTaskProofs`, logger: `LogWillMove` with what it rests on, the state of the update in the timer
task.  `LogInv` says that a byte of the SRAM ring is as old as it is far behind the writer,
whether it waits or not (`LogHeld`), and that what the AP has read and what waits in DRAM
come, in order, before what waits in SRAM (`LogInLine`); the ages make it free of where the
rings wrap.  `LogInOrderHolds` and the action property `LogKeepsHolds` follow.  `LogAssumption`: the rings have a place, and an alignment gap is less than half the
buffer, as it is less than a word.

`TransferProofs` holds the parts that hand data on.
* Time: `TimeInv` says what each of the four words a reader has taken belongs to, given
  the order in which the AP writes; equal versions at its two ends then make it one base
  (`TimeWholeHolds`).
* mbox v1: `V1Inv` follows a message from its slot to its answer, one caller a pin.
  `V1Assumption`: send and receive pins differ.
* DMA channels: `GdmaInv` says of each channel which task has it and at which step, and of
  each running transfer that its bytes land.  `GdmaStridesStay` is asked of the callers,
  since `mt_addr_check` does not look at strided transfers.
* SCMI: `ScmiInv` says of a request that is not answered which responder, feature record or
  buffered copy has it, and that whoever fills the slot of a channel answers what was asked
  there.  A feature's record has one place for a request, which is why `ScmiAssumption` lets
  a feature be asked through one channel.
* Messages between cores: `ZcpyServesHolds` from two invariants.  `ZcpyTableInv` is about
  the table of buffers in use: its entries, the marks of the calls that change it, and that
  a search that has found its buffer in use so far still has its entry before it.
  `ZcpyRingInv` is about the rings of messages: by places and distances rather than by `%`,
  a ring holds exactly the messages that are owed, one that is about to be counted is stored
  already, whoever takes one out has the first, an id has one owner, and every id with
  messages was announced.  `ZcpyAssumption`: sizes are positive, entries are numbered from 1.

`IrqProofs`: `IrqOnePlaceHolds` from `IrqInv`: what each runner is about (`Sane`: an enable
goes to the group of its request, a dispatch comes from a group of its hart); no group has,
and no runner has read from one (`SeenPlaces`), an interrupt of another; an enabled
interrupt that was not torn is in a group or on its way (`Kept`); and one that was neither
torn nor enabled elsewhere is in the group it is dispatched from until it is on its way, and
then in none (`Alone`).  It holds for any interrupts, groups and callers and any number of
calls.  `EintAsWantedHolds` needs `EintInv`, because `EintAsWanted` speaks
of the time between calls only: what is still to be served is in the domain and unmasked,
and each pin is plain (mask, domain and table as its driver asked), or is in the one call
at its k-th access, which says what is changed already and what the flags hold, or all pins
are kept in the store while the processor sleeps or wakes up.  It holds for any pins and
registrations, with the handler between any two accesses.

`AurisysProofs`: `AcServesHolds` from `AcInv`, for any finite set of streams, any lists of
libraries and any commands.  A task is a list of the steps that are left of its call, so
the invariant is about what is left.  For a stream: its steps are those of its stage and in
their order (`AcShape`), what is left says which handlers are there and which still have an
instance (`AcStands`), and every step that is left finds its handler and its manager
(`AcSafe`).  For the commands: steps on the handlers of one component come before the next
component and find their handlers (`AcControlFits`).  What keeps the one from the other is
`AcOneHasCtl`: at most one task is between taking and freeing the controller's lock, and
every call that frees handlers, and every command that has steps on them, is.  Without
`AcToSay` - what a command has still to say - a handler logs as its component says
(`AcTold`).  `AcAssumption`: a stream lists a library once, and no two libraries that may
run at once need the reserved memory of one direction, which the code asserts and does not
arrange (aurisys_lib_handler.c:2707).

`AuSteadyHolds` from `AuInv`, for any chains, units and sizes of calls that `AuAssumption`
admits.  A ring is described by what it holds (`AuHolds`): the times from a to b of a stream
that is late by a number of times.  `AuServed` says of a library that its pool holds less
than a unit, and its smoother as much as the silence put ahead at first, less what the pool
keeps; so the next call is never short (`AuServes`).  How late each library's stream is is fixed by its first call, and the output
of one is the input of the next (`AuFits`).

Only model-checked, and out of the prover's reach: every liveness property (`MutexReleased`,
`LatestHandled`, `Unstarved`, `WriteReturned`, `MixerEnds`, `ScmiAnswered`), for fairness and
ENABLED; `Powered`, which sums over sets of calls, for the induction that needs.
Type invariants, `PendingIntact`, `OneWriter` and `CountIsWaiting` are proved and have no run of their own.

## 5. Not modelled

`PROJECT.json` gives the reason for each component.  In short: register drivers
have their state in hardware that is not here; signal processing transforms the
data of one call; vendored and build files are not this system's logic.

Within the modelled parts, these are left out: record counters, monitor stamps and
trace information; the mapping of pins to addresses; `CFG_FREERTOS_SMP` of the wake
locks (there the interrupt variant changes the list outside the tasks' critical
section, wakelock.c:389); the place of `configASSERT(lock->xTimer)` after the creation;
a second target of the mixer with duplicated writes and the change of a host;
`sw_mixer_source_update_write_bytes`, which the code calls from the writing task
itself; the mailbox of mbox v3, which has no synchronous layer.

Seen while reading, outside every model: `scmi_protocol_register` ends with another
`ENTER` instead of `EXIT` of its critical section (scmi_handler.c:305); the mutexes of the
clocks and domains are made by their first user, without a lock (mtk_clk.c:62,
mtk_pd.c:88); `RingBuf_Bridge_update_readptr` subtracts `pBufBase` from an index, but has
no caller; `audio_pipe_close(NULL)` gives a lock back that it has not taken.

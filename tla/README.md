# PCBox: a TLA+ verification project

PCBox is an emulator of whole PCs: processors, chipsets, controllers, video,
sound and network cards, on a host's windows, disks and network. This directory
holds TLA+ modules that model the parts of it in which *control* is hard (time,
interrupts, and the hand-over of data between threads), TLC configurations that
check them on small instances, and proofs that TLAPS checks for all instances.

    tlc -workers 2 -config Timer.cfg MCTimer        # a run; see the table of runs
    tlapm TimerProofs.tla                           # the proofs of a module

`PROJECT.json` maps every definition to the lines it models, lists the runs, the
mutants (a plausible bug of the code for each property, which the run must
catch), the hazards, the findings and the theorems. Source paths below are
relative to the repository's `src/` directory.

## 1. The system

### Threads

| Thread | Runs | Shares |
|---|---|---|
| CPU thread (`main_thread_fn`, `pc_run`) | the CPU, every device, every timer callback | packet queues, `blit_data_t`, link state |
| blit thread, one per monitor | copies frames to the renderer | `blit_data_t`, image buffers |
| window thread (Qt) | draws images, handles the user | image buffers, link state, pause flags |
| network provider thread, one per card | moves packets to and from the host | packet queues, two events |
| Voodoo FIFO and render threads | command FIFO, triangles | ring buffers, events |
| CD audio and MIDI threads | sound | sample buffers |

Devices are sequential code on the CPU thread. What interleaves there is
control: the CPU spends uneven numbers of cycles, devices call timers,
interrupts and each other, and callbacks re-enter the API that is running them.

### Components

*State*, *operations* and what makes each *correct*. The full list, with the
parts that are not modelled, is in `PROJECT.json` under `components`.

| Component | State | Operations | Hard | Correct when |
|---|---|---|---|---|
| Event timers (`timer.c`, `timer.h`) | list of enabled timers, 32.32 timestamps, `timer_target` | enable, disable, advance, on/stop, process, new TSC | wrapping, callbacks that re-enter, long periods in pieces | callbacks run in order and on time, the CPU never misses a target |
| CPU cycle accounting (`386_dynarec.c`) | `tsc`, cycles of the running block | block end, `update_tsc`, RDTSC, WRMSR | the same cycles reach the counter along several paths | every cycle is counted once |
| Interrupt controllers (`pic.c`) | two 8259s, latches, line counts | `picint`, ports, acknowledge | derived state used later; two-step acknowledge; shared lines | interrupts are noticed, due when delivered, never lost |
| Network core and SLiRP (`network.c`, `net_slirp.c`) | four rings of buffers, two events | tx, timer poll, provider loop, close | two threads, full queues, lost wake-ups | packets in order, once, no buffer shared, close ends |
| Video blit (`video.c`, `qt_rendererstack.cpp`) | `blit_data_t`, events, image buffers | wait, blit, blit thread, window, close | three threads on manual-reset events and plain flags | no tearing, no lost request, no stuck thread |
| Interval timer, DMA, serial, keyboard, RTC, IDE, floppy | registers, FIFOs, timers | ports, callbacks | order of timer callback and port access | planned, see section 7 |
| PCI interrupt routing, device life cycle, pause | tables, flags | reset, pause | reset against running callbacks | planned |
| Voodoo threads (`vid_voodoo*.c`) | command ring, swap state, triangle ring, texture cache, events | register and frame buffer access, FIFO thread, retrace, render threads, close | three to six threads and two timers, late wake-ups, full rings, reference counts | what is read is finished, the status counts what is to come, textures outlive their triangles, no thread waits for ever |
| RIVA timers | a second timer list | - | host time | planned |
| CPU interpreters and recompilers, video cards, sound, chipsets, configuration, UI | large register files and tables | - | data, not control | out of a model checker's reach, or plain I/O |

### Interactions

- A block of instructions ends: `CpuCycles` adds its cycles to `tsc`; if
  `timer_target` is reached the CPU loop calls `timer_process()` (`Timer`).
- A callback (a device) raises an interrupt with `picint()`; before the next
  instruction the CPU asks `picinterrupt()` (`Pic`).
- A callback polls the packet queues (`Network`), or draws a line and asks for a
  blit (`VideoBlit`); both talk to other threads through events.
- A guest writes to a Voodoo (`VoodooFifo`): two timers of the CPU thread, the
  late wake-up and the retrace, drive the FIFO thread, which hands triangles to the
  render threads (`VoodooRender`).
- A guest's WRMSR on the counter reaches `timer_set_new_tsc()`, so both
  `CpuCycles` and `Timer` have it.

They are modelled apart, each with the calls of the others as
nondeterministic environment actions: devices may arm any timer in any callback,
raise any line at any time, and so on. Up to the environment assumptions named
with each module below, this allows every behaviour that a composition would have,
so a safety property of a part holds in the whole. The two halves of the Voodoo are
composed through an interface: `VoodooFifo` uses the steps of `VoodooTriangles`, and
`VoodooRender` is shown to implement them.

## 2. The modules

| Module | Models | Role |
|---|---|---|
| `TimerList` | the list of timers, less one | operator of `Timer` and `TimerQueue` |
| `TimerStamps` | timestamp arithmetic and comparison | operators of `Timer` |
| `Timer` | `timer.c`, `timer.h`, the CPU loop's target check, `onesec_timer`, `cpu_fast_off_advance` | component |
| `MCTimer` | | constants for TLC |
| `TimerQueue` | a queue ordered by deadline | abstract specification |
| `TimerLinks` | the assignments to `timer_head`, `next`, `prev`; hard reset | implements `TimerQueue` |
| `MCTimerLinks` | | symmetry for TLC |
| `CpuCycles` | `update_tsc`, block end, `opRDTSC`, `opWRMSR` on the counter | component |
| `Pic8259` | one controller as a record | operators of `Pic` |
| `Pic` | both controllers, devices, guest, CPU | component |
| `MCPic` | six machines | constants for TLC |
| `Network` | queues, polling timer, SLiRP's thread | component |
| `VideoBlit` | card, blit thread, window thread | component |
| `VoodooTriangles` | triangles that are submitted and drawn | abstract specification |
| `VoodooFifo` | command ring, FIFO thread, wake-up timer, swaps and retrace, flush, close | component, uses `VoodooTriangles` |
| `VoodooRender` | triangle ring, render threads, texture cache, close | component, implements `VoodooTriangles` |
| `TimerProofs`, `TimerLinksProofs`, `CpuCyclesProofs`, `PicProofs`, `NetworkProofs`, `VideoBlitProofs`, `VoodooFifoProofs`, `VoodooRenderProofs` | | theorems |

Operators marked *Seeded fault* are the mutants' bodies; no specification uses
them.

### Timer

State: `list` is the chain from `timer_head`; `ts`, `period`, `split` and
`inCallback` are the fields and flags of `pc_timer_t`; `tsc` and `target` the
globals. `pc` says whether the CPU runs, `timer_process()` is between two turns
of its loop, or a callback runs. `devices` is the machine's configuration: which of
the timers its devices use. `left` and `asked` are history, kept apart from the
timestamps so that the properties do not judge them by themselves: `left` is the
fraction units until the delays that were added up are over, `asked` the time until
what the device *asked for* is over, a long period as a whole and before any rounding.
A callback that starts its next period from the timestamp asks from there, as the code
does; so `asked` restarts with each call, and does not add up errors of earlier periods.

A long period is a double, in microseconds; here it is a number of parts of a
microsecond, `Grain` of them. `timer_advance_ex()` arms whole pieces by an integer
product (`MaxUsecStamp`), and the last one by `(uint64_t) (period * TIMER_USEC)`:
`UsecStamp` rounds the product to the nearest of `Doubles` and drops the fraction. That
a product is at most `Rounding` away from the double that holds it is
`PeriodAssumption`; with 53 bits of precision it is some 2^-53 of the product.
`period -= MAX_USEC` is exact in the code, too: the difference of two doubles of which
the smaller is a multiple of 64 and the larger below 2^59 needs no more bits than they.

Integer parts have `2 * Half` values (2^32 in the code), fractions `Frac` (2^32).
`MaxStep` bounds the cycles between two looks at the target, and `Window` is what
`timer.h` leaves for a delay: 0x7fffffff cycles less that overrun.

Actions: one per turn of the loop (`ProcessPop` with its three cases,
`CallbackReturn`, `OnesecReturn`, `ProcessEnd`), one per API function as devices
use it, `CpuStep`, `ProcessNow` (devices that call `timer_process()` outright)
and `timer_set_new_tsc`. A callback is any sequence of device actions between
`ProcessFire` and `CallbackReturn`. Device code keeps to the usage of the
repository: `timer_advance_u64()` in the timer's own callback, and a new long
period only when the last one is over. `cpu_fast_off_advance()`, which does not
keep to the latter, is an action of its own.

### TimerLinks and TimerQueue

`TimerLinks` has the pointers themselves. `Linked` and `Unlinked` give the three
arrays after the assignments of `timer_enable()` and `timer_disable()`;
`timer_close` clears what the code's loop really clears. Keys stand for
timestamps (their order is `Timer`'s concern). Timers survive a hard reset with
their stale links and flags until `timer_add()` sets them up again, as statically
allocated ones do. Under the mapping `queue <- Walk(head, next)` it implements
`TimerQueue`, whose `Insert` puts a timer in front of those that have its deadline.

### CpuCycles

`spent` is `cycles_old - cycles`. A wrapped 64-bit delta is subtracted from a
32-bit number, so both widths are parameters (`Wide`, `Half`). `ideal` is history:
the counter if every cycle were added when it is spent. The blocks in which a
guest writes the counter start the history afresh.

### Pic8259 and Pic

A controller is a record; registers with a bit per line are sets of lines, and a
vector is the line it stands for. `update_pending` and the functions that call it
are translated one by one, so that a missing update in the code is missing here.
`machine` picks a configuration: what hardware there is and which words its guest
writes. `picinterrupt` is a 286's and later acknowledge, one step;
`check_interrupts`, `pic_irq_ack` and `IrqAckSecond` are an 808x's, between which
devices run. `ready`, `acked`, `nest` and `strayed` are history. The count of a line is
an unsigned number of the code's and wraps (`Wrap`, 2^32).

Devices raise and lower their lines at any time. While an AT's master is initialised
its ICW3 is 0, and `picint_common()` then takes no line of the slave and leaves IRQ 2
where it is: a change that a level device makes in that time is noted in its
`irq_state`, but counted nowhere, or at another line. `strayed` collects the lines a
change of which was lost or came from elsewhere (`Stray`).

Environment assumption: a guest takes interrupts only once both controllers are
initialised and masked (except in `CarelessAT`) and not while it polls.

### Network

`data` gives each slot its buffer; every transfer is `network_swap_packet()`, a
permutation of buffers. One action per critical section. `tx_event` is the number
of bytes in the event's pipe, up to `PipeCap`; a set on a full pipe is lost,
harmlessly, as one byte is enough. `poll()` and what is done upon it are separate
steps: `seen` is what `poll()` reported, and may be stale. libslirp is external:
it may have a packet for the guest whenever a socket is ready, and may answer a
packet while it is being sent (`HostAnswer`).

### VideoBlit

One action per access to shared state: each test, wait, reset and set of an event
is a step. `thread_reset_event()` follows the waiter's loop, so it may wipe out an
event set in between. `Torn` marks a buffer that is being written. The window
thread handles posted images in order and frees each with the atomic flag of the
hardware renderer.

### VoodooTriangles, VoodooFifo and VoodooRender

`VoodooFifo`: `fifo` is the ring from `fifo_read_idx` to `fifo_write_idx`; an entry is
what the guest wrote (a triangle, a fill, a swap with or without synchronisation, a
pixel, a register). `cpu` and `thread` are the places of the CPU and of the FIFO
thread; each test, wait, reset and set of an event, each flag and each critical
section of `swap_mutex` is a step. Waits with a time limit of a millisecond may end
at any time; waits without one need their event. `uncounted` is `cmd_written -
cmd_read`, what the status register calls busy. Buffers are numbers, as
`voodoo_recalc()` computes offsets from them. A retrace counts when
`swap_interval` retraces have passed. The timers fire only while the CPU thread is
between two instructions, so not while it waits for the ring, and not after
`timer_close()`. Histories: `unswapped` (swaps the guest wrote that were not done),
`overtaken`, `twice` (how often a swap was taken off `swap_count` again after the retrace
had done so), and `target`, the buffer the triangles at hand go to.

`VoodooRender`: `client` is the FIFO thread in `voodoo_queue_triangle()`,
`voodoo_use_texture()`, `voodoo_tex_writel()` and the idle wait; `pc` the render
threads. A texture is a member of `Textures` with the number of times it was
written; a cache entry holds a copy `<<texture, version>>`. `owed` is history: for
every thread the textures of the triangles it has still to draw. The wait for an
event and its reset are one step here. The index into the ring runs on, as in the
code; slots are it modulo `PARAM_SIZE`. One TMU; the second has a cache of its own
with the same code.

The refinement maps `tris` to the number of triangles of the slowest thread.

## 3. The runs

Times are with two workers.

| Run | Config | States | Checks |
|---|---|---|---|
| `timer` | `Timer.cfg` | 189 000, 100 s | list, order, stamps up to rounding, target, on-time firing; `timer_process()` ends; RTC recurs |
| `timer_fast_off` | `TimerFastOff.cfg` | violation | comment at `timer.h:33` |
| `timer_links` | `TimerLinks.cfg` | 82 000, 45 s | pointers well linked, no `fatal()`, refinement of `TimerQueue` |
| `cycles` | `CpuCycles.cfg` | 4 000 | cycles counted once; RDTSC advances |
| `network` | `Network.cfg` | 158 000, 140 s | buffers, order, notifications, arrival, link, close |
| `pic` | `Pic.cfg` | 345 000, 100 s | due, noticed, kept, level counts, nesting, 808x acknowledges, on five machines |
| `pic_spurious` | `PicSpurious.cfg` | violation | comment at `pic.c:876` |
| `video` | `VideoBlit.cfg` | 43 000, 10 s | tearing, lost requests, order, waiting, close |
| `voodoo_fifo` | `VoodooFifo.cfg` | 270 000, 95 s | frame buffer quiet, drawing hidden, how far the status can be relied on, guest goes on, work done |
| `voodoo_close` | `VoodooClose.cfg` | violation | comment at `vid_voodoo_fifo.c:145` |
| `voodoo_render` | `VoodooRender.cfg` | 230 000, 65 s | textures kept, refinement of `VoodooTriangles`, waits end |
| `voodoo_threads` | `VoodooThreads.cfg` | violation | comment at `vid_voodoo_texture.c:283` |

### What they show

- **timer.** Two machines: one with a timer of the fixed-point interface and one of
  the long-period interface, one with a timer without callback and the fast-off timer,
  each beside the RTC's; armed, re-armed late, stopped and fired in every order.
  `QueueByDeadline` (the list changes only as `TimerQueue` does, ordered by true
  deadlines) and `StampWithinRounding` compare the wrapped timestamps with what was
  asked for: only the last piece of a period is off, by the rounding of one product and
  the fraction that its cast drops; `FiresOnTime` bounds lateness by the overrun and
  that rounding, for a split period as a whole; `CyclePeriodPositive` is what keeps
  `exec386()` from spinning; `HeadNeverNull` is why a dereference in the loop needs no
  test. The loop of `timer_process()` ends, the RTC timer fires for ever.
- **timer_links.** Four timers, three deadlines, hard resets at any time: a reset
  leaves stale links behind, and none is ever followed in the next session.
- **cycles.** All mixtures of updates in a block, with blocks in which the guest
  moves its counter forward, far, or back.
- **network.** More packets than a queue takes, refused packets,
  answers while sending, stale events, closing at any point.
- **pic.** `PendingNoticed` relates the cached `int_pending` to the
  registers; `DeliveredIsDue` relates what the CPU takes to the registers at that
  moment, and says when an 808x may take the spurious IRQ 7; `RequestKept` lists the only
  ways to lose a request. `LevelSound` says that the count of a shared line and its
  request follow the devices, unless one of them changed the line before the master knew
  of its slave: `strayed` is the whole extent of that damage.
- **video.** The hand-over with every interleaving of three threads.
- **voodoo_fifo.** When `voodoo_flush()` returns, everything written before is in the
  frame buffer (`FramebufferQuiet`); a swap that is done early, or late, or twice
  never leaves triangles on the visible buffer (`DrawnHidden`); `GuestGoesOn` shows
  that the two exceptions in `voodoo_wait_for_swap_complete()` (a flush, a full ring)
  are just those in which the CPU thread waits and no retrace can come;
  `PolledWorkDone` that the wake-up after a status read is what makes good a wake-up
  that `WriteKick` left out. `StatusCounts` says how far the guest can rely on the
  status register: `swap_count` is never too high, and too low by at most the swaps
  that were taken off twice (TLC reaches one and two of them); without the busy bits no
  command is left to be handed on or carried out. It does not say that nothing is being drawn: the busy
  bits leave out the render threads, so triangles may be submitted and not drawn. A guest
  that reads the frame buffer then still gets them, by `FramebufferQuiet`.
- **voodoo_render.** With one cache entry every change of texture must wait for both
  threads (`TextureKept`); `ImplementsTriangles` has the threads at different places
  of the ring; `WaitsEnd` has the wait for room, which has no time limit, and the
  wake-up that is only sent when a thread has little left.

### Findings

1. `pic_spurious`: the correction of `picinterrupt()` for a slave without a request
   promises IRQ 15, but does not mark the request as the slave's; the CPU gets the
   vector of the cascade line. It needs a guest that takes interrupts while it
   re-initialises a controller.
2. `voodoo_close`: a card that is closed while a swap waits for the retrace hangs: the
   wake-up of `voodoo_card_close()` (`vid_voodoo.c:1250`) does not end the loop in
   `voodoo_wait_for_swap_complete()`, which only makes way for a flush or a full ring,
   and the retrace timer is off since `timer_close()` (`86box.c:1307`).
3. `voodoo_threads`: `voodoo_use_texture()` looks at the counts of the first two render
   threads only (`vid_voodoo_texture.c:288`), so with four a texture is overwritten
   while the others draw with it. With one or two threads `TextureKept` holds.
4. `timer_fast_off`: `timer.h:33` says that a timer's period must be at most a second.
   `timer_on_auto()` keeps to it by arming longer periods in pieces, but
   `cpu_fast_off_advance()` does not: it disables its timer without `timer_stop()`, so
   what is left of the split period makes `timer_on()` continue from the last timestamp
   (`386_common.c:2187`), and every interrupt moves the timer another second ahead, in the
   end beyond the window. The chipset sets such periods (`intel_sio.c:267-281`).

Observations, not stated as runs:

- `timer_close()` clears a timer's `next` before it follows it (`timer.c:160`), so only
  the head's links are cleared, though its comment says all timers' are.
  `timer_links` has this loop, and shows that it does no harm to the next session.
- A poll of the master that finds nothing thaws it without an update (`pic.c:484`): an
  interrupt that came in between is noticed only at the next update. The machines
  of the `pic` run poll the slave only; with a poll of the master `PendingNoticed` fails.
- A command that the guest writes to a Voodoo while the FIFO thread is about to clear
  `voodoo_busy` wakes nobody (`vid_voodoo.c:456`); it is carried out after the guest's
  next command, status read or flush.
- With a full ring `voodoo_wait_for_swap_complete()` swaps even if the retrace just did
  (`vid_voodoo_fifo.c:144` tests `swap_pending` for a flush only), and takes one too
  many off `swap_count`: `swap_count` may be lower than the swaps to come, never higher.
  This is the exception in `StatusCounts`.
- A level-triggered device that changes its line while the guest is between ICW1 and ICW3
  of an AT's master (`pic.c:549`, `pic.c:684-713`) leaves a wrong count behind: an
  uncounted release keeps the line requested, an uncounted assertion makes the count wrap
  below zero at the release. No later initialisation of the controllers clears the counts.
  This is the exception in `LevelSound`.
- With three buffers a swap without synchronisation may overtake a pending one; the
  retrace then shows the older buffer, into which the guest may be drawing. This is
  the exception in `DrawnHidden`.
- `flush_texture_cache()` also knows of two threads only (`vid_voodoo_texture.c:579`),
  without harm: the copies in the cache are not touched.
- A guest that writes its counter in the middle of a block gains or loses cycles of
  that block, since the write looks like an interim update
  (`386_dynarec.c:917-919`). The next blocks are exact (`CountedOnce`).
- `pic_irq_ack()`'s `fatal()` (`pic.c:844`) can be reached on an 808x with two
  controllers when the guest initialises the slave while the CPU acknowledges.
- OCW1 on an 808x leaves the update to a timer that is armed for zero time, which
  `timer_on_auto()` takes as a stop: the update does not happen (`pic.c:536`).
- The spurious IRQ 7 of an 808x is put in service, so its handler must end it.
- A poll of the slave freezes the slave alone (`pic.c:568`), while the update looks
  at the master's flag only (`pic.c:230`).

### Bounds, and why they are enough

- *Timers.* Twelve values of the counter and two of the fraction: it wraps after a
  few steps, carries happen, and `Window` is short enough that deadlines lie on
  both sides of the wrap. Periods of 0, 6, 8 and 12 eighths of a microsecond with
  `MAX_USEC` 1 give a stop, a fraction of a microsecond, one exact piece and a split. Doubles
  have two significant bits, so that the product for 6 is rounded up and those for 8 and for
  the rest of 12 come out lower; no product in the run loses a fraction by the cast, the
  theorem has that. There is no bound on time or on calls: the state space is finite by
  itself. The theorems remove the bounds. `TimerFastOff.cfg` has the fast-off timer alone
  with a period of 12 eighths.
- *Links.* With four timers each of head, middle, end, neighbour and unrelated
  occurs; three keys for four timers give equal deadlines and every comparison.
- *Cycles.* A 32-value counter over 8-value integers: conversion loses bits, and
  `Writes` has a write of the same value, forward ones and backward ones.
- *Network.* Queues of three (two usable slots) with three packets out and two in
  wrap and fill. `PipeCap` 1 is the
  smallest pipe, in which a notification can be lost. `MaxTx` and `MaxRx` are the
  only bounds on history.
- *Pic.* Three lines of eight: one above, one below, and the cascade between them;
  level devices share one line, one of them through IRQ 2's redirection, and counts have
  three values, so that they hold both devices and wrap below zero.
- *Video.* The hardware renderer has two image buffers; three frames are enough
  to take both, skip one and reuse the first.
- *Voodoo FIFO.* A ring that is full with two entries and three writes: it fills,
  drains and fills again, and a second swap meets a pending first. Safety also
  holds with four writes (a million states). `MaxWrites` is the only bound on history.
- *Voodoo render threads.* A ring of two and three triangles: it fills and wraps, with
  the threads up to two triangles apart. One cache entry makes every miss meet an
  entry that may be in use; two entries (786 000 states, and 606 000 with three
  textures) and one thread were checked for `TextureKept` as well.

### Fairness, and why the code justifies it

- *Timer*: weak fairness of `Process` (callbacks return, the loop is plain code) and
  strong fairness of `Cpu`: a device that calls `timer_process()` outright does so
  from an instruction, which spends cycles, so the CPU cannot be kept from running.
- *Network*: weak fairness of the polling timer (every poll re-arms it), of the close
  and of the provider's thread (both are scheduled by the host); strong fairness of
  `CardTakes`: a card that is offered a packet again and again has room some time.
  None on the guest, the network or the user.
- *Video*: weak fairness of the card's waiting steps and of the blit thread. None
  on the window: the CPU thread must go on even if the window never answers. None
  on drawing or closing.

- *VoodooFifo*: weak fairness of each thread's steps (scheduled by the host), which
  also ends the waits with a time limit; strong fairness of the two timers, which
  fire again and again as long as the guest executes instructions. None on the
  guest; `PolledWorkDone` assumes a guest that reads the status, in its premise.
- *VoodooRender*: weak fairness of the FIFO thread's begun operations and of each
  render thread. The idle wait's end is stated only up to its condition on the
  triangles: the waiter wakes the threads again in each turn and they set their busy
  flags for a moment, so that it could miss the idle moment again and again; that it
  does not depends on real time (each turn waits up to a millisecond).

Deadlock is checked in every run but those of `VoodooFifo`, where a close may hang
(finding 2); `Gone` is the state after a close.

## 4. The proofs

Each theorem holds for every value of the constants that satisfies the named
assumptions of its module.

**Timer** (`TimerProofs`), from `StampAssumption`, `TimersAssumption`,
`DelayAssumption` (delays fit in `Window`, the limit that `timer.h` states),
`UnitAssumption`, `PeriodAssumption` (pieces fit in `Window`, products are rounded by at
most `Rounding`) and `ShortFastOff`, which stands in the theorems: fast-off periods are of
at most one piece. Without it finding 4 takes the timer out of the window, where none of
this holds. None of the properties is inductive. The invariant `Inv` says that

- every enabled timer is within `-MaxStep .. Reach` of the counter, and not overdue
  while the CPU runs (`InWindow`): only then is the wrapped order an order
  (`LessThanInWindow`), and the list can stay sorted (`SortedList`);
- while the CPU runs the target is neither overdue nor later than the head
  (`TargetAhead`), which keeps the next step within the window;
- `in_callback` belongs to the running callback, and its timer's timestamp has just
  been reached (`CallbackShape`), so that advancing it stays within the window;
- the RTC timer is in the list or its callback is about to put it there
  (`OnesecResident`): the list is never empty in the loop;
- a period is left exactly while a timer is split and enabled (`SplitShape`), and
  a timestamp stands for the delays that were added up exactly (`ExactStamps`), which
  differ from what was asked for by the last piece's rounding only (`Rounded`).

`EnableStep` and `DropStep` carry the list through an insertion and a removal;
`ArmStep` and `OnStep` lift them to periods; one lemma per group of actions follows.
From `Inv`: `TimerTypeCorrect`, `TimerHeadNeverNull`, `TimerTargetNotLate`,
`TimerCyclePeriodPositive`, `TimerStampWithinRounding`, `TimerSorted`, and the action
properties `TimerFiresOnTime` and `TimerNoDeadlineDropped`. `TimerIsQueue` is what joins
`Timer` to `TimerQueue`, which the pointers of `TimerLinks` implement: every step inserts
one timer by its true deadline, removes one, or brings all deadlines nearer alike. Within
the window the comparison of two wrapped timestamps is the comparison of deadlines, integer
part before fraction (`UnitsOrder`), so `timer_enable()` finds the queue's place
(`EnableInserts`); the head of a list without repetitions is the one that a pop removes
(`QueueStep`). The lemmas at the head of
the module are about inserting into and removing from a sequence.

**TimerLinks** (`TimerLinksProofs`), from `LinksAssumption`. The list is not a variable
here: it is the walk from `head` along the `next` links, at most as many steps as there
are timers. The invariant `Linkage` says that the walk is a chain (each timer's `prev` is
the one before it, the first has none and the last has no `next`), that in a session it
holds exactly the enabled timers that were added, that every other one of those has been
unlinked (`Alone`), and that out of a session it is empty, while timers may keep links
from an earlier session. `WalkOfChain`: the walk along a chain of distinct timers is that
chain, whatever other timers' links say; the recursion of the walk is resolved by least
counterexample (`LeastNatural`). `UnlinkedChain` and `LinkedChain` say that the pointer
operations turn a chain into the chain without, or with, the timer, and `InsertedAt` that
the search for its place is the queue's `Insert`. One lemma per action then gives the
invariant and the step of the queue together (`LinksStep`). So `LinksInvariant`,
`LinksWellLinked` and the refinement `LinksImplementQueue`, for any number of timers,
deadlines and hard resets.

**CpuCycles** (`CpuCyclesProofs`), from `CyclesAssumption` (a block spends fewer
cycles than an `int32_t` holds, and the wide range is a multiple of the narrow one).
Invariant: unless the guest wrote the counter in this block, the counter has moved
by no more than the block spent, and the ideal counter is the block's base plus
what it spent. From it the conversion to 32 bits is harmless (`SmallInt32`) and an
update brings the counter to exactly the ideal (`UpdateExact`). Then
`CyclesCountedOnce`, `CyclesNeverAhead`, `CyclesRdtscAdvances`.

**Pic** (`PicProofs`), from `LinesAssumption`, `WrapAssumption` and `PicAssumption`: for every number of
lines, every machine and whatever devices do. The records are compared by groups of
fields (`Rest`, `SameRegisters`, `SameRequest`); `Updated` is what `update_pending()`
promises: requests kept, except on the master's line that the slave's ICW3 names, and
`int_pending` and the line recomputed on controllers whose request is then due
(`Sound`). One lemma per action (`...Does`) says which controllers it hands to the
update; the invariants are about these relations alone, and only the lemmas know the
records.

- `Acking` (who is where while an 808x acknowledges, and that the frozen request is the
  one in service) gives `PicTypeCorrect`, `PicVectorIsServiced` and `PicRequestKept`,
  for all machines.
- `PicDeliveredIsDue` rests on `Judged`: unless frozen, the master's request is due, the
  slave's too while the master has one, and without a request the line is the spurious
  one. Hypotheses: ICW1 tells whether there is a slave (`Initialised`), and an 808x guest
  leaves lines unmasked (`Unmasked808x`), as OCW1 does not update there.
- `PicPendingNoticed` rests on `Alert`: on a 286 or later the master is never frozen, an
  initialised slave knows its line (`ToldItsLine`), and pending flags agree with the
  registers. Hypotheses: `Initialised` and `MasterNotPolled`, for the reason given in
  the observations above.
- `PicLevelSound` rests on `Wired`: a line's count is the number of devices that assert
  it, and its request follows that count, unless it has strayed. A change that goes to
  another line, or to none, makes both lines stray (`LevelStrays`); the number of devices
  is below `Wrap` (`Fits`), so no other count wraps. Hypothesis: `EdgesApart` (devices share lines
  only on machines with a slave; level-triggered lines are not the slave's, line 0 or an
  edge device's; `pic.c:124-127` masks these bits of ELCR).
- `PicInnermostFirst` rests on `Stacked`: a controller's request is of a line before all
  lines in service, and the order in which the lines in service were entered is exactly
  the order of their ranks. A rotation keeps that order
  only if the line it makes the last was the first. Hypotheses: `Initialised`,
  `MasterNotPolled` and `FullyNested` (guests that rotate end the first line in service
  and do not set the special mask, which makes a non-specific EOI end another one). The
  last is needed: with it dropped, TLC finds a masked line that stays in service before
  the one ended and falls behind lines that it interrupted.

All machines of the runs satisfy these hypotheses.

**Network** (`NetworkProofs`), from `NetworkAssumption`. Every transfer pairs two
runs of distinct slots (`PairAlone`, `PairBatch`, `PairRuns`), a pairing is
injective (`PartnersInjective`), so a swap keeps buffers distinct
(`SwapKeepsBuffers`); the invariant adds the ranges of the indices that name slots.
`NetworkBuffersDistinct` follows for any queue length.

`NetworkNotifiedOfPackets`: `Notified` adds that a notification `poll()` saw is still
pending when the thread acts on it, as only the provider's thread takes notifications
away, and that `TX_HOST`'s indices move only in `Transmit` and `HostPop`.

`NetworkPacketsInOrder`: `Packets(q)` pairs the slots between the indices with what
they hold, so that a queue's contents are a function of its slots. `Marked` says that
those slots hold packets; `Stored` and `Waits` what is in a queue, `Loaded` and
`Batched` what is in the vector between two queues, `Offered` what the provider still
offers: `OutInOrder` and `RxInOrder` say that, read from the card to the pipe and from
the provider to the card, these give the packets in the order they were numbered. One
lemma per queue operation says how it changes the contents (`StoredPut`, `StoredGet`,
`LoadedPopped`, `StoredMoved`), and `KeptBut(N)` what each action leaves alone. It holds
for any `QueueLen`, `MaxTx`, `MaxRx` and `PipeCap`.

`NetworkTypeCorrect` needs `Notified` (a notification is taken only where there is one)
and that the receive loop is in a turn below `QueueLen`.

`NetworkStopNotLost` is the safety half of `CloseEnds`: what `poll()` saw of the stop event
is still true when the thread acts on it, also after the packets it takes in between
(`Stopping`), so `netcard_close()` finds the event set, or the thread ended.

**VideoBlit** (`VideoBlitProofs`), from `BlitAssumption`. The invariant `IInv` has
the protocol of the flags (`Handshake`: who is where while `busy`, `buffer_in_use` and
the wake-up are set), who owns which image (`Images`), that the target holds a whole
frame while it may be copied (`Whole`), and that frames grow along the path from
the target through the posted images to the window (`Bounded`, `InOrder`). From it:
`VideoTargetStable`, `VideoRequestNoticed`, `VideoImageStable`, `VideoShownInOrder`,
for any number of buffers and frames. `VideoNoWakeUpLost`, the safety half of
`CardGoesOn` and `CloseEnds`, adds that the target buffer is in use only while its blit is
being asked for, noticed or under way (`Told`).

**VoodooFifo** (`VoodooFifoProofs`), from `FifoAssumption`. `FramebufferQuiet` is not
inductive. `Inv` adds that the entry that is carried out stays in the ring
(`HeadStays`), that a pixel which follows a pixel finds the render threads as idle as
the first one did, though only the first one waits (`DrawsAlone`), and that the ring
`voodoo_flush()` found empty stays empty, as only the waiting thread fills it
(`StaysFlushed`). `FifoFramebufferQuiet` follows for rings of any size and any number
of writes.

`FifoStatusCounts` rests on `Counters`: the commands written and not yet counted are the
ones in the ring less a head that was counted already; the swaps announced and not yet
handed over are the swaps in the ring less a head that was handed over, and the pending
one; `swap_count` is at most those, and at least those less `twice`: every step takes one
off both or neither, but for the swap that is done again. `FifoDrawnHidden` rests on `Shown`: how the buffer
that is shown, the one that is drawn into and the one of the pending swap differ, with
two and with three buffers, while no swap has overtaken a pending one.

`FifoNoWakeUpLost` is the safety half of `GuestGoesOn` and `PolledWorkDone`. The FIFO thread
resets its event only after it has stopped sleeping, and looks at `swap_pending` again
before it sleeps again, so a retrace either finds the swap still waiting for it or wakes the
thread after it took the swap. The thread sleeps for work only with `voodoo_busy` clear,
and `flush` is set exactly while `voodoo_flush()` waits (`FlagsTrue`): a command or a status
read arms the timer, a flush ends the wait for a retrace. Closing wakes the thread after
telling it to end; that the thread may instead be waiting for a retrace that cannot come
any more is finding 2.

**VoodooRender** (`VoodooRenderProofs`), from `RenderAssumption`. For the refinement,
`Inv` says that no thread is ahead of the ring (`Behind`) and that the room which was
found is still there when the triangle is stored, even after a wait for a texture
(`RoomStays`). One of at most four threads is the last (`MaxIsLast`), and `Left` is what
it has left: a store gives it one more, an advance takes one or none, nothing else
changes it. So `RenderImplementsTriangles`: `VoodooFifo` may rely on
`VoodooTriangles`.

For `TextureKept`, `TexInv` adds that `refcount[c] - refcount_r[c][r]` is the number of
triangles with entry `c` that thread `r` has yet to draw, and the one that is about to
be stored (`Counted`); that slots hold what is owed (`Kept`); that an entry with a base
is a copy of that texture as it is now (`Cached`); and what the FIFO thread has found
out about the texture at hand (`Wanted`). An entry whose counts agree for every thread
is then in no slot that is yet to be drawn (`UnusedFree`), and a store does not reach
such a slot, as numbers less than the ring's size apart have different slots
(`SlotsApart`). `RenderTextureKept` has the hypothesis `render_threads # 4`: only then
does `Unused`, which looks at two threads, look at all of them (finding 3).

`RenderNoWakeUpLost` is the safety half of `WaitsEnd`, for any number of threads.
`WakeInv` says that a thread which is at, or on its way to, its sleep with triangles in
its ring has been woken, or is about to be for the first of them (`Noticed`: only then is
its ring as short as `WakeBelow` asks); so a thread whose ring is full is running, and
the FIFO thread may wait for it to tell that there is room, though it reset the event
itself (`RoomTold`). A thread that is told to end is woken after it was told (`EndTold`),
and the threads before `at` have ended (`Places`). What is left to fairness is that
threads which can run do.

**Only model-checked.** Liveness (`CpuRunsAgain`, `OnesecRecurs`, `PacketsArrive`,
`LinkSettles`, `CardGoesOn`, `GuestGoesOn`, `PolledWorkDone`, `WaitsEnd`, the
`CloseEnds`), which needs fairness and ENABLED, is out of the prover's reach; of some of
them the safety half, that no wake-up is lost, is proved (`RenderNoWakeUpLost`,
`FifoNoWakeUpLost`, `VideoNoWakeUpLost`, `NetworkStopNotLost`).
Every safety property of the passing runs is a theorem, some of them under the
hypotheses named above.

## 5. Hazards

`PROJECT.json` lists the hazards at their lines, with the properties that would
catch each. Those no property covers yet, listed there or not, and why:

- libslirp's timers are armed from the provider's thread (`net_slirp.c:154`), while
  the CPU thread works on the same unlocked list, and their callbacks may share
  `slirp->pkt` (`net_slirp.c:196`): needs libslirp's timers in a composed module;
- the software renderer frees the other image than the one it shows
  (`qt_softwarerenderer.cpp:68`), and switching renderers destroys images under the
  blit thread (`qt_rendererstack.cpp:298`): the model has the hardware renderer only;
- a request without a blit function leaves `buffer_in_use` set (`video.c:453`): depends
  on the order in which front ends close;
- OCW1 on an 808x (`pic.c:536`) and a poll of the master (`pic.c:484`): the model has
  the behaviour, observations above;
- an unsynchronised swap that overtakes a pending one (`vid_voodoo_reg.c:150`): the
  exception in `DrawnHidden`, an observation above;
- deferred packets that would change places between libslirp and the RX queue
  (`net_slirp.c:199`): the history of what was received begins at the RX queue;
- positions that wrap in `utils/fifo.c:58`: not modelled yet.

## 6. What is not modelled

Instruction semantics, drawing, sound synthesis, register files of chipsets and
cards, image formats, configuration and user interfaces: data, tables or I/O with
little control. Within the modelled parts: 8080 mode, SMI, ACPI status, VIA shadow
reads and the PCI filter of the controllers; providers other than SLiRP and the
Windows form of its loop; other renderers and front ends, screenshots; SLI, Banshee
and Voodoo 3, the CMDFIFO and the init registers of the Voodoo, and drawing into
the front buffer. Memory order is sequentially consistent: the plain flags of the
blit path and the Voodoo's flags (its indices and counts are atomic) are taken to be
read and written in program order, as the calls around them (which lock) make them.

## 7. Plan

Done, in this order: `Timer`, `TimerLinks`/`TimerQueue`, `CpuCycles`,
`Network`, `Pic`, `VideoBlit`, `VoodooFifo`/`VoodooTriangles`/`VoodooRender` and their
proofs.

Next, in order of importance:

1. The pause and reset handshake (`startblit`, `endblit`), renderer switching and the
   software renderer's images, on top of `VideoBlit`.
2. `Fifo` and the 16550 on it: timeouts and interrupt priorities.
3. The interval timer and DMA as devices on `Timer` and `Pic`; then IDE channels
   and the keyboard controller.
4. RIVA's host-time timers, and libslirp's timers on the provider's thread, composed
   with `Timer`.

# A verification of djthorpe/objc in TLA+

The repository is an Objective-C runtime with a small Foundation, an application
run loop, drivers for the Raspberry Pi Pico and the systems code under them. It
builds for Linux, macOS and the Pico. This directory holds TLA+ modules of it,
TLC configurations that check them on small instances, and proofs that TLAPS checks
for every instance. Paths below are relative to the root of the repository; line
numbers belong to the commit the modules were written from.

1. [Inventory](#1-inventory): the parts of the system and what is hard about each
2. [Plan](#2-plan)
3. [The modules and the code](#3-the-modules-and-the-code)
4. [What the runs show](#4-what-the-runs-show), with bounds and fairness
5. [What is proved](#5-what-is-proved)
6. [Disagreements between the code and what is said of it](#6-disagreements)
7. [What is not modelled](#7-what-is-not-modelled)

## 1. Inventory

The layers, from below: `runtime-sys` (threads, mutexes, queues, timers, formatting,
dates, of three systems) and `runtime-hw`, `runtime-net`, `runtime-fs`, `runtime-pix`,
`drivers` (devices); `runtime-gcc` (message dispatch) and `malloc`; `Foundation` over both;
`Application` and `Network`, which turn callbacks of the lower layers into events and
delegate calls; `examples` and `tests`, which are the callers.

Two things are shared by everything: the event queue, into which interrupts, timer threads
and signal handlers push and from which one loop pops, and the retain counts of objects.
Elsewhere components meet through callbacks: a timer's thread or an interrupt runs between any
two steps of a call (LED, PWM, infrared, timers, signals), or a poll calls back into the
application, which calls the driver again (wifi, MQTT, NTP, watchdog, power).

| component | state | operations | what is hard, what must hold |
|---|---|---|---|
| Event queue, `runtime-sys/all/event.c` over `pthreads` or `pico` | ring, count, `shutdown`, mutex, condition | push (overwrites the oldest), try_push, pop, try_pop, timed_pop, peek, lock, unlock, shutdown, finalize | no lost wake-up, FIFO, only a push on a full ring drops, shutdown releases everybody, nobody inside when destroyed |
| Waitgroup, `pthreads/waitgroup.c`, `pico/waitgroup.c` | counter, mutex, condition; or two unprotected ints and a semaphore | add, done, finalize | the restore is a second critical section; increments are lost; finalize must outlast the work |
| Hash tables, `all/hashtable.c`, `NXMap+hash.c` | chains of open-addressing tables with tombstones | put, get, delete, iterate, grow | reuse of tombstones, growth, iteration during change |
| Run loop and timers, `Application/*.m`, `*/timer.c` | queue, flags, poll timers, delegates | run, terminate, callbacks, signals, timers' start, fire, stop | events with one owner, all handled, a loop that ends; signals at any moment; timers that outlive what they call |
| Threads and console, `*/thread.c`, `printf.c`, `panicf.c` | detached threads, core 1, the mutex of a line | create, reset, print, panic, exit | a core reset or a panic in the middle of a line |
| Zones, `NXZone.m`, `NXZone+arena.c` | arenas, lists of blocks | alloc, free, grow, dealloc | blocks aligned, inside, disjoint |
| Objects, `NXObject.m`, `NXAutoreleasePool.m`, `NXArray.m`, `NXMap.m` | retain counts, pools, collections | retain, release, autorelease, drain, insert, remove, dealloc | a count is the number of references at every step |
| Objective-C runtime, `runtime-gcc/*.c` | tables of classes, categories, methods, protocols | register, resolve, look up, `+initialize`, conform | lazy loading, order of `+initialize`, collisions |
| Values, `NXString`, `NXData`, `NXDate`, `NXNumber`, `NXNull`, JSON, `printf.c` | borrowed and owned memory, cached components, shared instances | append, trim, format, set, add, compare, convert | no overrun, values that survive every sequence and width |
| Wifi, MQTT, NTP, `runtime-hw/pico/wifi.c`, `runtime-net/pico`, `Network/*.m` | busy flags, link status, client, strings, requests | scan, connect, publish, disconnect, poll, finalize | flags cleared by different events, calls from inside callbacks, late answers |
| Devices of the chip, `runtime-hw/pico` | pins, slices, PIO machines, watchdog, ADC FIFO | configure, start, stop, read, poll, finalize | interrupts between the steps, shared callbacks and lines, wrap-arounds |
| Devices around it, `drivers`, `runtime-hw/pico/spi.c`, `i2c.c` | panel, window, registers, chip select | init, set, update, transfer | any transfer may fail and leave the device half set |
| File system, `runtime-fs/littlefs` | volume, image, handles, iterators | init, open, read, write, seek, remove, move, iterate, finalize | failures half-way, a crash before the sync |
| Pixels, `runtime-pix` | frames, SDL window | clear, rectangle, run | strides, wrap-around, resources made one by one |

`PROJECT.json` lists the components file by file with the modules that model them, and
the hazards, each at the line where it bites and with the properties that are about it.

## 2. Plan

The order followed what the rest of the system stands on; every step is done as far as section 7 does
not say otherwise.

1. The event queue, its promise `BoundedEvents` and its proofs.
2. The waitgroups, one promise and two implementations, with proofs for the POSIX one.
3. The queue over the other primitives, and the Pico's composition `Pico`.
4. The hash table as operators, as a state machine and as a map.
5. The run loop over the promise of the queue, with its proofs.
6. Memory: the arena allocator with its proofs, objects with their counts, the chain of a map.
7. The Objective-C runtime: dispatch, and its tables.
8. The network clients under one thread, composed with the programs that use them.
9. The devices, composed as `Board`; threads, the console and timers beside them.
10. Values and their texts, and the main function around everything, composed as `Foundation`.

11. Proofs about the Pico's primitives, the undisciplined waitgroup and the devices of `Board`.
12. Proofs about the callbacks of `Network`, the retain counts of `Objects`, the tables of `Chain` and the signals of `Launch`.
13. Proofs about `HashTable`: its invariant and the map it implements.
14. Proofs about `Messages`: dispatch for any hierarchy of classes, and the tables of methods and protocols.
15. Proofs about `Strings` and `Printf`: the memory of texts, and numbers that read back from formatted text.
16. Proofs about `Values`: dates that keep their instant, and numbers that convert and compare exactly.

## 3. The modules and the code

`MCBoard`, `MCFoundation` and `MCHashTable` only define the constants that a .cfg cannot write (rectangles,
sequences, hash functions, the symmetry). Each definition has its lines in `PROJECT.json`. In general: a critical section, or a call
that no interrupt and no other thread can observe half-way, is one action; where somebody
can get in between, the call is a record of where it is (`pc`, `job.at`, `io.pc`, `step`)
and each step is an action. Failures the code handles (allocation, a transfer, a system call)
are disjuncts. History variables are marked so in their declaration.

### EventQueue (and BoundedEvents)

The variables are the fields of `sys_event_queue_t`; `waiting` is the wait set of the
condition; `owner` the thread that holds the mutex *between* calls, that is after
`sys_event_queue_lock`; `pc` says in which call a thread is, or behind which wait. A
critical section is one action, because every field is read and written under the
mutex only; `Locked` is `sys_mutex_lock`. A wait splits a call in two: `Block` releases
the mutex and joins `waiting`, a wake-up (`Broadcast`, `Expire`, `WakeSpuriously`)
removes the thread from it, and the second half runs when the mutex is free. `pop` waits
in a loop, `timed_pop` with a time-out in an `if`, and the actions `Pop` and `TimedPop`
differ in just that. `finalize` is two actions, because only its shutdown takes the
mutex: `FinalizeShutdown` and `FinalizeDestroy`. What a thread does that is still inside
when the queue is destroyed is undefined in the code and arbitrary in `RunInDestroyed`.

Constants say who plays which part: `Producers`, `Consumers`, `Inspectors`, `Closers`,
`Owners` may overlap. `Joined` says whether the owner joins the other threads before it
calls finalize, the contract of the header (`event.h:96-97`).

`BoundedEvents` is the promise: a sequence, a closed flag, the call each thread is in and
the outcome it gets. `Implements` maps `Contents`, the slots from `tail` on, to the
sequence, and a blocked or woken thread to one that is still in its call.

### EventQueuePico, WaitgroupPico, Pico

`EventQueuePico` has the same calls over `pico/mutex.c` and `pico/cond.c`. The ring is the
sequence that `EventQueue` shows it to be. Taking the mutex is a step of its own (`Lock`)
because an interrupt handler may run inside the critical section; while it does, the threads
of its core stand still (`Runs`). A wait counts itself in `waiters`, blocks on the semaphore,
takes a permit or times out, and uncounts itself under `waiters_lock` before it takes
the mutex again: between the last two, broadcasts still count it and release a permit
that nobody takes. It implements the same `BoundedEvents`.

`WaitgroupPico` splits the unprotected `done_count++` into its load (`DoneCheck`) and its
store (`DoneStore`); the permits of the semaphore are what counts. `Pico` composes the two:
each behaviour is about one of them, as they share no state.

### Waitgroup (and PendingWork)

`Waitgroup` has the two critical sections of an add or a done that fails: `Add`/`Done`
and `Restore`, with the old value in between. The int wraps at `INT_MAX`. `acked` counts
what the successful calls say. A behaviour is `disciplined` or not: if so, workers are started
for announced work (`Start`) and call done once per item, and only the owner or a worker with
an item in hand adds, as the callers in `src/tests/sys/sys_11` and
`src/examples/runtime/multicore` do; if not, the `Careless` call as they like.
Both waitgroups implement `PendingWork`: announced work is pending until it is reported,
and the group ends only with nothing pending.

### HashTable (and KeyedStore), Chain

The first part of `HashTable` holds the functions of `hashtable.c` as operators on a chain of
tables. A table is a function from slots to entries (hash, key, value, deleted flag). The
linear probe is the sequence of slots `Probe(table, k, i)`; `Stops` is where it may end, and
`GetInner` and `FindSlot` are defined by the first of those. `KeyEquals` compares the
strings two key pointers point to, as `_nxmap_keyequals` does. The second part is a client
that puts, deletes by key and by value, and walks the chain with an iterator while it
changes. `KeyedStore` is a map from strings to values with a count.

`Chain` is the other table of the repository, `NXMap+hash.c`: tables of one size, linked, with
keys compared by their hashes. `holds` is what the calls said; `twice` records that a put
after a deletion gave a key a second entry, the same flaw as in `hashtable_duplicate`.

### RunLoop

`main` is where the main thread is in `run` and around it: starting the poll timers,
at the top of the loop, in `applicationDidFinishLaunching`, in front of a pop, in the switch
on an event, in the handler, returned, and after the release of the application. A callback
runs in one of `Contexts`, in steps between which everybody else may run: the timer's
expiry, the look at its id (`EnterCallback`), the second look of `_timer_callback`, the
allocation of the event, the push or the free, and the invalidation of a one-shot timer.
The four callbacks of `Application.m` differ in the type they store and share `Allocate` and
`TryPush`. `heap` says for each block who sent the event in it, so ownership is a statement
about where a block is; malloc fails when no block is free. Code of the application runs
inside the loop's handlers (`InApp`): it sets and clears delegates, fires, invalidates
and releases timers and terminates, in any order; `SetDelegate` and `StoreDelegate` are two
steps since `@synchronized` takes no lock. `Signal` closes the queue at any moment, or fails to:
the shutdown is skipped when the signal interrupts the thread that holds the queue's mutex.
What a callback reads of a deallocated timer is undefined and arbitrary (`Reads`).
The queue is a sequence and a flag, which is what `EventQueue` is proved to implement.

### MainThread, Wifi, Mqtt, Network

On the Pico lwIP and the CYW43 driver run inside `hw_poll` and `net_poll`, so one stack of
callbacks and blocking calls (`MainThread`) says whose code runs. Application code may run in
`main` or in the callback on top, and call the clients again from there.

`Wifi` has the requests (`Scan`, `Connect`, `Disconnect`), which set a busy flag, and the poll
that compares the driver's link status with the one it saw last and clears the flag of the
request it takes to be over (`LinkUp`, `LinkFails`, `LinkDown`, `EndScan`), each followed by the
callback to `NXWireless` and its delegate. `Mqtt` has the strings of a server, the name look-up,
the connection and the publish that polls in a loop until its own callback has written a result
into its frame (`requests` are the frames lwIP has pointers to). `Network` adds the NTP client,
which starts and stops the SNTP client with the link, and composes them with programs: which calls
`wifiscan`, `wificonnect`, `ntp` and `mqtt` of `src/examples/runtime` make, and where.

### The devices: Pins, Pwm, Power, Infrared, Bus, Epaper, Displays, Volume

* `Pins`: function, direction, pull and interrupt of each pin; the SDK's one callback (`handler`), which each mode that is
  no input takes away from all pins (`silenced` remembers from which); the shared GPIO objects, of which a new one replaces the last.
* `Pwm`: a slice whose wrap interrupt ramps the duty and may come between any two steps of stop, `hw_pwm_set_config` and `finalize`
  (`step`): the unit's `wrap` and the `top` of the slice are different things, and so are `enabled` and `running`. The divider
  register holds whole `Fractions` of a number, rounded as the SDK is built. Its second part is the LED: a call cancels the timer, shows, and starts the timer anew (`job.at`);
  the timer's interrupt (`Tick`) runs between any two of the steps.
* `Power`: the watchdog and the power monitor, both polled. Time is a clock of ticks; a poll may come
  late by any amount (`quiet` is how long ago the last one was), and the hardware resets the board at 0. Its second part is the converter: single readings
  and the battery gauge share its FIFO, and it runs beside the thread.
* `Infrared`: claiming a machine and a line, marking the context, and the handler that drains all marked contexts.
* `Bus`: register reads and writes over SPI (chip select) and I2C (a held bus), each part of which may fail; then
  `bme280.c`, whose calls set the shared address first and wait for a measurement.
* `Epaper`: a call is a script of commands, each of which may fail; the panel's memory, its partial
  mode and its refresh, which goes on for seconds after the call. Areas are in pixels, as the driver takes them; `Window` is what the
  controller makes of one, in bytes of `PixelsPerByte` pixels, and `Column` the bytes the driver sends.
* `Displays`: the controller's memory, its window and the pixels that stream into it; where the picture of each kind of panel
  starts (`Origin`), with each rotation; whether the display is on. Then frames with a stride, clipped
  rectangles in 16 bits, and an SDL display made of four resources.
* `Volume`: `image` is what littlefs wrote and `host` what the disk has of it. A commit is programmed (`Programmed`) and then synced
  (`CommitSynced`, `SyncFails`); what is between them may be on the disk after a crash, or not, and `kept` says for each file
  which sizes its callers were told it may have. Handles keep a copy of position and size; the process dies at any step.

### The host: Console, Timers, and the composition Board

`Console` has threads that print line by line under the mutex of `printf.c`, panic inside a line or
beside it, and, on the Pico, are cut off when core 1 is reset for the next one
(`ResetsRunning` says whether the caller resets a core that still runs; it does not in the checked instance). `Timers` has
`sys_timer` of Linux, macOS and the Pico with the two examples that live by it: timers and the
queue are on stacks of tasks that return. `Board` lets each behaviour be about one device: they share no
state, so a run over all of them explores the sum of their graphs, not the product.

### The memory and the runtime: Zone, Objects, Messages

`Zone` keeps for each arena its chain of blocks and its tail, and the blocks the program holds. `Places` is
`objc_arena_find_free_space`, `Meets` its collision test, `Unlink` the removal; an allocation looks only at
the newest arena (`AllocHere`) or makes another (`AllocGrow`).

`Objects` has retain counts, a list of pools, arrays and maps. A release that reaches 0 goes through the
contents one by one (`releasing`), and so does a drain (`drain`), with other calls' effects visible in between;
`due` counts what each pool owes each object.

`Messages` starts with class resolution, categories and `+initialize` as a stack of sends. `wide` says whether the target
encodes a method without arguments as `v16@0:8`, the one type `+initialize` is looked up with: elsewhere it is not found and `InitializeMissing`
goes on without it. Its second
part is the method table with linear probing and the table of protocols with `ConformsTo`. The two share no variable: the calls
that register methods belong to the second, where a method's class is part of its selector. `proto_conformsTo` and
`class_conformsTo` are recursions over the depth, each level the set of those that conform within that many steps.

### The values: Strings, Values, Printf, Json; Launch; the composition Foundation

`Strings` distinguishes memory a string points at from memory it owns; cells beyond the terminator keep
what was there. `Values` has the dates, whose time is scaled down and whose components are cached, and the numbers. The nanoseconds of a date
are an `int32_t` (`NanoTop`, `Int32`): a sum that does not fit (`Fits`) is truncated, and the history `instant` goes on from what is left; they are read through a pointer to
`uint32_t` (`UInt32`), and a comparison is a difference in an `int64_t` (`Int64`). `Printf` walks parsed items into a buffer of any size or none;
`Specs` are the conversions with the arguments a caller may pass (`Args`), `FormatOf` puts a field between two letters. `TextSafe`, in `Strings`, is what both promise.
The numbers have one class for each width, of which `Half` says half of how many values it has: 2, 4 and 8 for 16, 32 and 64 bits. `Json` writes documents and reads them
back with a reader of its own. `Launch` is `NXApplicationMain` as the list of steps (`plan`) that it still has to do,
with the POSIX signals that interrupt it between any two of them. `Foundation` composes these with the memory modules, one per behaviour, as `Board` does.

## 4. What the runs show

| run | instance | states |
|---|---|---|
| `event_queue_safety` | a thread that pushes, closes and finalizes without joining, two consumers, one of which also inspects; 2 slots, 2 events, spurious wake-ups | 526k |
| `event_queue_live` | producer, two consumers, a third thread that closes and, having joined, finalizes; 1 slot, 2 events | 85k |
| `waitgroup` | an owner and three workers, 5 items, two careless workers that call 3 more, `INT_MAX` 7 | 305k |
| `pico` | the queue with two consuming cores and a third context that pushes and closes, 1 slot, 2 permits; the waitgroup with core 0, core 1 and two handlers, 5 items | 190k |
| `hashtable` | four key pointers to three strings, two with equal hashes, two values; tables of 2 and 3 slots | 6k |
| `run_loop` | a repeating and a one-shot timer, the two poll timers and the pins, one callback context beside the main thread; 1 slot, 2 blocks | 194k |
| `network` | the four example programs and one that calls the driver from the connected callback; one network, a stack of 4 | 8k |
| `board` | two pins, a slice of 4 counts, two receivers on one line, a panel of 2 by 2 bytes, displays of 2 by 2 and 2 by 1 pixels on a controller of 3 by 3, two sensors on a bus, two files of at most a byte, two chip registers, frames of 2 by 2 | 642k |
| `board_live` | an LED of 4 levels, a watchdog of 5 ticks, main and workers that print on two platforms, a gauge of 2 samples, timers on three systems | 76k |
| `foundation` | arenas of 8 units, three objects of which one array and one map, three classes with two categories, two strings, two years of two months, 3- and 4-bit integers, two tables of two slots, documents of depth 1, two signals | 303k |
| `hashtable_duplicate` | three keys, tables of 1 slot, deletions in a chain of two tables | violation |
| `run_loop_sender` | the run loop with a timer that gets its last release | violation |

Each property of a run is a conjunction of named parts, each with its own comment where it is defined.

**`event_queue_safety`, `event_queue_live`.** `RingConsistent`: head, tail, count and slots agree.
`NoLostWakeup`: nobody sleeps beside an event or after a shutdown. `Implements`: the ring is the FIFO of
`BoundedEvents`. `NobodyInDestroyed`: with joined threads, nobody is in a queue that was destroyed. `CallsReturn`:
shutdown releases every consumer and a timed pop returns.

**`waitgroup`.** `WaitSafe` (the counter is the outstanding work, the owner is woken, finalize outlasts every
worker), `RestoreKept` (whoever calls, the group never waits for work that does not exist), `Implements`, `FinalizeReturns`.

**`pico`.** `QueueSound` (the waiters are counted, so every sleeper has its permit when there is something to wake
for), `GroupSound` (permits are exact although increments are lost), the two refinements `Implements` and
`CountsPending`, and `Released`: no call waits for ever.

**`hashtable`.** `TableHolds` (one entry per key, found by every look-up, and complete iterations while the table
changes) and `ImplementsStore`. Deletions happen only while the chain has one table; `hashtable_duplicate` shows why.

**`run_loop`.** `EventsOwned`: each allocated event has exactly one owner and is freed once. `RemainingProcessed`: a loop
that returns has handled all it accepted and stopped its timers. `EventsEnd`: a terminated loop returns, an accepted event is handled.

**`network`.** `RequestsKept` (a busy flag is set exactly while an accepted request awaits its event; the network the
driver holds is the one asked for; the SNTP client follows the link), `StringsKept` (the strings and results lwIP has pointers to
live as long as it may use them, and are freed once), `EverythingEnds` (each request, connection attempt and publish is answered,
but for the two cases of section 6).

**`board`.** `InterruptsFit` (a pin's mode reads back, only inputs interrupt, each input does and reaches the callback unless a later mode of
another pin has silenced it; the shared handler of the receivers only finds machines that are claimed),
`RampHolds` (through wrap interrupts between any two steps of a call the level fits the wrap, but while a new wrap is being loaded, and the period is
the one asked for last, as near as the divider comes; nothing runs after finalize),
`PanelShows` (an update that succeeded shows the framebuffer whatever failed before, a partial one if its area starts with a byte; settings that succeeded
leave no others behind; nothing is torn unless the wait gave up after 20 seconds), `TransfersTrue` (a failed transfer leaves no bus held; what is reported was transferred; a reading is of
its own sensor and, after sleep, fresh), `FilesSafe` (what a caller was told is stored survives a crash, and of a call under way or failed either what was there or what was to be; a handle's
position is littlefs's unless a seek failed; each structure is
freed once), `ScreensDraw` (a display that was set up and not reset is on; on panels whose picture starts at the first cell a rectangle shows its pixels,
and on all it changes no other cell than those it addresses; a fill right after the set-up or a rotation covers the panel, wherever its picture starts, and nothing else;
frames are clipped right and paced).

**`board_live`.** `LedFollows` (a cancelled blink or fade never shows after a later call), `PowerKept` (no reset that was not asked for unless the polls
stayed away for longer than half of the longest time-out; the callback knows the source; a true battery reading), `ThreadsTidy` (whole lines, a mutex with a living owner, wrappers, alarms and events freed once),
`AllEnd` (blinks end, delayed resets come, a panic halts, the gauge gets its samples, the timer programs end).

**`foundation`.** `ZoneSafe` (blocks disjoint, inside and linked), `RetainsCounted` (each count is the number of references,
nothing freed is touched, nothing leaks, a drain gives back what was added), `MapHolds`, `MethodsFound` (the most
derived implementation, superclasses initialized first, each once, where `+initialize` can be found at all, and no call of it where it cannot; tables that answer by name), `TextSafe` (strings, data and formatted text are what was put in, within
their memory), `ValuesExact` (dates and numbers survive cached components, negative intervals and widths; a comparison is right as long as the difference fits), `JsonFaithful`,
`LaunchOrderly` (a signal terminates the application or finds none, and what `main` made is given back in order).

Each property of a passing run has a mutant in `PROJECT.json`: a plausible bug of the code, kept in its module as an
operator marked "Mutation", under which TLC finds the property violated.

### Bounds

Two consumers are enough for every race between wake-ups: one takes the event the other
was woken for. One or two slots reach the full, the empty and the wrap-around case in a
few steps, and two events tell FIFO from any other order. Three workers and five items let adds
overlap dones in every order, nested adds included; `INT_MAX` is larger than the work
announced with discipline. A chain of two tables is the
shortest that grows; two and three slots make the hashes collide differently in each.
In the run loop the context and the main thread's `fire` are two pushers that race for the
last slot; two blocks make malloc fail while the loop holds one event and the queue the other.
The semaphore's permits (`MaxPermits`, 1024 in the code) are bounded so that the bound is reached.

A stack of 4 callbacks holds a publish inside the callback of a publish. A panel of two columns of two bytes of two pixels has areas of one byte, of two half bytes, of
nothing, of half a byte and one that crosses the edge (`FiveAreas`), and two speeds. Of the kinds of display the instance has the two whose picture moves
with the rotation, one with a gap in one direction and one with gaps in both (`Gaps`), in the two orientations (0 and 180) that differ for them, and rectangles of a
column, everything, nothing, and one that crosses the edge; at rotation 0 the first has no gap. Of a transfer that is torn all or one pixel arrives: how many makes no difference to the rest.
Files have at most one byte, which tells "as it was" from "as it was to be", and one directory is read at a time. The slice counts to 4 and its divider to 2 in halves, so that periods
of 5 and 7 need a fraction that is rounded.
A fade of 4 levels rises, turns and falls. The watchdog's longest time-out of 5 ticks spans two intervals of its poll (2) and one of the power monitor's (3). The first arena of
8 units holds the zone and one block, a later one two, with a gap between them that an allocation fits or not; with three arenas one lies between others.
Retain counts reach 2, nested pools 2, arrays 2 elements, which covers "twice in one pool" and "in two pools". Three
classes in a line and two categories on them make every order of loading. Dates have years of 3 days and days of 2 seconds, so that a few
additions cross every boundary in both directions; `LapseTop` (16, for 2^63 ns or 292 years) is passed by dates that lie four seconds apart; a second has 4 units and `NanoTop` is 9, as 2^31 is a little more than two seconds of nanoseconds, so that three
additions reach a sum that does not fit. Buffers of 0 and 5 bytes hold no text, a short one, or one that a width of 5 makes a byte too long. Memory for a text (`Room`, 24) is several times the longest buffer, so that a write past the end would be seen; the
assumption that every field fits into it bounds the memory that is looked at and nothing else. Integers of 2, 3 and 4 bits have all the edges of 16, 32 and 64.
Counters that grow for ever in the code are bounded in the guards: `Announced`, `MaxDones`, `MaxCareless`, `MaxTables`, `MaxArenas`,
`MaxTold`, `Rounds`, `MaxTicks`, `MaxDepth`, `MaxNesting`, `MaxMembers`, `MaxSeconds`, `MaxText`, `MaxData`.

`CHECK_DEADLOCK FALSE` appears where the system really stops: after a waitgroup was
finalized, a loop that has returned, a program that has panicked or ended, a board that waits for its user.
`SYMMETRY` exchanges two strings in `foundation` and two names of files in `board`, which no operation tells apart; no liveness is checked in either.

### Fairness

A thread inside a call is scheduled and gets a mutex that is free in the end
(weak fairness of its steps, the critical section being one step), and a time-out passes.
Nobody is obliged to start a call, and a wait need not end spuriously.
On the Pico taking the spin mutex is a step of its own that others undo again and
again, so it needs strong fairness: a core that spins sees the mutex free some time.
For the waitgroups announced work is started and done. A worker may also call add any
number of times (up to the bound) before it calls done, hence strong fairness of that call.
In the run loop the main thread and the callbacks are scheduled, no timer has to expire and
no signal to come. Code of the application returns to the loop however many calls it makes
first: strong fairness of `Launched` and `FreeEvent`, which each call disables for a while.

In `network` the program polls again and again, a callback returns however many calls it makes, and the driver, the
resolver and the broker answer: without an answer the code has no time-out, and waits for ever. In `board_live` the alarm pool
fires while a timer is set, time passes and `hw_poll` is called (the watchdog's own contract), the converter
converts, each thread goes on, and memory for an event is found at times if asked for again and again.
No fairness is assumed of callers anywhere else.

## 5. What is proved

Eight modules hold proofs; a property is proved as it stands, with the conditions its comment names. Assumptions are the named ones of the modules they extend (a positive capacity, identities that
differ, bounds of an int, a positive header and alignment, finitely many objects or signals, a calendar whose months have days, two
seconds of nanoseconds that fit into an `int32_t`); TLC evaluates them in the runs.

`EventQueueProofs` proves for any sets of threads and events, any capacity, with and
without spurious wake-ups and with or without joining unless said otherwise:

* `TypeCorrect`: `Spec => []TypeOK`.
* `RingSafe`: `Spec => []RingConsistent`. Not inductive alone: a push stores `arg[t]`, so
  one needs that a thread in a push brings an event (`ArgPending`), and the wrap-around
  needs modular arithmetic (`ModSmall`, `ModOnce`, `NextSlot`, `Ahead`, `Apart`, `Shift`,
  `ShiftBack`, `FullTurn`), proved from the definition of `%`. The invariant is
  `IndInv == TypeOK /\ ArgPending /\ RingConsistent /\ NoLostWakeup`.
* `WakeupSafe`: `Spec => []NoLostWakeup`, from the same invariant: whoever makes the
  condition true broadcasts in the same critical section, and whoever blocks has just
  seen it false.
* `DestroySafe`: under `Joined`, `Spec => []NobodyInDestroyed`, by `JoinInv`: an owner in finalize
  is alone, and stays so.
* `Refinement`: `Spec => Implements`. Every action is matched with one of
  `BoundedEvents` or a stutter; the lemmas on `Take`, `StoreWithRoom` and `StoreOverOldest`
  say what the ring operations do to `Contents`.

`SystemProofs` proves of `Waitgroup`, for any workers, deltas, bounds and `INT_MAX`:

* `CounterSafe`, `WakeupSafe`, `DestroySafe` and their conjunction `GroupCorrect`: `Spec => []WaitSafe`. The
  invariant is `Disciplined == disciplined => Positions /\ Counted /\ LastOut`: where each thread is and what it
  carries; that the counter is the work announced and not yet done, with no more of it than `Announced`, so that the int does not wrap (`Units`); and that
  an owner in finalize has nothing left to add, so that the last done is the last call. Positions are needed because add and done
  are judged by the counter they find, and a thread that is about to add must itself be backed by work in hand.
* `Refinement`: `Spec => Implements`, with every step an `Announce`, a `Report`, the `Finish` or a stutter of `PendingWork`.
* `RestoreSafe`: `Spec => []RestoreKept`, for callers that obey nothing. The invariant `Anyhow` says that what a thread between its two
  critical sections will put back is never positive, and bounds the counter by what successful calls acknowledged.

and of `HashTable`, for any keys, strings, hashes, values, sizes and length of the chain:

* `TableHoldsAlways`: `TableSpec => TableHolds`. `TableInv` says of every table that no search for a string meets an empty slot before the
  string's entry (`Met`; a deletion leaves a tombstone, which keeps it), of the chain that no string has entries in two tables and that
  every table but the last is full, and of an iteration that it has returned, once each, exactly those steady entries that lie
  before its position (`Passed`). The proofs that `WaysDiffer` and `WaysReach`, so that the probe of a table visits each slot once, come from the division
  alone. `SlotFacts`, `PlacedGood` and `BuriedGood` are about one table, `PutFacts` and `BuryInChain` about the chain.
* `StoreImplemented`: `TableSpec => ImplementsStore`. A put is the `Set` of one string, a deletion a `Remove`; `CountFacts` gives a bijection
  between the entries in use and the strings that have a value.

Both assume `UsesKeyEquals`, since without it two strings of one hash are one key, and `~Deletes`: no deletion once the chain
has two tables. Without the second the code does give a string two entries (section 6), and with it `TableInv` needs that tables before
the last are full: then a key is put into an earlier table only over its own entry.

and of `Values`, for any scale of time, calendar, intervals and widths of integers that at least double:

* `DatesInvariant`, `SettersKeepTheRestAlways`: `DatesSpec => []DatesInv` and no setter of the day changes the time. `DatesInv` says that seconds and
  nanoseconds together are the instant, that nanoseconds stay within two seconds of 0 (`AddedFacts`: whatever an addition borrows, carries or truncates, so that
  the next one finds them so), that cached components are those of the date's seconds, and that the clock's offset is the quotient of what was asked for.
  The division of C rounds towards zero, so `QuotRem` gives the remainder the sign of the number. `DaysBeforeFacts` shows that the days before the
  months can be counted, `MonthOfDay` that each day of the year is in a month, and `ComponentsFacts` that `timegm` undoes `gmtime_r`.
* `NumbersInvariant` and `ValuesAreExact`: `DatesSpec /\ NumbersSpec => ValuesExact`. A cast has one answer (`CastFacts`); every conversion for which a class has no
  assertion fits, but for the widest unsigned to the widest signed, which answers below zero (`UnassertedFits`, `ConvertFacts`); `EqualFacts` goes through the
  comparisons of the classes.

`PicoProofs` proves for any contexts, capacity, permits and numbers of items:

* `GroupCorrect`, under `Orderly` (one done for each announced item, no more items than the semaphore has permits):
  `PicoSpec => []GroupSound`. `GroupInv` adds that `done_count` and what is loaded from it lag behind the dones that stored and never
  lead: increments may be lost, the permits are exact. `GroupRefines`: the group implements `CountsPending`.
* `QueueCorrect` and `QueueRefines`: `QueueSound` and the FIFO of `BoundedEvents`. `QueueInv` says who can be in which step of a wait,
  that `waiters` counts exactly those who counted themselves in and not out, and that permits
  cover everybody who sleeps while there is something to wake for, also when a broadcast counted somebody on the way out.

`BoardProofs` proves for any pins, slices, devices, sizes and bounds that the assumptions of the constants allow:

* `RampSafe`, `LedSafe`, `PowerSafe`, `PinsSafe`, `BusSafe`, `VolumeSafe`, `PaperSafe`, `ScreensSafe`: the conjunctions of the run `board` and
  `board_live`. Each device has its own strengthening (`PinsInv`, `IrInv`, `PwmInv`, `LedInv`, `DogInv`, `AdcInv`, `BusInv`, `SensorInv`,
  `VolInv`, `LcdInv`, `PixelsInv`, `PaperInv`, `TimersInv`, `ConsoleInv`: `PwmInv` follows the level through the steps of a new configuration, `VolInv` says
  that the disk has of each file a size that is in `kept`, and the image one that will be), and a lemma that the device's steps keep it; a step of another device leaves
  its variables alone, so that `ChipSteps`, `BusSteps` and `HostSteps` lift them to `Board`. `PaperInv` is the longest: it says for each
  step of a script which bytes of the panel's memory already are the frame's, and which commands a failure leaves out; it holds for areas on and off the grid of bytes, and
  gives the picture for the first.
  `ScreensSafe` also proves two action properties, `RectOnly` and `Paced`.
* `InterruptsSafe` and `ThreadsTidied` assume `~ResetsRunning`: the contract that a thread is started on core 1 only after
  the last one ended, which the multicore example breaks (section 6).

`MemoryProofs` proves for any header size, alignment, capacity and sizes, any objects, arrays, maps and keys, and any sequence of calls:

* `BlocksApart`, `NeverPanics`, `EverythingLinked` and their conjunction `ZoneCorrect`: `ZoneSpec => []ZoneSafe`. The invariant
  `IndInv` says of each arena that the blocks of its chain are inside and pairwise apart, and that its tail is the
  last of them (the search starts behind the tail, so a wrong tail would overlap); that every held block is in the
  chain of its arena, held blocks are as many as the zone counts, and the zone's own object is in the first chain.
  `PlaceApart` proves that an address the search returns collides with nothing, `UnlinkApart` that a removal keeps the chain
  and its tail, `HereOK`, `GrowOK`, `FreeOK` and `DeallocOK` go through the actions.
* `ObjectsInvariant`, `RetainsCountedAlways`: `ObjectsSpec => []RetainsCounted`. The count of an object is a sum over its owners, pools,
  arrays and maps, and one step moves several terms of it at once (a release that reaches 0 frees an array, whose elements are
  released one by one). `ObjInv` says: the count is the sum also in the middle of a dealloc and of a drain, with what
  `releasing` and `drain` still have to give back as terms of it; a freed object holds nothing; nothing holds itself by any path (`Acyclic`, so that a dealloc
  cannot meet the object it started from); while a map stores, its new value has a reference of its own; each pool's list is linked by
  `next` without a repetition. About half of the lemmas are about sums over finite sets and reachability.

`NetworkProofs` proves for any programs in the callbacks, any networks and any depth of the stack:

* `NetworkInvariant`, `RequestsSafe`, `StringsSafe`: `Spec => []RequestsKept` and `[]StringsKept`. What a call that waits will still do when it
  returns is in its frame, so `NetInv` restricts the whole stack: a callback behind which the strings are freed is the innermost
  and begins nothing (`FreesLast`); no frame below an attempt to connect will forget its network (`NothingForgets`); every
  pointer in `requests` is to the frame of a publish that still waits. `Base` is what is left of the stack when a call is pushed.

`FoundationProofs` proves

* `ChainInvariant`, `MapHoldsAlways`: `ChainSpec => []MapHolds`, for any keys, values, number and size of tables. `ChainInv` says: no slot that
  was never used lies before an entry on the way its hash takes (`GoodTable`, which tombstones keep and which a slot
  freed for good would break); a key has an entry in one table at most (`InOne`), which the antecedent `~twice` of `MapHolds` is needed for;
  that entry has what was stored last; an iteration has returned exactly the entries it passed. `ProbesReach` proves that the probes visit every slot.
* `LaunchInvariant`, `LaunchOrderlyAlways`: `LaunchSpec => []LaunchOrderly`, for any finite set of signals, on the Pico and elsewhere. `Layout` and `TaskKinds` say
  which step of `main` stands where in the list; `LaunchInv` then says what exists (`MadeAfter`) and which handlers are installed (`HandledAfter`)
  as functions of the number of steps done, whatever failed in between.
* `MessagesInvariant`, `MessagesSafe`: `MessagesSpec => [](FindsMostDerived /\ SuperFirst /\ RunsInitialized)`, for any finite hierarchy under one
  root, any categories and static instances. `MsgInv` says that the table of methods is a function of what is resolved and of how many
  categories are loaded (`Table`, so that `LoadFacts` can go through the recursion of the load), that resolved classes have their
  superclasses resolved (`UpClosed`), and of the stack (`StackOK`) that a class is flagged exactly when its +initialize waits, was called or, where it cannot be found, was looked for,
  and that only the innermost frame may have a superclass that is not flagged yet.
* `RegistryInvariant`: the tables, for any size and any hash. `RegInv` says that a method has no entry, or that both its probes come to a matching entry with
  the last implementation before they come to a vacant place (`Filed`). A registration finds itself (`RegisteredAnswers`) and changes the
  answer to no other key (`OthersAnswer`), whether or not their probes cross. Protocols are a list without two of a name (`Tables`).
* `MethodsAreFound`: `MessagesSpec /\ RegistrySpec => []MethodsFound`. Conformance is exactly reachability (`PathFacts`): a set that grows by
  steps stops within as many steps as there is room (`Stationary`), so that both recursions and `Reach` end at least fixed points
  (`Outcome`); what does not conform is closed under superclasses and protocols, and what cannot reach the name is closed under the recursion's step.

* `StringsInvariant`: `StringsSpec => []StringsInv` for any strings and texts, if a program changes and releases no string that others refer to (`Careful`, as the run
  has it; the code has no reference counts between strings). `Stands` says of a string that its own memory has its text and a terminator inside (`Holds`), or that it points at a
  constant, or at another live string that owns its memory and has the same text: a chain of two pointers is never made, which is why a string
  that nobody points at (`Alone`) may be changed or moved (`ReplaceKeeps`). `EncodingsKeep` proves that the room taken for hexadecimal and base 64 is enough, `StringsAnswer` that comparisons by bytes are comparisons of texts.
* `FormatsKept`: `PrintfSpec => [](BufferHolds /\ LengthAgrees /\ ReadsBack)` for any widths of integers, flags, field widths, sizes of buffers and descriptions.
  `PrintfInv` says how much of the text is in the memory after so many items (`Wrote`, `Amid`) and in which pass. `Recursion` gives the digits of a number (`Digits`) and the loop that puts
  characters (`PutAll`) as recursive functions; `DigitsRead` goes by the least number that fails and shows that digits read as their number in every base (`Reading`), and `LayoutReads` that blanks,
  a sign, a prefix and zeros around them change nothing. The least `int` and the least `long` are among the arguments: `SpecFacts` proves that their absolute value is written.
* `TextIsSafe`: `StringsSpec /\ PrintfSpec => []TextSafe`.

`RunLoopProofs` proves for any sets of timers, contexts and blocks and any capacity:

* `TypeCorrect`: `Spec => [](TypeOK /\ PlacesAgree)`: a thread holds an event just before its push.
* `OwnershipSafe`: `Spec => []EventsOwned`. The invariant is `IndInv == LoopAgrees /\ EventsOwned`;
  `LoopAgrees` says when the loop has an event in hand and that a loop that has returned its
  status left an empty, closed queue, without which the release of the application would
  lose events. `AllocateStep`, `TryPushStep`, `PopStep`, `FreeStep` and `ReleaseStep` are the steps
  that move an event; every other step is `StillOwned`. `AppendDistinct` and `TailDistinct`
  say what the two ends of the queue do to the set of events in it.
* `ReturnSafe`: `Spec => []RemainingProcessed`, from the same invariant.

Only model-checked: documents (`JsonFaithful`: the writer and the reader are RECURSIVE operators over trees, and what they compute would need induction over data)
and all liveness (`CallsReturn`, `FinalizeReturns`, `Released`, `EventsEnd`, `EverythingEnds`, `AllEnd`), which needs fairness and ENABLED.

## 6. Disagreements

Two are findings with a run of their own:

* `hashtable_duplicate`: a put after a deletion in an earlier table of the chain gives a key a second entry.
* `run_loop_sender`: an event keeps an unretained pointer to its timer, which may be
  deallocated when the loop takes the event; `src/examples/Application/timer/main.m:44` does so.

The others were met while modelling. The models do what the code does, and where that breaks a property above the
property says so in its antecedent or the instance avoids it, as noted.

*Queue, waitgroup, threads.* `timed_pop` waits in an `if`, so a wake-up that another consumer made stale returns NULL with neither a
time-out nor a shutdown (`event.h:167`). The peek/pop sequence under the caller's own lock (`event.h:217-218`) cannot work, because pop
takes the lock itself. `finalize` discards events although `event.h:34` says they can still be popped, and destroys the mutex under the
consumers it has just woken unless they were joined. On the Pico a push from an interrupt spins on the mutex of the thread it
interrupted (`pico/mutex.c:24`), though `event.h:109-110` says that producers are never blocked; a broadcast can leave a permit behind with
nobody waiting (`sync.h:227-228`); two dones can pass the check for one item (`pico/waitgroup.c:84`). The restore of an excess done takes
back an add that succeeded in between (`waitgroup.c:123`). The multicore example starts a thread on core 1 while the last one may still be in its
`printf`, whose mutex it then holds for ever (`examples/runtime/multicore/main.c:31-50`, `pico/thread.c:79`): with `ResetsRunning = TRUE`
`ThreadsTidy` fails. A panic inside a line spins on the Pico. `sys_exit` finalizes the mutex of `printf` while a worker prints.

On the Pico two contexts that add to one waitgroup at once may lose an addition (`pico/waitgroup.c:69`); `WaitgroupPico` has one that adds.

*Timers and the run loop.* A one-shot timer is invalidated behind its own event and its delegate may never be told
(`NXTimer.h:68-70`, `NXTimer.m:18`); a timer can be restarted after it was invalidated, which `NXTimer.h:77` excludes; a signal may
fail to end the loop (`ApplicationMain.m:168`); `applicationWillTerminate:` is never called; when the second poll timer does not start,
the first goes on (`Application.m:304`), in a frame of `run` that is gone; what its callback then reads there is not followed. The look at a Linux timer's id is not atomic with `finalize` (`linux/timer.c:14`), its callbacks
overlap, and the runloop example's second task may use the queue and the timer of a `core0_task` that returned (`AllFreed` excludes
what comes after, as `stray`). A macOS timer is valid before it was started.

*Tables.* Without a key function a key of hash 0 is found in an empty table (`hashtable.c:78`). `NXMap` compares keys by their hash only and
retains them instead of copying them (`NXMap.m:405`). A category's protocols are ignored by `conformsToProtocol:`; a category on a class that is not
registered is skipped silently (`category.c:50`); a method overridden with another type encoding is found in the superclass (`hash.c:73`). `+initialize` is looked
up with the one type `v16@0:8` (`message.c:73-76`) and entries match by type: on a 32-bit target such as the Pico, where the encoding is `v8@0:4`, it is never called, though the class
is flagged as having "received the +initialize message" (`api.h:64-65`). `RunsInitialized` says so: with `wide` false no `+initialize` runs.

*Memory.* A zone allocates only from its newest arena, and an allocation that needs an arena of its own gets one that is too small by a
header: it fails and leaks the arena (`NXZone.m:107-108`; `NXZone.h:43`). Objects that are autoreleased while a pool drains are dropped
(`NXAutoreleasePool.m:104`). A pool released out of order leaves `defaultPool` dangling. The shared `zeroValue` and the booleans are
autoreleased with the first pool and then dangle (`NXNumber.h:92`), as does `nullValue`. `setObject:forKey:` releases the old value before it retains the new
one (`NXMap.m:398`). `initWithString:` keeps a pointer into a string it does not retain (`NXString.m:67`; `NXString.h:74-75`).

*Values.* `hexString` and `base64String` leave the length 0 (`NXData.m:244-343`), so that data in a document are written as an
unquoted text of no length. `[s append:s]` and the trims copy between ranges that overlap. `setYear:month:day:` accepts 30 February
(`NXDate.h:96`); negative intervals leave nanoseconds that are negative or beyond a second, which `date.h:47` excludes. `hours:minutes:seconds:nanoseconds:`
stores them through a pointer to `uint32_t` (`NXDate.m:161-174`), so that a caller who was promised 0 to 999999999 (`NXDate.h:79`) reads a negative one as 2^32 more
(`ShowsInstant` undoes that before it compares); the difference of two dates more than 292 years apart wraps around in `sys_date_compare_ns` (`date.c:235-239`) and they compare the
wrong way (`Comparable` excludes them). Their sum is
truncated when it no longer fits into an `int32_t`: -1 ns and then twice 0.999999999 s make 2999999997 (`NXDate.m:274`), and the date is seconds off
(`InstantAfter` excludes it); the Pico ignores the time zone of `sys_date_set_now`
(`date.h:68-69`). `Int64` -1 equals `UnsignedInt64` 2^64 - 1. A JSON text escapes the bytes of UTF-8 where `char` is signed.
The scratch buffer of `printf.c:118` limits widths to 63.

*Devices.* Setting a mode that is no input passes a NULL callback to the SDK and silences all other inputs (`gpio.c:81`), where
`gpio.h:119-121` promises the callback for any pin that is configured for interrupts: `InputsAnswered` excludes those as `silenced`, until some pin is made an input again.

`hw_pwm_set_config` is meant to restart a unit that was running (`pwm.c:210`), but asks `enabled` after `hw_pwm_stop` has cleared it: the unit stays still. Its wrap interrupt may start it again
in between, or leave `enabled` set on a unit that has stopped, or a slice running that is flagged as disabled; and one that comes between the new wrap (`pwm.c:208`) and the load of the slice
(`pwm.c:211`) sets a level of the new wrap against the old top, for less than a period (`LevelFits` excludes those steps). The period is the asked one only as near as a divider
in sixteenths comes (`pwm.h:23-27`). The callback of `examples/runtime/pwm` is given a `hw_pwm_t` (`main.c:68`) and is modelled as what it does with one.

`hw_led_set_brightness` returns false for a brightness between 0 and 255 on an LED without PWM, after it has cancelled what ran (`led.c:286-296`), where `led.h:138-139` says that it is coerced to
0 or 255: `LedShowsAsked` takes the LED for what it showed then. `hw_led_finalize` stops the slice of the neighbouring pin.
The battery gauge turns the ADC's FIFO on and ignores only two stale values, so that readings of other channels get into the mean (`power.c:186-216`;
`BatteryMeasured` excludes them as `mixed`). While no voltage is read the charge is 0, where `power.h:112` says 100. The watchdog is to be polled "no less than
the value returned by hw_watchdog_maxtimeout()" (`watchdog.h:99-101`), but a poll feeds it only when the last feed is half of that time ago (`watchdog.c:159-181`): a poll just before the half and the next
just before the whole do not save the board. `NoStrayReset` holds for polls that come within the half, and says so; later ones are in the model.

`i2c` writes a register and its data in two transfers (`i2c.c:178-189`); a transfer of length 0 leaves the bus
held.

The st7789 driver finds where the picture of a 240x240 or 240x135 panel starts (`st7789.c:94-148`) and forgets it in `driver_st7789_set_window` (`st7789.c:544-560`): a rectangle is
misplaced by that much, and `RectShows` is about the others. A fill after a rectangle covers the rectangle only, though it promises the entire display (`st7789.c:592-593`; `drivers_st7789.h:203-207`).
`driver_st7789_reset` leaves a display off that the driver does not set up again, and without a pin does nothing, where `drivers_st7789.h:165-166` has a software reset;
`driver_st7789_finalize` asserts a valid handle, where `drivers_st7789.h:111` says that it is safe to call several times.

The uc8151 driver takes areas whose `y` is no multiple of 8 (`uc8151.c:714-720`), opens a window from the byte of `y` to that of the last row (`uc8151.c:740-748`) and sends a byte less for each column:
what follows the first column is misplaced, and the call returns true (`drivers_uc8151.h:217-225`). `PartialShows` is about the others. The example asks for such areas (`examples/drivers/uc8151/main.c:430-433`, `590`).
Empty areas are accepted as well; what the panel makes of a window that ends before it starts is taken to be anything. A setting returns true although its table of waveforms was lost
(`uc8151.c:194-198`; `drivers_uc8151.h:132`): then the panel has no speed at all (`SettingsReach`).

`fs_vol_move` replaces a destination that exists and returns true (`volume.c:106`), which `fs.h:182-183` calls a conflict and an error: the model replaces it too, and what was moved is what survives. A seek that
fails may have moved littlefs while it wrote what was buffered, and leaves the handle where it was (`file.c:166-170`; `HandleFollows` excludes it as `astray` until the next call that moves). An image that was made but not formatted is refused
for ever, though `fs.h:78` says a format is performed; reads and writes return negative errors as `size_t`; a failed write followed by a close returns
true. In `runtime-pix` a rectangle that lies wholly outside wraps round at 16 bits.

*Network.* A connection that fails before a poll has seen it join is never reported (`wifi.c:492`; `wifi.h:180-182`): `RequestsAnswered` excludes it as
`Unseen`. A `memset` after the failure callback wipes a retry that was made inside it. A link that is lost later is not reported. `hw_wifi_finalize`
during a scan asserts. `net_mqtt_disconnect` keeps the server, so that the next connect panics; a publish whose connection
closes never returns (`PublishEnds` excludes it); an answer of the resolver after `finalize` asserts.

*Start and end.* A signal is lost when it interrupts the holder of the queue's mutex, or while the handlers are being installed; a release of the
application, whoever makes it, finalizes its queue.

## 7. What is not modelled

* In the modelled components: the failure of the queue's and the table's constructors (they return an invalid object and change
  nothing else); `trylock` and `sys_cond_signal`, which none of these components calls; the exit status and the arguments of the
  application; the length of time-outs of the queue (one may expire at any moment); queries that only read (sizes, counts, walks,
  descriptions); the subscription of MQTT and incoming data; `mkdir`, `stat` and sizes of littlefs; the conversion of an infrared word; the compensation
  arithmetic of the bme280, which is its vendor's; drawing that is still to do in `runtime-pix`.
* Whole parts: `LED.m`, which passes its calls on; the loops of the gpio, led, bme280 and uc8151 examples, which make the
  modelled calls in a fixed order; `NXInputManager`, of which only declarations exist; hashing, random numbers, sleep and memory, wrappers
  with no state that two calls share; stub hardware; the tests.
* Where the pixels that a display holds go when it is rotated, how the glass of a panel is wired to the cells of its controller (the driver's own offsets are taken for
  right), and registers that fail to take what is written to them.
* External, and modelled from how the code uses it: pthreads, the Pico SDK's interrupts and alarm pool, lwIP, the CYW43 driver, littlefs,
  SDL, the C library's dates.
* Two threads that share Foundation objects: `@synchronized` takes no lock, so that the code does not support them.

# procfast in TLA+

procfast keeps system statistics in eBPF maps. Programs that run inside the kernel
write them; a daemon loads the programs and pins the maps in the bpffs; clients map or
look the maps up and read them without a system call into the daemon and without a
lock. What can go wrong in such a program is between its parts: a reader in the middle
of a writer's stores, two CPUs in one program, a tracepoint between two steps of an
iterator, a daemon that dies and leaves its pins. These modules say what the parts do
and what holds of them together.

Paths are relative to `src/`, as in PROJECT.json, which maps each definition to the
lines it stands for.

## 1. The system

| Component | State | Operations | Works with |
|---|---|---|---|
| Seqlock readers: `procfast/src/collector.rs`, `procfast-client/src/lib.rs`, `procfast-native/procfast_client.h` | the copy and the first counter, on the reader's stack | `snapshot()`: load the counter until it is even, copy, load it again | every mmapped region |
| CPU collector: `procfast-bpf/src/cpu.bpf.c` | `cpu_data` (sequence counter, timestamp, total, per_cpu, nr_cpus), a BPF timer | `collect_cpu_stats` once per interval | kernel_cpustat; readers |
| Memory collector: `mem.bpf.c` | `mem_data` | `fexit_si_meminfo`, `fexit_si_mem_available`, whenever somebody calls these functions, on any CPU | readers; `seed_mem` calls them once |
| Slot tables: `net.bpf.c`, `disk.bpf.c`, `thermal.bpf.c` | a hash map device -> slot, the next free slot, an mmapped array and its count | the three show functions' hooks and `block_rq_complete` | the kernel's callers and interrupts; readers |
| Process tracker: `proc.bpf.c`, `procfast/src/proc.rs` | `proc_stats`, `thread_runtime`, `proc_header`, the ring buffer `proc_events`, a timer | `sched_switch`, `sched_process_fork`, `_exec`, `_exit`, a task iterator run once, `proc_timer_callback` | each other, over the maps; batch readers |
| Interrupt counters: `irq.bpf.c`, `irq.rs`, `seed.rs` | a per-CPU hash of counts, a hash of names | two hooks, on every CPU; one seeding from /proc/interrupts | each other, over the maps; readers |
| File descriptors: `fd.bpf.c`, `fd.rs` | `fd_entries` | openat and close hooks, an iterator run once | each other |
| Sockets: `sock.bpf.c`, `sock.rs` | `sock_entries` | three iterators, run once | lsof looks up there what `fd_entries` names |
| Loader and daemon: `procfast/src/lib.rs`, `pin.rs`, `procfastd/src/main.rs` | the pin directory; which collectors are loaded | clean, mkdir, open, pin, attach, seed, run, unpin | the bpffs, which outlives the daemon; clients |
| Clients: `procfast-client`, `procfast_client.h`, CLI, exporter, lsof, bench | a handle of mmaps and fds | open, snapshot, batch lookup, subtract, format | pins and maps |

What makes them right, and hard to test:

- *A snapshot is one moment.* The only protection between writer and reader is a
  counter. It protects if there is one writer, the counter is odd for the whole of the
  write and every path out of the write makes it even again. A torn snapshot is rare,
  and the consumers subtract snapshots as unsigned numbers.
- *The process list is the process list.* Four tracepoints, an iterator and a timer
  write one map without a lock. The order of fork, switch and exit is the kernel's; a
  living process must not be hidden or reaped, a dead one must go, time must not be
  counted twice.
- *A device keeps its slot.* The slot is given away by a plain load and store in
  programs that run on many CPUs and in interrupts.
- *The descriptor table follows the kernel's.* Hooks and a one-time iterator fill it side by
  side, sockets are read after files, and clients walk it while it changes.
- *An interrupt is counted once.* Programs on all CPUs, with interrupts over softirqs, meet
  a number for the first time together, and the history is filled in behind their backs.
- *What clients open is what is written.* Pins survive the daemon, and it is by pins
  that the next one and every client decide whether a daemon is there.

PROJECT.json lists the hazards one by one, each at its line.

## 2. Modules

| Module | Models | Stands on |
|---|---|---|
| `Snapshot` | what a mmapped map promises: a region published in one step, read in one step | |
| `SeqReader` | `snapshot()`, one load at a time, over any set of words | |
| `CpuCollector` | the timer callback, one store at a time | INSTANCE `SeqReader`; implements `Snapshot` |
| `CpuCollector_proofs` | theorems | `CpuCollector`, `Sums`, TLAPS |
| `MemCollector` | the two fexit programs, one store at a time, on a set of CPUs | INSTANCE `SeqReader`; on one CPU implements `Snapshot` |
| `SlotTable` | the three device tables, one access at a time, in a set of contexts | |
| `SlotTable_proofs` | theorems | `SlotTable`, FiniteSetTheorems, TLAPS |
| `ProcTracker` | scheduler events with their programs, iterator, timer | |
| `BatchReader` | `snapshot_all()` and `procfast_read_*`: a walk over a hash map, one bucket at a time | |
| `FdTracker` | descriptor tables, the hooks, the iterators, the loader that runs them | INSTANCE `BatchReader` |
| `Daemon` | the life of procfastd, one directory entry at a time | |
| `Clients` | the handle of the C client and the readers of the Rust client, one map at a time | EXTENDS `Daemon` |
| `IrqCounts` | the two interrupt programs, one map access at a time, the loader that attaches and seeds, a reader | |
| `MemCollector_proofs`, `FdTracker_proofs` | theorems | the module of that name, TLAPS |
| `ProcTracker_proofs`, `IrqCounts_proofs` | theorems | the module of that name, `Sums`, TLAPS |
| `Clients_proofs` | theorems about `Daemon`, and about `Clients` over them | `Clients`, TLAPS |
| `Sums` | lemmas on the sum of a function over a finite set | FiniteSetTheorems, WellFoundedInduction, TLAPS |
| `MCCpuCollector`, `MCMemCollector`, `MCProcTracker`, `MCSlotTable`, `MCFdTracker`, `MCClients`, `MCIrqCounts` | values of the constants | |

**SeqReader.** `rpc` is the place in `snapshot()`: `ReadSeq1` is the first load (an odd
value is loaded again, which is no step), `CopyWord` one word of the `memcpy`, in any
order, `ReadSeq2` the second load with the decision to return or to start over. The
Rust and C copies are the same steps. A module with a writer brings the reader in with
`INSTANCE SeqReader WITH Words <- ...` and shares `seq` and `mem` with it, so the
composition of writer and readers is the writer's module itself.

**CpuCollector.** `SeqWriteBegin`, `Stamp`, `ClearTotal`, then `ZeroSlot`, `ReadOneCpu`,
`AddStats` for each index, `Count`, `SeqWriteEnd`: the stores of `collect_cpu_stats` in
its order. The ten counters of a CPU are one number, zero exactly if the code's test
for an empty slot finds zeroes. `Tick` is the kernel, which goes on counting while the
callback runs. `published` is history: the region when the counter last became even.

**MemCollector.** Every call of `si_meminfo` has a number and each store of its
program stores that number, so a region with two numbers in it mixes two calls.
`MemAvailable` is the store `fexit_si_mem_available` does outside of the counter.

**SlotTable.** A context runs one program at a time: `Lookup`, then for a new device
`ReadNext`, `Bump`, `Insert`, `Name`, `CountShow` or `CountComplete`, and for a
completion `Add`. Between two of them any other context runs. With two contexts that is
two CPUs, or `diskstats_show` and the interrupt it was stopped by.

**ProcTracker.** A tracepoint's program is one step with the event that fires it
(`Switch`, `Fork`, `Exec`, `Exit`); `Run`, `Wake` and `Release` are events no program
sees. The iterator (`LoadVisit`, `LoadBaseline`, `LoadEntry`, `LoadDone`) and the timer
(`TimerStart`, `TimerVisit`, `TimerReap`, `TimerEnd`) take a step per map access, with
everything possible in between. `LoadDone` may come at any task: the loader's read loop
ends at an error as at the end, and without an iterator fd it does not begin; what was not read
is `Unread`. `last_seen_ns` is an age in intervals, moved by `Tick`.
Of the statistics the model has what the programs decide on: `state`, `last_seen_ns`,
`cpu_runtime_ns`. An exiting thread passes the exit tracepoint first and leaves the CPU
later, which is where most of what is found below comes from. "traced" stands for the waits that
no branch of `sched_switch` knows (traced, parked, frozen), "thawed" for one that was woken
from them and has no CPU yet; `Halted` are both. `doomed` is history: whom the timer decided to reap while it
was halted.

**BatchReader.** The kernel's batch lookup copies whole buckets, each under its lock, and
gives up at one that no longer fits (`CopyBucket`, `CallAgain`); the reader's loop ends at
any return that is not 0, ENOENT (`WalkEnd`) or not (`WalkError`). `present` is history: the
keys that were in the map from the start of the walk until now. `Watch` conjoins a step
that changes the map with what that does to the history.

**FdTracker.** The kernel's part of openat (`OpenEnter`, `OpenInstall` or `OpenFails`) and
close (`CloseEnter`, `CloseLeave`) with the programs between: fexit inserts after the
number has been given away (`OpenExit`), fentry deletes before it is free. The iterator
reads (`IterRead`) and inserts (`IterInsert`) in two steps with the hooks live. `SocketCall`,
`Dup`, `Fork` and `Exit` change tables behind the hooks' back. `AttachOpen` to `LoadEnd` are
the loader, with a way out at each step that the code answers with a warning. `sound` is
history: the descriptors whose last change was one of those the code says it follows, whatever
the loader was at. `crossed` is history too: those of them that were closed between `IterRead`
and `IterInsert`, which the insert brings back.

**Daemon.** `Check` and the `Unpin` actions are the cleaning at the start of `main` and
the removal at its end; `Open`, `RemoveStale`, `PinMap` and `Attach` one collector of
`try_build_bpf`, whose maps are pinned one after the other; `Fail` is the `?` of the CPU
collector and `Warn` the warning of all others; `Shutdown` the signal loop. `Crash` is
possible everywhere. `remove_dir_all` takes one entry per step and may stop in the middle.
`pins` says for each pinned map which daemon's it is, so a stale one can be told.

**Clients.** Beside a daemon's steps, a client opens one map per step: `OpenHandle`,
`TakeMap`, `Opened` or `OpenedNothing`, `Close` in C, where a map that is not there is passed
over; `Connect`, `ReaderTake`, `ReaderOpened`, `ReaderDrop` in Rust, where it is an error.
`under` and `due` are history: the daemon that was ready all the while and the maps
of what it had built.

**IrqCounts.** The kernel counts an interrupt (`Raise`) and then comes by the hook: at
most one hard interrupt on a CPU, over at most one softirq, and a number on one CPU at a
time. The program goes on by map accesses: `Found` or `Missing`, `InsertCount`,
`LookupMeta`, `InsertMeta`; `NotHooked` is an interrupt before the attachment. The loader
attaches the hooks one after the other (`AttachHard`, `AttachSoft`), reads
/proc/interrupts number by number while the counting goes on (`ReadCell`, `FileRead` or
`FileFails`) and seeds counts and names key by key (`SeedCounts`, `SeedMeta`). `FromFile` is
the code's reading of the columns as CPUs 0, 1, 2, ..., whichever CPUs they are. The
reader adds up the CPUs of a key one at a time. `hits` and `seeded` are history: what
the attached programs have seen, and what the file has put in.

## 3. What is checked

Passing runs. Every property of them has a mutant in PROJECT.json: a change of the
mapped code that TLC shows to violate it.

| Run | Configuration | Properties |
|---|---|---|
| `cpu_seqlock` | 3 possible indices with a gap (CPUs 0 and 2), 1 reader, 2 callbacks, 2 ticks | `SeqlockInv` (why the protocol works), `ReadsAreAtomic` (refines `Snapshot`), `SnapshotsConsistent` (total, slots and nr_cpus of one snapshot agree), `SnapshotsMonotone` (no word goes back between two snapshots), `ReaderReturns` |
| `mem_one_cpu` | 1 CPU, 1 reader, 3 fields, 3 calls | `SnapshotFromOneCall`, `MemInv` (why), `ReadsAreAtomic` (refines `Snapshot`), `ReaderReturns` |
| `proc_single` | two processes of one thread, which sleep or are traced, one alive at load, one CPU, 1 unit of CPU time each | `LiveShown`, `NoOvercount`, `SoloReaped`, `DeadReaped`, `HeaderCounts` |
| `slots_alone` | 3 devices, 2 slots, 1 context, 6 visits | `SlotsDistinct`, `CountMatchesNames`, `IosRight`, `SlotInv` (why they hold) |
| `fd_files` | two processes of one thread, one there at load, 2 descriptors each, one file, one socket, 3 calls, one reader, 2 buckets | `LiveMap`, `SocketsKnown`, `WalkExact` |
| `clients_restart` | 2 daemons in a row, 3 collectors with 4 maps, one client | `ServedFresh`, `StalePinsCleaned`, `HandleFresh`, `ClosedReleases`, `ClosesOnlyItsOwn`; `BuildInv`, `CleanInv` (why they hold) |
| `irq_counts` | one hard interrupt and one softirq, 2 of each, CPUs 0 and 2 online of 3, one reader | `CountsEveryHit` (but for one per key and CPU), `NothingTwice`, `NamedIfCounted`, `SnapshotsMonotone` |

Each run checks the module's `TypeOK` too, which for the arrays includes that no index
leaves them. Deadlock is not checked: every model ends when its bounds are used up.

Runs that end in a violation. Each states what the repository says, and the trace is
what its code does.

| Run | Says | Does |
|---|---|---|
| `mem_two_cpus` | `procfast-common/src/lib.rs:46`: "Odd = BPF is writing, even = consistent" | two CPUs in `fexit_si_meminfo` each add one; in the middle of both the counter is even and a reader takes a mixture |
| `proc_thread_exit` | `proc.bpf.c:369`: the timer reaps "entries that have been dead for >2 intervals" | the leader's exit, or any thread's last switch, marks the whole process dead; if the other threads sleep for two intervals the entry of a living process is deleted and never made again |
| `proc_leak` | `proc.bpf.c:378`: "Clean up thread runtime tracking for all exiting tasks" | the exiting thread's own last `sched_switch` inserts the baseline again |
| `slots_shared` | `net.bpf.c:33`: "the right slot" | two programs read the same next slot; the devices share it for the daemon's life |
| `irq_history` | `seed.rs:4`: "the output is complete from the first query" | an interrupt between the attachment and the seeding makes its entry first, and the seed's NO_EXIST drops the history of that number |

Five more disagreements were found and have no run of their own; where a run is named, TLC finds
it with that run's constants.

- *A living process is booked as dead* (`OnlyDeadReaped`, `proc_single`). A process of one thread that
  leaves the CPU traced, parked or frozen is in none of the states `sched_switch` tests for, and the
  last branch (`proc.bpf.c:295-296`) marks it dead. Clients hide it, and after two intervals without a CPU the timer
  deletes its entry, against "entries that have been dead for >2 intervals" (:370);
  nothing makes it again. `LiveShown` and `SoloReaped` except exactly this: who waits so, and
  whom the timer found so.
- *A closed file comes back* (`ClosedStaysClosed`, `fd_files`). The close hook is attached before the
  iterator runs. The iterator reads a file, the file is closed and the hook deletes nothing, and the insert
  with BPF_NOEXIST (`fd.bpf.c:164`) finds the key free: the entry stays until the number is opened
  or closed again, against "remove entry on close" (:27) and "a live hash map" (:14). `LiveMap` excepts
  exactly these (`crossed`).
- *A zombie stays for ever* (`GoneForgotten`, `proc_single`). The iterator enters it as sleeping, and the reaper looks for
  entries marked dead.
- *A client of a dead daemon* (`clients_restart`).
  `procfast_open` "Returns NULL if procfast daemon is not running"
  (`procfast_client.h:267`), but the directory and the pins outlive a daemon that was
  killed, and the client gets a handle of maps that nobody writes.
- *Closing a handle closes descriptor 0.* `procfast_close` is to "free resources" (:337), but a
  mapped map that was not there has left calloc's 0 in its fd field; `ClosesOnlyItsOwn` says when
  this does not happen.

### Bounds, and why they are enough

- *Readers.* Readers change nothing shared, so a second one adds no behaviour of the
  first; one is checked, and the proofs are for any number.
- *Callbacks, ticks.* A torn read needs a copy that overlaps one write, an older
  snapshot after a newer one needs two: `MaxPasses = 2`. Two ticks make two different
  counts on two CPUs or on one.
- *CPUs.* Two that exist with one between them that does not: the gap, the last slot
  in use below the end of the array, and both ends of the loop. A model of all sizes is
  the proof.
- *Memory.* `NFields = 3` gives a first, a middle and a last word; `mem_two_cpus` needs
  no more than two of everything.
- *Devices.* One more than there are slots, and visits enough to give all slots away and
  to come back to each.
- *Processes.* Two processes make a fork by one while the iterator or the timer is at the
  other; `MaxAge = 3` is one more than the reaper's limit, and ages above are alike.
  `MaxRuntime = 1`: one unit, before a thread's baseline is read or after, is enough to
  be counted twice, as the mutant of `NoOvercount` shows. `MaxEvents = 0`: the ring buffer is full,
  which nothing depends on. A thread sleeps or is traced; "stopped" is a sleep that the
  branches know, and is in the proofs.
- *Pids.* `MaxLives = 1`: no pid comes back. With two lives `LiveShown` fails, since the
  reaper decides on a value and deletes by key (hazard `proc.bpf.c:428`). It takes a pid
  given out again within one run of the callback.
- *Daemons.* One that leaves pins behind and one that finds them; the proofs are for any
  number. Which of the two is first is a symmetry (`AnyDaemon`); the runs with it have
  no liveness property. One client, with one handle or reader: clients change nothing shared.
- *Maps.* The CPU collector's one map, a collector with two (the header and the table the
  C client skips without it) and one with a map that is not mmapped.
- *Descriptors.* Two of each of two processes, of which one may be forked or come to the
  iterator after the other. `MaxCalls = 3`: open, close and open again of one number, or
  a call by somebody else between two. Two buckets make a walk that is cut between them.
  Clients read when the loader is through, as they do behind a daemon that is ready.
- *Interrupts.* One number of each level: a hard interrupt over a softirq on one CPU, and
  each alone against the loader and another CPU. Two of a number make a first one, that
  finds no entry, and one after it. The CPU that is offline lies between the two others,
  so the columns of the file are not the CPUs. Both keys fit the map; a full one is in the
  proofs only.
- *Threads.* `FdTracker` runs with one thread per process. With two, `LiveMap` and
  `SocketsKnown` fail: one thread closes or opens again the number another's openat has
  just returned, before the exit program inserts it (hazard `fd.bpf.c:83`).

### Fairness

`CpuCollector` and `MemCollector`: a callback or a program that has begun goes on to its
end (softirq or the probed function's context; the verifier allows no loop without a
bound) and a reader inside `snapshot()` gets the CPU. Nothing says that a timer fires or
that somebody calls `si_meminfo`; a reader that is starved for ever by callbacks is
excluded by the bound on callbacks, in the kernel by the interval between them.
`ProcTracker`: the loader reads its iterator to the end, time passes, and the timer
callback runs when it is due and runs to its end. Nothing is assumed of the tasks, which
need not run, exit or be waited for. `Daemon`, `Clients`,
`FdTracker`, `IrqCounts` and `SlotTable` state no liveness.

## 4. What is proved

TLAPS proves the following for every value of the constants that satisfies the modules'
assumptions (numbers are numbers, `Possible` is a set of indices, the empty name is not
a device; collectors share no map, and the CPU collector pins `cpu_data` and nothing
else).

**CpuCollector_proofs.** `TypeCorrect`, `SeqlockSafe` (`SeqlockInv`) and
`SnapshotIsAtomic`: the collector with its readers implements `Snapshot`. `SeqlockInv`
is inductive together with `TypeOK`. Its writer's part ties the parity of the counter to
the callback and the even counter to the published region. That says nothing of a copy
half done, so the reader's part adds it: the counter seen first was even and is not
larger than the counter now, and as long as they are equal each word copied is still the
region's. When the second load agrees, the counter is even, so no callback runs, the
region is the published one and the copy is the region: `ReadSeq2` is `Read` of
`Snapshot`, `SeqWriteEnd` is `Publish`, all other steps stutter.

`EverySnapshotAddsUp` (`SnapshotsConsistent`) and `NoWordGoesBack` (`SnapshotsMonotone`) are about
what is in the region, each with an invariant over the one above. `RegionInv` follows the
callback's loop: `total` is the sum of the slots it has been through, `nr` is one more than
the last of them in use, and behind the loop `nr_cpus` is `nr`; what is published
is then consistent, and a snapshot is something published. `GrowthInv` has two ends: the
words published lie behind the clocks they were read from, and a word stored again in
this callback lies between the published one and its clock. So a publication
moves no slot back, nor `total` with them.

**Sums.** `total`, the irq reader's addition and a group's CPU time are sums over sets of any
size, in the modules the community's `SumFunctionOnSet`. The lemmas about it are proved from
its definition: the recursion has a solution, the sum does not depend on the order
(`SumIsCount`: it is the cardinality of a set of units), a set splits (`SumSplit`), a larger
function has the larger sum (`SumMonotone`, `SumMoved`, `SumChanged`). The library's induction
theorems take a predicate as a parameter, which the provers cannot instantiate; `WFMin`
takes the set of counterexamples instead and says that it has a least element
(`StrongInduction`).

**Clients_proofs, of the daemon.** `TypeCorrect`, `BuildInvariant` (`BuildInv`), `FreshMapsServed`
(`ServedFresh`), `CleanInvariant` (`CleanInv`), `StaleCleaned` (`StalePinsCleaned`). What a
former daemon has left is arbitrary, so `BuildInv` says nothing of pins in general. It says
that daemons exclude each other, that the collectors built are pinned by the daemon that
built them, that so are the maps of the one being built except those still to pin, that
this one is neither among the built nor the outstanding ones (so `RemoveStale`, as
collectors share no map, takes no pin that counts), and that the CPU collector is
outstanding, in the making or built (its failure ends the daemon).
`StalePinsCleaned` is about everything pinned and needs another argument, `CleanInv`: the
CPU collector comes first and has one map, so `cpu_data` is pinned before anything else
is, and between two daemons it is there if anything is; `is_pinned`, which looks for it
alone, therefore misses nothing, and what builds after the cleaning has nobody else's pins
about it. `StaleCleaned` holds unless an unpinning was cut short, by a kill or an error (the
history variable `broken`): `remove_dir_all` may take `cpu_data` first, the next daemon
then finds nothing to clean, and the maps of collectors it does not pin itself stay
beside its own as long as it runs.

**SlotTable_proofs.** Under `Alone`, which says that there is one context:
`SlotInvariant` (`SlotInv`), `TypeCorrect`, `Distinct` (`SlotsDistinct`), `Counted`
(`CountMatchesNames`), `Booked` (`IosRight`). The properties are not inductive: nothing
in `SlotsDistinct` says that the next slot is free. The invariant has the map as a
bijection onto the slots below `Used`, with its cardinality, which is why an insert
never finds the map full, and one clause for each place a program can be in. The run
`slots_shared` shows that `Alone` cannot be dropped.

`OverlapInvariant` (`OverlapInv`) is what is left without it, in any finite number of
contexts: each program has compared the counter with the array's size before it moves it,
so no program stores outside the array, but as many as there are contexts may have compared before the
first one moves it. `next` and the count pass the size by less than that number, and no better
bound holds: with two contexts and one slot TLC finds a count of 2. The programs keep
their own stores inside; a client that goes through the array up to the count needs the
look at its size that the CLI and the exporter take (`procfast-cli/src/main.rs:194`,
`procfast-exporter/src/main.rs:149`).

**MemCollector_proofs.** `TypeCorrect`; under `OneCpu`, `MemInvariant` (`MemInv`) and
`OneCallPerSnapshot` (`SnapshotFromOneCall`). The argument is `CpuCollector`'s with a
call's number in the place of the published region, and it leaves `available_bytes` out,
which is stored at any time. `mem_two_cpus` shows that `OneCpu` cannot be dropped.
`SnapshotIsAtomic` (`ReadsAreAtomic`), also under `OneCpu`, is the refinement of `Snapshot`. The
abstract region changes when a call's program begins: while the program stores, the
mapping `Published` is the region its call will leave, since no copy that ends then is
returned. A snapshot is thus not of some one call but of the last.

**ProcTracker_proofs.** `HeaderCounted` (`HeaderCounts`) needs no assumption at all: what the
timer has counted and not reaped is in the map and behind it, and nobody but the timer
takes entries away. `TypeCorrect` needs that a thread id is not given out twice
(`OneLife`), or the iterator may hold more CPU time than the id's new owner has.

`StateInvariant` (`StateInv`) and what follows from it is about the processes of one thread
(`Solo`), next to processes of any number of threads. What happens to the processes with more
threads is the run `proc_thread_exit` and the hazards at `proc.bpf.c:391` and `:428`. `StateInv`
ties the state of an entry to the state of its thread: a living one is marked dead only while it is halted
(`Halted`), since it is marked running when it gets a CPU again. And it ties the reaper's victim to a process that
is dead and stays it between the decision and the deletion, or was halted at the decision (`doomed`), which is the disagreement at
`proc.bpf.c:295` above. `LivingNotReaped` (`SoloReaped`) says so of each step. `LivingShown` (`LiveShown`, of the same processes) adds
`EntryInv`, by which a living process is in the map, or the iterator still comes to it, or it never
came to it (`Unread`), or the timer has taken it for a dead one (`doomed`); it
needs `Room` for as many processes as there are ids.

`NothingOvercounted` (`NoOvercount`) is about groups of any number of threads, traced or not.
`RuntimeInv` says that a process has run as long as its threads together, and that its entry was charged at
most the sum of their baselines, as long as no thread of it has exited. A switch adds to the entry
what it adds to the baseline. The iterator moves a baseline up and charges nothing, and it
moves none down: that is why its BPF_NOEXIST matters. An entry made anew is charged nothing.

**FdTracker_proofs.** `TypeInvariant`, `TypeCorrect`; `WalkInvariant` (`WalkInv`) and
`WalksAreExact` (`WalkExact`) for any map, bucket function and batch size, whatever is
inserted and deleted meanwhile; under `OneThread`, `FdInvariant` (`FdInv`), `MapIsLive`
(`LiveMap`) and `SocketsAreKnown` (`SocketsKnown`). `LiveMap` leaves out what was closed while the iterator
held it (`crossed`), the disagreement at `fd.bpf.c:164` above. `FdInv` has a part for calls between
their two programs, one for what the iterator holds, one that says of each sound
descriptor that the map agrees, or a program or the iterator has its insert in hand, and
one for sockets, which are made once and enumerated after the files.

**Clients_proofs, of the clients.** `ClientTypeCorrect`, `HandleInvariant` (`HandleInv`),
`HandlesAreFresh` (`HandleFresh`), `NothingLeftOpen` (`ClosedReleases`), `NothingElseClosed`
(`ClosesOnlyItsOwn`), for any daemons, collectors, maps and clients. The assumption on
`OpenOrder` is the C code's: the map it skips with the header is the same collector's.

**IrqCounts_proofs.** `TypeCorrect`, `CountInvariant` (`CountInv`), `EveryHitCounted`
(`CountsEveryHit`), `CountedIsNamed` (`NamedIfCounted`), for any interrupts, CPUs, columns and
capacity. `CountInv` says what is known of a key that is not in the map: it was
seeded nowhere, and seen only by the programs that are about to insert it. One of these
wins; each other one loses its one interrupt.

`NoneCountedTwice` (`NothingTwice`) is about totals, since the file's columns may go to the wrong
CPUs. Its invariant `OriginInv` keeps the kernel ahead: each of its counters has what the programs have
seen and one that is on its way to them, and what the file says. A number is handled in one
place at a time, so when it is seeded one interrupt at most is on the way that the
file has too. `TotalsNeverGoBack` (`SnapshotsMonotone`) is about a reader who adds while the
programs count: by `ShownInv`, what it has added up and what it has still to add are together no less
than what it showed last, and what it has added up is no more than what is there now.

The invariants that no run lists were checked with TLC before they were proved: `RegionInv`, `GrowthInv`, `ShownInv` and
`OriginInv` with the constants of the runs, `OverlapInv` with two contexts, and those of
`ProcTracker` with a second thread in one process.

Only model-checked: the liveness properties `ReaderReturns` (of both collectors) and `DeadReaped`, which
the prover cannot do. Every other property of a passing run is a theorem, under the
assumptions named with it.

## 5. What is left out

- *Memory order.* Loads and stores happen in the program's order, as x86 and the code's
  fences give it. The writer's compiler barriers on a weakly ordered machine are not
  modelled.
- *Tracepoint programs are atomic* with their event. Two CPUs in `sched_switch` for
  threads of one process add to `cpu_runtime_ns` atomically, as the code does, but may
  write `state` in either order; the model has them one after the other.
- *Numbers have no width.* The counters of 64 bits do not overflow in a machine's life.
  Subtractions that could go below zero are kept so by a property (`TypeOK`,
  `HeaderCounts`) or listed as hazards: the reaper's deadline on a machine up for less
  than two intervals, `sum_exec_runtime` after an exec by a thread that is not the leader.
- *Process tracker.* exec by a non-leader, memory and I/O statistics, and names are not
  there, nor the entry of pid 0 that the idle tasks share in `thread_runtime`. The four tracepoints are
  attached in one instant, where the loader takes four (`procfast/src/lib.rs:403-410`). `NoOvercount` speaks of processes none of whose threads has exited: the iterator
  can put back a baseline that the exit tracepoint has deleted, and the last slice is then
  counted twice. A zombie the iterator finds is entered as sleeping and stays for ever
  (`GoneForgotten` says it should not; no run is kept for it). `proc_header`'s own
  sequence counter has one writer, the timer, and is `CpuCollector`'s protocol over again.
- *Ring buffer.* Events are counted and dropped at its limit. `drain_events` `read()`s
  the map's file descriptor, which the kernel refuses, so nothing takes them out and no
  part of the repository depends on them.
- *Interrupts.* Softirqs are not seeded, in the code as here. The kernel counts once for each run of a
  program; `handle_edge_irq` may run the handlers again for an edge that came meanwhile. Of the
  errors the seeding drops, a key that is there and a full map are modelled; a lookup that
  fails, for which `snapshot()` shows 0 (`procfast/src/irq.rs:34-36`), is not, as keys are never deleted. `/proc/interrupts` may list
  lines that are not numbers, which the code skips. The capacity of the maps is there, and in the proofs; a
  number that fills one and not the other is `NamedIfCounted`'s exception, and the run has room for both keys.
- *Readers of the slot tables.* No program of the three touches the counter, so a
  snapshot of them is any interleaving of loads; nothing is claimed of it. Two devices
  with one key (an ifindex is unique in a network namespace only) are one device here.
- *Daemon and clients.* One daemon runs at a time, so one that removes the directory
  under another is not there. The unit's `rm -rf` before and after the daemon, file modes and
  permissions (`make_public`), seeding, and an mmap that fails are not there. `Open` does not
  tell apart the collectors that run their iterators before their maps are pinned.
- *Descriptors.* The table has no capacity, although nothing deletes the entries of
  processes that exited and it fills up in time. What dup2, socket, fork and exit leave in
  it is in the model, and `LiveMap` claims nothing of these descriptors. Times are left
  out; a path is the file it names. `Sockets` are those the three iterators come to: TCP, UDP and Unix, of the
  loader's network namespace, within the capacity of `sock_entries`.
- *Batch reads* are checked over `fd_entries`; the loops over the other tables are
  the same code. A key that is deleted and inserted again during the walk may be missed.
  A key's bucket never changes, as in the kernel's hash tables, which do not grow.
- *Lookups of one process, descriptor or socket* are one system call and one entry.
- *Not modelled at all:* the command line tools, the exporter, lsof and the benchmark (formatting of what is read); the shared types;
  `fallback.rs` (returns an error); `vmlinux.h` (generated: 166,894 of the 169,499
  lines of C in the tree are its type declarations); `patches/` (of other
  programs). The cgroup collector and the preload library are named by the loader or the
  README but their BPF and C sources are not in the tree.

## 6. Plan

Done, in this order: `Snapshot`, `SeqReader`, `CpuCollector` and its proofs,
`MemCollector`, `ProcTracker`, `SlotTable` and its proofs, `Daemon` and its proofs,
`BatchReader` and `FdTracker`, `Clients`, `IrqCounts` and its proofs; the proofs of `Clients`,
`MemCollector`, `FdTracker` and `ProcTracker`; `Sums` and the theorems that need it, the
refinement of `Snapshot` by `MemCollector`, groups of any number of threads in the proofs of `ProcTracker`,
and any number of contexts in those of `SlotTable`.

Left:

1. `ProcTracker` with pids that come back (`MaxLives = 2`): what still holds of `LiveShown`
   when the reaper deletes the entry of a new owner (`proc.bpf.c:428`), and exec by a
   thread that is not the leader (`:269`), whose baseline is another thread's.
2. The reaper's deadline on a machine that has just come up (`proc.bpf.c:478`), with the
   uptime as a variable; it multiplies the states of `proc_single`, which is near the
   bound on a run's time.
3. The capacity of `fd_entries` (`fd.bpf.c:94`), with processes that exit.
4. Two daemons at once (`procfastd/src/main.rs:78`): `Daemon` has them one after the other,
   and `BuildInv` rests on it.
5. What holds of `LiveMap` where processes have several threads, as `OverlapInv` does for
   the slot tables: which descriptors a race of two calls can leave wrong, and for how long.

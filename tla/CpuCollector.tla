----------------------------- MODULE CpuCollector -----------------------------
(***************************************************************************)
(* The CPU collector (procfast-bpf/src/cpu.bpf.c): a BPF timer callback    *)
(* that rewrites the mmapped region cpu_data under its sequence counter,   *)
(* while userspace readers (SeqReader) copy the region without a lock.     *)
(* There is one timer element, so one callback runs at a time.             *)
(*                                                                         *)
(* A slot of per_cpu stands for its ten counters by one number, which is   *)
(* zero exactly when the user, system and idle times of the CPU all are.   *)
(***************************************************************************)
EXTENDS Naturals, Functions

CONSTANTS
  Readers,
  MaxCpus,    \* PROCFAST_MAX_CPUS
  Possible,   \* the CPUs bpf_per_cpu_ptr finds: the others give NULL
  MaxTicks,   \* bound: clock ticks in a behaviour
  MaxPasses   \* bound: runs of the callback in a behaviour

CPUs == 0 .. MaxCpus - 1

ASSUME CpuAssumption ==
  /\ MaxCpus \in Nat
  /\ Possible \subseteq CPUs
  /\ MaxTicks \in Nat
  /\ MaxPasses \in Nat

Timestamp == <<"timestamp_ns", 0>>
Total     == <<"total", 0>>
NrCpus    == <<"nr_cpus", 0>>
Slot(i)   == <<"per_cpu", i>>
Slots     == {Slot(i) : i \in CPUs}
CpuWords  == {Timestamp, Total, NrCpus} \cup Slots

VARIABLES
  seq, mem,                          \* the region cpu_data
  rpc, seq1, copied, local, got,     \* the readers
  wpc,       \* the callback: "idle", "stamp", "clear", "zero", "read", "add", "count", "end"
  cpu, nr,   \* its loop index i and its nr
  cpustat,   \* the kernel's counter of each CPU (kernel_cpustat)
  now,       \* the kernel's monotonic clock
  published  \* history: mem when the counter last became even

INSTANCE SeqReader WITH Words <- CpuWords

readers    == <<rpc, seq1, copied, local, got>>
writerVars == <<wpc, cpu, nr>>
kernelVars == <<cpustat, now>>
vars == <<seq, mem, readers, writerVars, kernelVars, published>>

Store(w, v) == mem' = [mem EXCEPT ![w] = v]

Goto(label) == wpc' = label

Init ==
  /\ seq = 0
  /\ mem = Zeroes
  /\ published = Zeroes
  /\ ReaderInit
  /\ wpc = "idle" /\ cpu = 0 /\ nr = 0
  /\ cpustat = [i \in CPUs |-> 0]
  /\ now = 0

(***************************************************************************)
(* The kernel accounts time to a CPU.                                      *)
(***************************************************************************)
Tick(i) ==
  /\ now < MaxTicks
  /\ now' = now + 1
  /\ cpustat' = [cpustat EXCEPT ![i] = @ + 1]
  /\ UNCHANGED <<seq, mem, readers, writerVars, published>>

(***************************************************************************)
(* collect_cpu_stats, one store at a time.                                 *)
(***************************************************************************)
\* MUTANT of SeqWriteBegin: the first PROCFAST_SEQ_WRITE_BEGIN is missing and
\* the end adds twice.
SeqWriteBeginLate ==
  /\ wpc = "idle" /\ seq < 2 * MaxPasses
  /\ Goto("stamp")
  /\ UNCHANGED <<seq, mem, cpu, nr, readers, kernelVars, published>>

\* The timer fires.
SeqWriteBegin ==
  /\ wpc = "idle" /\ seq < 2 * MaxPasses
  /\ Goto("stamp")
  /\ seq' = seq + 1
  /\ UNCHANGED <<mem, cpu, nr, readers, kernelVars, published>>

Stamp ==
  /\ wpc = "stamp"
  /\ Goto("clear")
  /\ Store(Timestamp, now)
  /\ UNCHANGED <<seq, cpu, nr, readers, kernelVars, published>>

\* MUTANT of ClearTotal: the memset of total is missing.
KeepTotal ==
  /\ wpc = "clear"
  /\ Goto(IF CPUs = {} THEN "count" ELSE "zero")
  /\ cpu' = 0 /\ nr' = 0
  /\ UNCHANGED <<seq, mem, readers, kernelVars, published>>

ClearTotal ==
  /\ wpc = "clear"
  /\ Goto(IF CPUs = {} THEN "count" ELSE "zero")
  /\ cpu' = 0 /\ nr' = 0
  /\ Store(Total, 0)
  /\ UNCHANGED <<seq, readers, kernelVars, published>>

ZeroSlot ==
  /\ wpc = "zero"
  /\ Goto("read")
  /\ Store(Slot(cpu), 0)
  /\ UNCHANGED <<seq, cpu, nr, readers, kernelVars, published>>

\* read_one_cpu: a CPU without a kernel_cpustat leaves its slot zero.
ReadOneCpu ==
  /\ wpc = "read"
  /\ Goto("add")
  /\ IF cpu \in Possible THEN Store(Slot(cpu), cpustat[cpu]) ELSE UNCHANGED mem
  /\ UNCHANGED <<seq, cpu, nr, readers, kernelVars, published>>

\* MUTANT of AddStats: the loop runs once more, to i = PROCFAST_MAX_CPUS.
AddStatsOnceMore ==
  /\ wpc = "add"
  /\ Goto(IF cpu < MaxCpus THEN "zero" ELSE "count")
  /\ cpu' = IF cpu < MaxCpus THEN cpu + 1 ELSE 0
  /\ IF mem[Slot(cpu)] # 0
       THEN Store(Total, mem[Total] + mem[Slot(cpu)]) /\ nr' = cpu + 1
       ELSE UNCHANGED <<mem, nr>>
  /\ UNCHANGED <<seq, readers, kernelVars, published>>

\* add_stats and the end of the loop's body.
AddStats ==
  /\ wpc = "add"
  /\ Goto(IF cpu + 1 < MaxCpus THEN "zero" ELSE "count")
  /\ cpu' = IF cpu + 1 < MaxCpus THEN cpu + 1 ELSE 0
  /\ IF mem[Slot(cpu)] # 0
       THEN Store(Total, mem[Total] + mem[Slot(cpu)]) /\ nr' = cpu + 1
       ELSE UNCHANGED <<mem, nr>>
  /\ UNCHANGED <<seq, readers, kernelVars, published>>

Count ==
  /\ wpc = "count"
  /\ Goto("end")
  /\ Store(NrCpus, nr)
  /\ UNCHANGED <<seq, cpu, nr, readers, kernelVars, published>>

\* MUTANT of SeqWriteEnd: a path out of the callback that skips the second add.
SeqWriteNoEnd ==
  /\ wpc = "end"
  /\ Goto("idle")
  /\ nr' = 0
  /\ published' = mem
  /\ UNCHANGED <<seq, mem, cpu, readers, kernelVars>>

\* The callback ends by starting its timer again.
SeqWriteEnd ==
  /\ wpc = "end"
  /\ Goto("idle")
  /\ seq' = seq + 1
  /\ nr' = 0
  /\ published' = mem
  /\ UNCHANGED <<mem, cpu, readers, kernelVars>>

Callback ==
  \/ Stamp \/ ClearTotal
  \/ ZeroSlot \/ ReadOneCpu \/ AddStats
  \/ Count \/ SeqWriteEnd

ReaderStep(r) == Reading(r) /\ UNCHANGED <<writerVars, kernelVars, published>>

ReaderCall(r) == Call(r) /\ UNCHANGED <<writerVars, kernelVars, published>>

Next ==
  \/ SeqWriteBegin
  \/ Callback
  \/ \E i \in Possible : Tick(i)
  \/ \E r \in Readers : ReaderCall(r) \/ ReaderStep(r)

Spec == Init /\ [][Next]_vars

\* A callback that has begun runs to its end (softirq context, no loop without a
\* bound in it), and the scheduler runs a reader that is inside snapshot().
Fairness ==
  /\ WF_vars(Callback)
  /\ \A r \in Readers : WF_vars(ReaderStep(r))

FairSpec == Spec /\ Fairness

(***************************************************************************)
(* Properties                                                              *)
(***************************************************************************)

\* Every variable has its type; the callback's index stays inside per_cpu.
TypeOK ==
  /\ seq \in Nat
  /\ mem \in [CpuWords -> Nat]
  /\ published \in [CpuWords -> Nat]
  /\ ReaderTypeOK
  /\ wpc \in {"idle", "stamp", "clear", "zero", "read", "add", "count", "end"}
  /\ cpu \in Nat
  /\ wpc \in {"zero", "read", "add"} => cpu \in CPUs
  /\ nr \in Nat
  /\ cpustat \in [CPUs -> Nat]
  /\ now \in Nat

\* Why the protocol works.  The writer's part: the counter is even exactly when
\* no callback runs, and then the region is the published one.
WriterInv ==
  /\ seq % 2 = 0 <=> wpc = "idle"
  /\ wpc = "idle" => mem = published

\* The reader's part: it starts a copy afresh after each load of the counter, and
\* as long as the counter is what it saw first, each word it has copied is still
\* the region's.
ReaderInv ==
  \A r \in Readers :
    /\ rpc[r] # "copy" => copied[r] = {}
    /\ rpc[r] = "copy" =>
         /\ seq1[r] <= seq
         /\ seq1[r] % 2 = 0
         /\ seq1[r] = seq => \A w \in copied[r] : local[r][w] = mem[w]

SeqlockInv == WriterInv /\ ReaderInv

\* snapshot() is atomic (collector.rs: "Read a consistent snapshot"): with the
\* sequence counter hidden, every read returns the last published region whole,
\* at one moment between its call and its return.
Abstract == INSTANCE Snapshot WITH Words <- CpuWords, current <- published
ReadsAreAtomic == Abstract!Spec

\* The consumers' arithmetic on one snapshot (total next to per_cpu, "only
\* indices 0..nr_cpus are valid"): total is the sum of the slots, no slot at or
\* above nr_cpus holds anything and the last one below it does.
Consistent(region) ==
  /\ region[Total] = SumFunctionOnSet(region, Slots)
  /\ region[NrCpus] <= MaxCpus
  /\ \A i \in CPUs : i >= region[NrCpus] => region[Slot(i)] = 0
  /\ region[NrCpus] > 0 => region[Slot(region[NrCpus] - 1)] # 0
SnapshotsConsistent == \A r \in Readers : Consistent(got[r])

\* Why they are: while the callback is in its loop, total is the sum of the slots it
\* has been through and nr is one more than the last of them in use.
SlotsBelow(i) == {Slot(j) : j \in 0 .. i - 1}
AddedUp(i) ==
  /\ mem[Total] = SumFunctionOnSet(mem, SlotsBelow(i))
  /\ nr <= i
  /\ \A j \in 0 .. i - 1 : j >= nr => mem[Slot(j)] = 0
  /\ nr > 0 => mem[Slot(nr - 1)] # 0

RegionInv ==
  /\ Consistent(published) /\ SnapshotsConsistent
  /\ wpc \in {"zero", "read", "add"} => AddedUp(cpu)
  /\ wpc \in {"count", "end"} => AddedUp(MaxCpus)
  /\ wpc = "end" => mem[NrCpus] = nr

\* cmd_top subtracts the previous snapshot from the new one without a check
\* (procfast-cli/src/main.rs): no word of a reader's snapshots ever goes back.
SnapshotsMonotone ==
  [][\A r \in Readers : \A w \in CpuWords : got'[r][w] >= got[r][w]]_got

\* Why it does not: the published words are no further than the clocks they were read
\* from, and a word the callback has stored again is between the two.
Redone(i) ==
  \/ wpc \in {"zero", "read"} /\ i < cpu
  \/ wpc = "add" /\ i <= cpu
  \/ wpc \in {"count", "end"}
CpuClock(i) == IF i \in Possible THEN cpustat[i] ELSE 0

GrowthInv ==
  /\ published[Timestamp] <= now
  /\ \A i \in CPUs : published[Slot(i)] <= CpuClock(i)
  /\ \A r \in Readers : \A w \in CpuWords : got[r][w] <= published[w]
  /\ wpc \notin {"idle", "stamp"} => mem[Timestamp] \in published[Timestamp] .. now
  /\ wpc = "read" => mem[Slot(cpu)] = 0
  /\ \A i \in CPUs : Redone(i) => mem[Slot(i)] \in published[Slot(i)] .. CpuClock(i)

\* A snapshot() that was called returns, once the callbacks leave it the time:
\* no callback leaves the counter odd behind it.
ReaderReturns == \A r \in Readers : rpc[r] # "out" ~> rpc[r] = "out"
=============================================================================

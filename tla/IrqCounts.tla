------------------------------ MODULE IrqCounts ------------------------------
(***************************************************************************)
(* The interrupt counters: the programs of procfast-bpf/src/irq.bpf.c on   *)
(* every CPU, hard interrupts over softirqs, a step per access to a map;   *)
(* the loader that attaches them (procfast/src/lib.rs) and then seeds the  *)
(* maps from /proc/interrupts (seed.rs, irq.rs); and a reader that adds up *)
(* the counts of a key CPU by CPU.                                         *)
(*                                                                         *)
(* A key is an interrupt number, or SOFTIRQ_BASE with a softirq's vector.  *)
(* counts is a per-CPU hash: a key in it has a number for every possible   *)
(* CPU.  metadata is the set of keys that have a name.  Nothing is ever    *)
(* deleted from either.                                                    *)
(***************************************************************************)
EXTENDS Naturals, Sequences, FiniteSets, Functions

CONSTANTS
  Hard,      \* the interrupt numbers that have a handler
  Soft,      \* the softirq vectors
  None,
  NrCpus,    \* possible CPUs
  Columns,   \* those of them that are online, as /proc/interrupts has its columns
  MaxIrqs,   \* PROCFAST_MAX_IRQS, the capacity of either map
  MaxHits    \* bound: interrupts of one key

Keys == Hard \cup Soft
Cpus == 0 .. NrCpus - 1
Online == {Columns[i] : i \in 1 .. Len(Columns)}

ASSUME IrqAssumption ==
  /\ Hard \cap Soft = {}
  /\ None \notin Keys
  /\ NrCpus \in Nat
  /\ Columns \in Seq(Cpus)
  /\ \A i, j \in 1 .. Len(Columns) : i < j => Columns[i] < Columns[j]
  /\ MaxIrqs \in Nat
  /\ MaxHits \in Nat

\* Where a program can run: at each level of each CPU.
Levels   == {"hard", "soft"}
Contexts == Online \X Levels
KeysOf(level) == IF level = "hard" THEN Hard ELSE Soft

VARIABLES
  kstat,     \* the kernel's own count of each key on each CPU
  ctx,       \* per context: the interrupt it handles and the program's next access
  hooks,     \* the levels whose program is attached
  counts,    \* irq_counts
  metadata,  \* irq_metadata
  lpc,       \* the loader: "attach_hard", "attach_soft", "read", "seed", "done"
  file,      \* what the loader has read of /proc/interrupts: [<<key, cpu>> -> count]
  todo,      \* keys of it still to seed
  naming,    \* the key whose counts are seeded and whose name is not, or None
  rkey, rcpu, racc,  \* the reader: the key whose counts it adds up, the next CPU, the sum
  shown,     \* history: the total of each key that was shown last
  hits,      \* history: interrupts the attached program has seen, per key and CPU
  seeded     \* history: what the seeding has put into counts, per key and CPU

kernelVars == <<kstat, ctx>>
mapVars    == <<counts, metadata>>
loaderVars == <<lpc, file, todo, naming>>
readerVars == <<rkey, rcpu, racc, shown>>
vars == <<kernelVars, hooks, mapVars, loaderVars, readerVars, hits, seeded>>

Zeroes == [i \in Cpus |-> 0]
Idle   == [pc |-> "idle", key |-> None]

Init ==
  /\ kstat \in [Keys -> {f \in [Cpus -> 0 .. 1] : \A c \in Cpus \ Online : f[c] = 0}]
  /\ ctx = [x \in Contexts |-> Idle]
  /\ hooks = {}
  /\ counts = [k \in {} |-> Zeroes] /\ metadata = {}
  /\ lpc = "attach_hard"
  /\ file = [cell \in {} |-> 0] /\ todo = Hard /\ naming = None
  /\ rkey = None /\ rcpu = 0 /\ racc = 0
  /\ shown = [k \in Keys |-> 0]
  /\ hits = [k \in Keys |-> Zeroes]
  /\ seeded = [k \in Keys |-> Zeroes]

(***************************************************************************)
(* The kernel: it counts an interrupt and then comes by the hook.  A CPU   *)
(* handles one hard interrupt at a time, above at most one softirq, and a  *)
(* number is handled on one CPU at a time; one count, one program.         *)
(***************************************************************************)
Total(f) == SumFunctionOnSet(f, Cpus)

Raise(c, level, k) ==
  /\ ctx[<<c, "hard">>] = Idle /\ ctx[<<c, level>>] = Idle
  /\ level = "hard" => \A d \in Online : ctx[<<d, "hard">>].key # k
  /\ Total(kstat[k]) < MaxHits
  /\ kstat' = [kstat EXCEPT ![k][c] = @ + 1]
  /\ ctx' = [ctx EXCEPT ![<<c, level>>] = [pc |-> "raised", key |-> k]]
  /\ UNCHANGED <<hooks, mapVars, loaderVars, readerVars, hits, seeded>>

(***************************************************************************)
(* fentry_handle_irq_event and softirq_entry.                              *)
(***************************************************************************)
Level(x) == x[2]
Key(x)   == ctx[x].key

\* The program at x is at this access, and no hard interrupt is on top of it.
At(x, label) ==
  /\ ctx[x].pc = label
  /\ Level(x) = "soft" => ctx[<<x[1], "hard">>] = Idle

Goto(x, label) == ctx' = [ctx EXCEPT ![x].pc = label]
Return(x)      == ctx' = [ctx EXCEPT ![x] = Idle]

\* bpf_map_update_elem with BPF_NOEXIST, of counts: nothing if the key is there
\* or the map is full.
Admits(k) == k \notin DOMAIN counts /\ Cardinality(DOMAIN counts) < MaxIrqs
With(k, values) == [e \in DOMAIN counts \cup {k} |-> IF e = k THEN values ELSE counts[e]]

PutName(k) ==
  metadata' = IF Cardinality(metadata) < MaxIrqs THEN metadata \cup {k} ELSE metadata

\* An interrupt whose program is not attached is over for the model.
NotHooked(x) ==
  /\ At(x, "raised") /\ Level(x) \notin hooks
  /\ Return(x)
  /\ UNCHANGED <<kstat, hooks, mapVars, loaderVars, readerVars, hits, seeded>>

Seen(x) ==
  /\ At(x, "raised") /\ Level(x) \in hooks
  /\ hits' = [hits EXCEPT ![Key(x)][x[1]] = @ + 1]

\* The lookup finds the key: *count += 1, which nothing of this CPU interrupts
\* for the same key, and done but for the name, which softirq_entry looks at no more.
Found(x) ==
  /\ Seen(x)
  /\ Key(x) \in DOMAIN counts
  /\ counts' = [counts EXCEPT ![Key(x)][x[1]] = @ + 1]
  /\ IF Level(x) = "hard" THEN Goto(x, "meta") ELSE Return(x)
  /\ UNCHANGED <<kstat, hooks, metadata, loaderVars, readerVars, seeded>>

\* MUTANT of Missing: no entry is made.
MissingGoesOn(x) ==
  /\ Seen(x)
  /\ Key(x) \notin DOMAIN counts
  /\ IF Level(x) = "hard" THEN Goto(x, "meta") ELSE Return(x)
  /\ UNCHANGED <<kstat, hooks, mapVars, loaderVars, readerVars, seeded>>

Missing(x) ==
  /\ Seen(x)
  /\ Key(x) \notin DOMAIN counts
  /\ Goto(x, "insert")
  /\ UNCHANGED <<kstat, hooks, mapVars, loaderVars, readerVars, seeded>>

\* MUTANT of InsertCount: the name is left to the next interrupt.
InsertCountOnly(x) ==
  /\ At(x, "insert")
  /\ counts' = IF Admits(Key(x)) THEN With(Key(x), [Zeroes EXCEPT ![x[1]] = 1]) ELSE counts
  /\ Return(x)
  /\ UNCHANGED <<kstat, hooks, metadata, loaderVars, readerVars, hits, seeded>>

\* 1 on this CPU and 0 on all others.
InsertCount(x) ==
  /\ At(x, "insert")
  /\ counts' = IF Admits(Key(x)) THEN With(Key(x), [Zeroes EXCEPT ![x[1]] = 1]) ELSE counts
  /\ Goto(x, IF Level(x) = "hard" THEN "meta" ELSE "name")
  /\ UNCHANGED <<kstat, hooks, metadata, loaderVars, readerVars, hits, seeded>>

\* Only the hard interrupts' program looks for the name each time.
LookupMeta(x) ==
  /\ At(x, "meta")
  /\ IF Key(x) \in metadata THEN Return(x) ELSE Goto(x, "name")
  /\ UNCHANGED <<kstat, hooks, mapVars, loaderVars, readerVars, hits, seeded>>

InsertMeta(x) ==
  /\ At(x, "name")
  /\ PutName(Key(x))
  /\ Return(x)
  /\ UNCHANGED <<kstat, hooks, counts, loaderVars, readerVars, hits, seeded>>

(***************************************************************************)
(* The loader: attach, read the file, seed.                                *)
(***************************************************************************)
AttachHard ==
  /\ lpc = "attach_hard"
  /\ hooks' = hooks \cup {"hard"} /\ lpc' = "attach_soft"
  /\ UNCHANGED <<kernelVars, mapVars, file, todo, naming, readerVars, hits, seeded>>

AttachSoft ==
  /\ lpc = "attach_soft"
  /\ hooks' = hooks \cup {"soft"} /\ lpc' = "read"
  /\ UNCHANGED <<kernelVars, mapVars, file, todo, naming, readerVars, hits, seeded>>

\* The kernel formats one number of the file: of the interrupts, not of the softirqs.
ReadCell(k, c) ==
  /\ lpc = "read" /\ <<k, c>> \notin DOMAIN file
  /\ file' = [cell \in DOMAIN file \cup {<<k, c>>} |->
                IF cell = <<k, c>> THEN kstat[k][c] ELSE file[cell]]
  /\ UNCHANGED <<kernelVars, hooks, mapVars, lpc, todo, naming, readerVars, hits, seeded>>

\* read_to_string returns: the content, or an error, and then nothing is seeded.
FileRead ==
  /\ lpc = "read" /\ DOMAIN file = Hard \X Online
  /\ lpc' = IF Hard = {} THEN "done" ELSE "seed"
  /\ UNCHANGED <<kernelVars, hooks, mapVars, file, todo, naming, readerVars, hits, seeded>>

FileFails ==
  /\ lpc = "read"
  /\ lpc' = "done"
  /\ UNCHANGED <<kernelVars, hooks, mapVars, file, todo, naming, readerVars, hits, seeded>>

\* seed_irq takes the columns for CPUs 0, 1, 2, ...
FromFile(k) ==
  [i \in Cpus |-> IF i < Len(Columns) THEN file[<<k, Columns[i + 1]>>] ELSE 0]

\* MUTANT of SeedCounts: the flag is ANY.
SeedOver(k) ==
  /\ lpc = "seed" /\ naming = None /\ k \in todo
  /\ counts' = With(k, FromFile(k)) /\ seeded' = [seeded EXCEPT ![k] = FromFile(k)]
  /\ naming' = k
  /\ UNCHANGED <<kernelVars, hooks, metadata, lpc, file, todo, readerVars, hits>>

\* MUTANT of SeedCounts: what the file says is added to what has been counted.
SeedMore(k) ==
  /\ lpc = "seed" /\ naming = None /\ k \in todo
  /\ LET now == IF k \in DOMAIN counts THEN counts[k] ELSE Zeroes
     IN counts' = With(k, [i \in Cpus |-> now[i] + FromFile(k)[i]])
  /\ seeded' = [seeded EXCEPT ![k] = FromFile(k)]
  /\ naming' = k
  /\ UNCHANGED <<kernelVars, hooks, metadata, lpc, file, todo, readerVars, hits>>

\* update_percpu with NO_EXIST writes the counts of all CPUs.  Its errors are dropped;
\* of them, the model has the key that is there and the full map.
SeedCounts(k) ==
  /\ lpc = "seed" /\ naming = None /\ k \in todo
  /\ IF Admits(k)
     THEN counts' = With(k, FromFile(k)) /\ seeded' = [seeded EXCEPT ![k] = FromFile(k)]
     ELSE UNCHANGED <<counts, seeded>>
  /\ naming' = k
  /\ UNCHANGED <<kernelVars, hooks, metadata, lpc, file, todo, readerVars, hits>>

\* MUTANT of SeedMeta: the key is taken off the list and named for ever.
SeedMetaStays ==
  /\ lpc = "seed" /\ naming # None
  /\ PutName(naming)
  /\ todo' = todo \ {naming} /\ naming' = naming
  /\ lpc' = IF todo = {naming} THEN "done" ELSE "seed"
  /\ UNCHANGED <<kernelVars, hooks, counts, file, readerVars, hits, seeded>>

SeedMeta ==
  /\ lpc = "seed" /\ naming # None
  /\ PutName(naming)
  /\ todo' = todo \ {naming} /\ naming' = None
  /\ lpc' = IF todo = {naming} THEN "done" ELSE "seed"
  /\ UNCHANGED <<kernelVars, hooks, counts, file, readerVars, hits, seeded>>

(***************************************************************************)
(* snapshot(): the counts of a key are copied one CPU after the other, and *)
(* added up.                                                               *)
(***************************************************************************)
\* Keys are never deleted; a lookup that fails all the same, and is shown as 0, is left out.
ReaderTake(k) ==
  /\ rkey = None /\ k \in DOMAIN counts
  /\ rkey' = k /\ rcpu' = 0 /\ racc' = 0
  /\ UNCHANGED <<kernelVars, hooks, mapVars, loaderVars, shown, hits, seeded>>

ReaderAdd ==
  /\ rkey # None /\ rcpu < NrCpus
  /\ racc' = racc + counts[rkey][rcpu] /\ rcpu' = rcpu + 1
  /\ UNCHANGED <<kernelVars, hooks, mapVars, loaderVars, rkey, shown, hits, seeded>>

ReaderShow ==
  /\ rkey # None /\ rcpu = NrCpus
  /\ shown' = [shown EXCEPT ![rkey] = racc]
  /\ rkey' = None /\ rcpu' = 0 /\ racc' = 0
  /\ UNCHANGED <<kernelVars, hooks, mapVars, loaderVars, hits, seeded>>

Program(x) ==
  NotHooked(x) \/ Found(x) \/ Missing(x) \/ InsertCount(x) \/ LookupMeta(x) \/ InsertMeta(x)

Loader ==
  \/ AttachHard \/ AttachSoft
  \/ \E k \in Hard, c \in Online : ReadCell(k, c)
  \/ FileRead \/ FileFails
  \/ \E k \in Hard : SeedCounts(k)
  \/ SeedMeta

Reader == (\E k \in Keys : ReaderTake(k)) \/ ReaderAdd \/ ReaderShow

Next ==
  \/ \E c \in Online, level \in Levels : \E k \in KeysOf(level) : Raise(c, level, k)
  \/ \E x \in Contexts : Program(x)
  \/ Loader
  \/ Reader

Spec == Init /\ [][Next]_vars

(***************************************************************************)
(* Properties                                                              *)
(***************************************************************************)
Labels == {"idle", "raised", "insert", "meta", "name"}

\* Every variable has its type: a context handles a key of its level, and only the
\* hard interrupts' program looks a name up.
TypeOK ==
  /\ kstat \in [Keys -> [Cpus -> Nat]]
  /\ ctx \in [Contexts -> [pc : Labels, key : Keys \cup {None}]]
  /\ \A x \in Contexts :
       /\ ctx[x].pc = "idle" \/ Key(x) \in KeysOf(Level(x))
       /\ ctx[x].pc = "meta" => Level(x) = "hard"
  /\ hooks \subseteq Levels
  /\ DOMAIN counts \subseteq Keys
  /\ counts \in [DOMAIN counts -> [Cpus -> Nat]]
  /\ metadata \subseteq Keys
  /\ lpc \in {"attach_hard", "attach_soft", "read", "seed", "done"}
  /\ DOMAIN file \subseteq Hard \X Online
  /\ file \in [DOMAIN file -> Nat]
  /\ lpc = "seed" => DOMAIN file = Hard \X Online
  /\ todo \subseteq Hard /\ naming \in todo \cup {None}
  /\ rkey \in DOMAIN counts \cup {None} /\ rcpu \in 0 .. NrCpus /\ racc \in Nat
  /\ shown \in [Keys -> Nat]
  /\ hits \in [Keys -> [Cpus -> Nat]]
  /\ seeded \in [Keys -> [Cpus -> Nat]]

\* The program on CPU c has missed the key and has not made its entry yet.
Inserting(k, c) == \E x \in Contexts : x[1] = c /\ ctx[x].pc = "insert" /\ Key(x) = k

CountsFull == ~ (Cardinality(DOMAIN counts) < MaxIrqs)
NamesFull  == ~ (Cardinality(metadata) < MaxIrqs)

\* "Counts interrupts in real-time" (irq.bpf.c:11): what the programs have seen is in
\* the counts, on top of what was seeded, except for at most one interrupt per key and
\* CPU: the one whose lookup missed and whose insert came second.  A key that was
\* seen and is not counted is about to be, or the map is full.
CountsEveryHit ==
  \A k \in Keys, c \in Cpus :
    IF k \in DOMAIN counts
    THEN hits[k][c] + seeded[k][c] \in {counts[k][c], counts[k][c] + 1}
    ELSE hits[k][c] = 0 \/ Inserting(k, c) \/ CountsFull

\* No interrupt is counted twice, by the file and by its program, except for one of
\* each number that the kernel had counted before the file was read and whose program
\* came to its lookup after the seeding.  On totals: the columns of a machine with
\* a CPU offline go to the wrong CPUs.
NothingTwice ==
  \A k \in DOMAIN counts :
    Total(counts[k]) <= Total(kstat[k]) + (IF k \in Hard THEN 1 ELSE 0)

\* Clients show counts with names ("IRQ metadata, populated on first encounter",
\* irq.bpf.c:25): a key with counts has a name, or somebody is on the way to give it
\* one, or the map of names is full.
NamedIfCounted ==
  \A k \in DOMAIN counts :
    \/ k \in metadata
    \/ \E x \in Contexts : ctx[x].pc \in {"meta", "name"} /\ Key(x) = k
    \/ naming = k
    \/ NamesFull

\* Clients subtract totals: the total of a key never goes back from one snapshot to
\* the next, although it is added up CPU by CPU while the programs count, and although
\* the seeding comes after the hooks.
SnapshotsMonotone == [][\A k \in Keys : shown'[k] >= shown[k]]_vars

\* "This module reads the current state once to populate the maps with historical data,
\* so the output is complete from the first query" (seed.rs:4): behind the seeding, a
\* total is at least what the file said.  Fails: an interrupt between the attachment
\* and the seeding makes an entry, and NO_EXIST then keeps the history out.
HistoryComplete ==
  lpc = "done" /\ todo = {} =>
    \A k \in Hard \cap DOMAIN counts : Total(counts[k]) >= Total(FromFile(k))

(***************************************************************************)
(* The invariant behind CountsEveryHit.                                    *)
(***************************************************************************)

\* A key not in the map was seeded nowhere, and, unless the map is full, was seen once
\* by each program that is about to insert it and by nobody else.  A program about to
\* insert a key that is in the map by now is the one interrupt lost on its CPU.
CountInv ==
  /\ CountsEveryHit
  /\ \A k \in Keys \ DOMAIN counts, c \in Cpus :
       /\ seeded[k][c] = 0
       /\ CountsFull \/ hits[k][c] = IF Inserting(k, c) THEN 1 ELSE 0
  /\ \A k \in DOMAIN counts, c \in Cpus :
       Inserting(k, c) => hits[k][c] + seeded[k][c] = counts[k][c] + 1

(***************************************************************************)
(* The invariant behind NothingTwice.                                      *)
(***************************************************************************)
Raised(k, c) == \E x \in Contexts : x[1] = c /\ ctx[x].pc = "raised" /\ Key(x) = k

\* The kernel has counted what the programs have seen and what they are about to see,
KernelAhead ==
  \A k \in Keys, c \in Cpus : hits[k][c] + (IF Raised(k, c) THEN 1 ELSE 0) <= kstat[k][c]

\* and what the file says.
FileBehind == \A cell \in DOMAIN file : file[cell] <= kstat[cell[1]][cell[2]]

\* A number is handled in one place.
HandledOnce ==
  \A x, y \in Contexts :
    Level(x) = "hard" /\ Level(y) = "hard" /\ Key(x) = Key(y) /\ Key(x) # None => x = y

\* On top of what was seeded for a number, one interrupt at most is counted that the
\* file may have had as well: while one is on its way to its lookup, the total is no
\* further than the kernel's.
SeededOnce ==
  \A k \in DOMAIN counts :
    \/ seeded[k] = Zeroes
    \/ /\ k \in Hard
       /\ Total(counts[k]) + (IF \E c \in Online : Raised(k, c) THEN 1 ELSE 0)
            <= Total(kstat[k]) + 1

OriginInv == KernelAhead /\ FileBehind /\ HandledOnce /\ SeededOnce

(***************************************************************************)
(* The invariant behind SnapshotsMonotone.                                 *)
(***************************************************************************)

\* What was shown of a key is no more than its counts, nor than what the reader that is
\* adding them up has by now and will have.
ShownInv ==
  /\ \A k \in Keys : shown[k] <= IF k \in DOMAIN counts THEN Total(counts[k]) ELSE 0
  /\ rkey # None =>
       /\ shown[rkey] <= racc + SumFunctionOnSet(counts[rkey], rcpu .. NrCpus - 1)
       /\ racc <= SumFunctionOnSet(counts[rkey], 0 .. rcpu - 1)
==============================================================================

----------------------------- MODULE MemCollector -----------------------------
(***************************************************************************)
(* The memory collector (procfast-bpf/src/mem.bpf.c): two fexit programs   *)
(* that run wherever si_meminfo and si_mem_available return, so on every   *)
(* CPU at once, and write the one mmapped region mem_data.  The kernel     *)
(* never runs one program twice at the same time on one CPU.               *)
(*                                                                         *)
(* The calls are numbered as they return, and a call's number stands for   *)
(* every value it gives: the time of day, the fields of its sysinfo.       *)
(***************************************************************************)
EXTENDS Naturals

CONSTANTS
  Readers,
  Cpus,       \* the CPUs the programs run on
  NFields,    \* the words fexit_si_meminfo stores after the timestamp
  MaxCalls    \* bound: calls of the two kernel functions in a behaviour

ASSUME MemAssumption == NFields \in Nat \ {0} /\ MaxCalls \in Nat

Info(k)   == <<"info", k>>    \* timestamp_ns is Info(0), then total_bytes, ...
Available == <<"available_bytes", 0>>
InfoWords == {Info(k) : k \in 0 .. NFields}
MemWords  == InfoWords \cup {Available}

VARIABLES
  seq, mem,                       \* the region mem_data
  rpc, seq1, copied, local, got,  \* the readers
  wpc,      \* where each CPU is in fexit_si_meminfo: "out", "store" or "end"
  field,    \* the word it stores next
  call,     \* the call whose sysinfo it stores
  calls     \* calls made so far

INSTANCE SeqReader WITH Words <- MemWords

readers == <<rpc, seq1, copied, local, got>>
vars == <<seq, mem, readers, wpc, field, call, calls>>

Init ==
  /\ seq = 0
  /\ mem = Zeroes
  /\ ReaderInit
  /\ wpc = [c \in Cpus |-> "out"]
  /\ field = [c \in Cpus |-> 0]
  /\ call = [c \in Cpus |-> 0]
  /\ calls = 0

\* MUTANT of MemSeqBegin: PROCFAST_SEQ_WRITE_BEGIN is missing.
MemBeginUnmarked(c) ==
  /\ wpc[c] = "out" /\ calls < MaxCalls
  /\ calls' = calls + 1
  /\ call' = [call EXCEPT ![c] = calls + 1]
  /\ wpc' = [wpc EXCEPT ![c] = "store"]
  /\ UNCHANGED <<seq, mem, readers, field>>

\* si_meminfo returns on CPU c and its fexit program starts.
MemSeqBegin(c) ==
  /\ wpc[c] = "out" /\ calls < MaxCalls
  /\ calls' = calls + 1
  /\ call' = [call EXCEPT ![c] = calls + 1]
  /\ wpc' = [wpc EXCEPT ![c] = "store"]
  /\ seq' = seq + 1
  /\ UNCHANGED <<mem, readers, field>>

\* MUTANT of MemStore: a store beyond the last field.
MemStorePastEnd(c) ==
  /\ wpc[c] = "store"
  /\ mem' = [mem EXCEPT ![Info(field[c])] = call[c]]
  /\ field' = [field EXCEPT ![c] = @ + 1]
  /\ wpc' = [wpc EXCEPT ![c] = IF field[c] <= NFields THEN "store" ELSE "end"]
  /\ UNCHANGED <<seq, readers, call, calls>>

MemStore(c) ==
  /\ wpc[c] = "store"
  /\ mem' = [mem EXCEPT ![Info(field[c])] = call[c]]
  /\ field' = [field EXCEPT ![c] = IF @ < NFields THEN @ + 1 ELSE 0]
  /\ wpc' = [wpc EXCEPT ![c] = IF field[c] < NFields THEN "store" ELSE "end"]
  /\ UNCHANGED <<seq, readers, call, calls>>

\* MUTANT of MemSeqEnd: a return in the middle of the program, as on mem_unit = 0.
MemNoEnd(c) ==
  /\ wpc[c] = "end"
  /\ wpc' = [wpc EXCEPT ![c] = "out"]
  /\ UNCHANGED <<seq, mem, readers, field, call, calls>>

MemSeqEnd(c) ==
  /\ wpc[c] = "end"
  /\ seq' = seq + 1
  /\ wpc' = [wpc EXCEPT ![c] = "out"]
  /\ UNCHANGED <<mem, readers, field, call, calls>>

\* fexit_si_mem_available: one store, not under the sequence counter, and none
\* when the kernel's estimate is not positive.
MemAvailable ==
  /\ calls < MaxCalls
  /\ calls' = calls + 1
  /\ \/ mem' = [mem EXCEPT ![Available] = calls + 1]
     \/ UNCHANGED mem
  /\ UNCHANGED <<seq, readers, wpc, field, call>>

MemProgram(c) == MemStore(c) \/ MemSeqEnd(c)

ReaderStep(r) == Reading(r) /\ UNCHANGED <<wpc, field, call, calls>>

ReaderCall(r) == Call(r) /\ UNCHANGED <<wpc, field, call, calls>>

Next ==
  \/ \E c \in Cpus : MemSeqBegin(c) \/ MemProgram(c)
  \/ MemAvailable
  \/ \E r \in Readers : ReaderCall(r) \/ ReaderStep(r)

Spec == Init /\ [][Next]_vars

\* A program that has begun runs to its end, and so does a snapshot().
Fairness ==
  /\ \A c \in Cpus : WF_vars(MemProgram(c))
  /\ \A r \in Readers : WF_vars(ReaderStep(r))

FairSpec == Spec /\ Fairness

(***************************************************************************)
(* Properties                                                              *)
(***************************************************************************)

\* Every variable has its type; no store leaves the region.
TypeOK ==
  /\ seq \in Nat
  /\ mem \in [MemWords -> Nat]
  /\ ReaderTypeOK
  /\ wpc \in [Cpus -> {"out", "store", "end"}]
  /\ field \in [Cpus -> 0 .. NFields]
  /\ call \in [Cpus -> 0 .. MaxCalls]
  /\ calls \in 0 .. MaxCalls

\* What the counter is for ("Odd = BPF is writing, even = consistent",
\* procfast-common/src/lib.rs): all the words of a snapshot that si_meminfo
\* provides come from one call of it.  Holds with one CPU, fails with two.
SnapshotFromOneCall ==
  \A r \in Readers : \A w \in InfoWords : got[r][w] = got[r][Info(0)]

\* The atomic region of Snapshot, of si_meminfo's words: while the program stores, the
\* region is the one its call will leave, since no copy made meanwhile is returned.
Published ==
  [w \in InfoWords |-> IF \E c \in Cpus : wpc[c] # "out"
                         THEN call[CHOOSE c \in Cpus : wpc[c] # "out"]
                         ELSE mem[w]]
Snapshots == [r \in Readers |-> [w \in InfoWords |-> got[r][w]]]

\* What the protocol is for, on one CPU: it implements Snapshot.  A snapshot() is not
\* only one call's but the last call's that has ended when it returns.
Abstract == INSTANCE Snapshot
              WITH Words <- InfoWords, current <- Published, got <- Snapshots
ReadsAreAtomic == Abstract!Spec

\* A snapshot() that was called returns, once the kernel's calls leave it the time:
\* every path through fexit_si_meminfo makes the counter even again.
ReaderReturns == \A r \in Readers : rpc[r] # "out" ~> rpc[r] = "out"

(***************************************************************************)
(* The invariant behind SnapshotFromOneCall, for one CPU.                  *)
(***************************************************************************)

\* The counter is odd exactly while the program runs; the words it has stored are its
\* call's, and between two runs all are those of one call.
ProgramInv ==
  /\ (\E c \in Cpus : wpc[c] # "out") <=> seq % 2 = 1
  /\ (\A c \in Cpus : wpc[c] = "out") => \A w \in InfoWords : mem[w] = mem[Info(0)]
  /\ \A c \in Cpus :
       /\ wpc[c] # "store" => field[c] = 0
       /\ wpc[c] = "store" => \A k \in 0 .. NFields : k < field[c] => mem[Info(k)] = call[c]
       /\ wpc[c] = "end" => \A k \in 0 .. NFields : mem[Info(k)] = call[c]

\* As long as the counter is the one seen first, what a reader has copied of these words
\* is still there.  (Of available_bytes, which is stored at any time, nothing is said.)
CopyInv ==
  \A r \in Readers :
    /\ rpc[r] # "copy" => copied[r] = {}
    /\ rpc[r] = "copy" =>
         /\ seq1[r] % 2 = 0 /\ seq1[r] <= seq
         /\ seq = seq1[r] => \A w \in copied[r] \cap InfoWords : local[r][w] = mem[w]

\* With SnapshotFromOneCall it is inductive for one CPU (MemCollector_proofs).
MemInv == ProgramInv /\ CopyInv /\ SnapshotFromOneCall
===============================================================================

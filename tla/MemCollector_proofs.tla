------------------------- MODULE MemCollector_proofs -------------------------
(***************************************************************************)
(* The memory collector on one CPU: what si_meminfo provides comes whole   *)
(* to every reader, for any number of fields, readers and calls, although  *)
(* available_bytes is stored outside of the counter.                       *)
(***************************************************************************)
EXTENDS MemCollector, TLAPS

\* fexit_si_meminfo never runs twice at a time.
OneCpu == \A a, b \in Cpus : a = b

\* The words of mem_data are those of the sysinfo and available_bytes, which is none of them.
LEMMA WordsOfRegion ==
  /\ \A k \in 0 .. NFields : Info(k) \in InfoWords /\ Info(k) \in MemWords
  /\ Info(0) \in InfoWords
  /\ Available \in MemWords /\ Available \notin InfoWords
  /\ InfoWords \subseteq MemWords
<1>1. \A k \in 0 .. NFields : Info(k) \in InfoWords
  BY DEF InfoWords
<1>2. 0 \in 0 .. NFields
  BY MemAssumption
<1>3. Available \notin InfoWords
  BY DEF InfoWords, Info, Available
<1> QED
  BY <1>1, <1>2, <1>3 DEF MemWords

\* Two fields have two words.
LEMMA InfoDistinct == \A j, k \in 0 .. NFields : Info(j) = Info(k) => j = k
BY DEF Info

\* The readers' steps keep the types and touch nothing of the writers.
LEMMA ReaderStepType ==
  ASSUME TypeOK, NEW r \in Readers, ReaderCall(r) \/ ReaderStep(r)
  PROVE  TypeOK'
<1> USE DEF TypeOK, ReaderTypeOK, ReaderStep
<1>1. CASE ReaderCall(r)
  BY <1>1 DEF ReaderCall, Call
<1>2. CASE ReaderStep(r) /\ ReadSeq1(r)
  BY <1>2 DEF ReadSeq1
<1>3. ASSUME NEW w \in MemWords, ReaderStep(r), CopyWord(r, w) PROVE TypeOK'
  BY <1>3 DEF CopyWord
<1>4. CASE ReaderStep(r) /\ ReadSeq2(r)
  <2>1. Zeroes \in [MemWords -> Nat]
    BY DEF Zeroes
  <2> QED
    BY <1>4, <2>1 DEF ReadSeq2
<1> QED
  BY <1>1, <1>2, <1>3, <1>4 DEF Reading

\* Every variable keeps its type, on any number of CPUs: no store leaves the region.
THEOREM TypeCorrect == Spec => []TypeOK
<1> USE MemAssumption, WordsOfRegion
<1>1. Init => TypeOK
  BY DEF Init, ReaderInit, TypeOK, ReaderTypeOK, Zeroes
<1>2. TypeOK /\ [Next]_vars => TypeOK'
  <2> SUFFICES ASSUME TypeOK, [Next]_vars PROVE TypeOK'
    OBVIOUS
  <2>1. CASE UNCHANGED vars
    BY <2>1 DEF vars, readers, TypeOK, ReaderTypeOK
  <2>2. ASSUME NEW c \in Cpus, MemSeqBegin(c) PROVE TypeOK'
    BY <2>2 DEF MemSeqBegin, TypeOK, ReaderTypeOK, readers
  <2>3. ASSUME NEW c \in Cpus, MemStore(c) PROVE TypeOK'
    <3>1. field[c] \in 0 .. NFields /\ call[c] \in Nat
      BY DEF TypeOK
    <3>2. mem' \in [MemWords -> Nat]
      BY <2>3, <3>1 DEF MemStore, TypeOK
    <3>3. field' \in [Cpus -> 0 .. NFields]
      BY <2>3, <3>1 DEF MemStore, TypeOK
    <3> QED
      BY <2>3, <3>2, <3>3 DEF MemStore, TypeOK, ReaderTypeOK, readers
  <2>4. ASSUME NEW c \in Cpus, MemSeqEnd(c) PROVE TypeOK'
    BY <2>4 DEF MemSeqEnd, TypeOK, ReaderTypeOK, readers
  <2>5. CASE MemAvailable
    <3>1. mem' \in [MemWords -> Nat] /\ calls' \in 0 .. MaxCalls
      BY <2>5 DEF MemAvailable, TypeOK
    <3> QED
      BY <2>5, <3>1 DEF MemAvailable, TypeOK, ReaderTypeOK, readers
  <2>6. ASSUME NEW r \in Readers, ReaderCall(r) \/ ReaderStep(r) PROVE TypeOK'
    BY <2>6, ReaderStepType
  <2> QED
    BY <2>1, <2>2, <2>3, <2>4, <2>5, <2>6 DEF Next, MemProgram
<1> QED
  BY <1>1, <1>2, PTL DEF Spec

\* The program stores only while the counter is odd.
LEMMA ProgramStep ==
  ASSUME OneCpu, TypeOK, MemInv, NEW c \in Cpus, MemSeqBegin(c) \/ MemProgram(c)
  PROVE  MemInv'
<1> USE MemAssumption, WordsOfRegion
<1>1. \A a \in Cpus : a = c
  BY DEF OneCpu
<1>2. /\ seq \in Nat /\ field[c] \in 0 .. NFields
      /\ rpc' = rpc /\ seq1' = seq1 /\ copied' = copied /\ local' = local /\ got' = got
  BY DEF MemSeqBegin, MemProgram, MemStore, MemSeqEnd, readers, TypeOK
<1>3. SnapshotFromOneCall'
  BY <1>2 DEF MemInv, SnapshotFromOneCall
<1>4. ASSUME seq' = seq + 1 PROVE CopyInv'
  BY <1>2, <1>4 DEF MemInv, CopyInv, TypeOK, ReaderTypeOK
<1>5. CASE MemSeqBegin(c)
  <2>1. /\ wpc[c] = "out" /\ wpc'[c] = "store" /\ seq' = seq + 1 /\ field' = field /\ mem' = mem
        /\ seq % 2 = 0 /\ field[c] = 0
    BY <1>1, <1>2, <1>5 DEF MemSeqBegin, TypeOK, MemInv, ProgramInv
  <2>2. ProgramInv'
    <3>1. seq' % 2 = 1
      BY <1>2, <2>1
    <3> QED
      BY <1>1, <2>1, <3>1 DEF ProgramInv
  <2> QED
    BY <1>3, <1>4, <2>1, <2>2 DEF MemInv
<1>6. CASE MemStore(c)
  <2>1. /\ wpc[c] = "store" /\ wpc'[c] # "out" /\ seq' = seq /\ call' = call
        /\ mem' = [mem EXCEPT ![Info(field[c])] = call[c]]
        /\ field'[c] = IF field[c] < NFields THEN field[c] + 1 ELSE 0
        /\ wpc'[c] = IF field[c] < NFields THEN "store" ELSE "end"
    BY <1>6 DEF MemStore, TypeOK
  <2>2. seq % 2 = 1
    BY <2>1 DEF MemInv, ProgramInv
  <2>3. \A k \in 0 .. NFields : mem'[Info(k)] = IF k = field[c] THEN call[c] ELSE mem[Info(k)]
    BY <1>2, <2>1, InfoDistinct DEF TypeOK
  <2>4. \A k \in 0 .. NFields : k < field[c] => mem[Info(k)] = call[c]
    BY <2>1 DEF MemInv, ProgramInv
  <2>5. ProgramInv'
    <3>1. CASE field[c] < NFields
      BY <1>1, <1>2, <2>1, <2>2, <2>3, <2>4, <3>1 DEF ProgramInv
    <3>2. CASE ~ (field[c] < NFields)
      <4>1. \A k \in 0 .. NFields : mem'[Info(k)] = call[c]
        BY <1>2, <2>3, <2>4, <3>2
      <4> QED
        BY <1>1, <2>1, <2>2, <3>2, <4>1 DEF ProgramInv
    <3> QED
      BY <3>1, <3>2
  <2>6. CopyInv'
    <3>1. \A r \in Readers : rpc[r] = "copy" => seq1[r] % 2 = 0 /\ seq1[r] <= seq /\ seq # seq1[r]
      BY <2>2 DEF MemInv, CopyInv
    <3>2. \A r \in Readers : rpc[r] # "copy" => copied[r] = {}
      BY DEF MemInv, CopyInv
    <3> QED
      BY <1>2, <2>1, <3>1, <3>2 DEF CopyInv
  <2> QED
    BY <1>3, <2>5, <2>6 DEF MemInv
<1>7. CASE MemSeqEnd(c)
  <2>1. /\ wpc[c] = "end" /\ wpc'[c] = "out" /\ seq' = seq + 1 /\ field' = field /\ mem' = mem
    BY <1>7 DEF MemSeqEnd, TypeOK
  <2>2. seq % 2 = 1 /\ field[c] = 0 /\ \A k \in 0 .. NFields : mem[Info(k)] = call[c]
    BY <2>1 DEF MemInv, ProgramInv
  <2>3. seq' % 2 = 0
    BY <1>2, <2>1, <2>2
  <2>4. \A w \in InfoWords : mem'[w] = mem'[Info(0)]
    BY <2>1, <2>2 DEF InfoWords
  <2>5. ProgramInv'
    BY <1>1, <2>1, <2>2, <2>3, <2>4 DEF ProgramInv
  <2> QED
    BY <1>3, <1>4, <2>1, <2>5 DEF MemInv
<1> QED
  BY <1>5, <1>6, <1>7 DEF MemProgram

\* fexit_si_mem_available stores at any time, but to no word the counter protects.
LEMMA AvailableStep ==
  ASSUME TypeOK, MemInv, MemAvailable
  PROVE  MemInv'
<1> USE WordsOfRegion
<1>1. \A w \in InfoWords : mem'[w] = mem[w]
  BY DEF MemAvailable, TypeOK
<1>2. UNCHANGED <<seq, rpc, seq1, copied, local, got, wpc, field, call>>
  BY DEF MemAvailable, readers
<1>3. ProgramInv'
  BY <1>1, <1>2 DEF MemInv, ProgramInv
<1>4. CopyInv' /\ SnapshotFromOneCall'
  BY <1>1, <1>2 DEF MemInv, CopyInv, SnapshotFromOneCall
<1> QED
  BY <1>3, <1>4 DEF MemInv

\* A reader returns only what it copied under one even value of the counter.
LEMMA ReaderStepInv ==
  ASSUME TypeOK, MemInv, NEW r \in Readers, ReaderCall(r) \/ ReaderStep(r)
  PROVE  MemInv'
<1> USE WordsOfRegion
<1>1. UNCHANGED <<seq, mem, wpc, field, call>>
  BY DEF ReaderCall, Call, ReaderStep, Reading, ReadSeq1, CopyWord, ReadSeq2
<1>2. ProgramInv'
  BY <1>1 DEF MemInv, ProgramInv
<1> USE DEF TypeOK, ReaderTypeOK, CopyInv, SnapshotFromOneCall
<1>3. CASE ReaderCall(r)
  <2>1. CopyInv'
    BY <1>1, <1>3 DEF ReaderCall, Call, MemInv
  <2>2. SnapshotFromOneCall'
    BY <1>1, <1>3 DEF ReaderCall, Call, MemInv
  <2> QED
    BY <1>2, <2>1, <2>2 DEF MemInv
<1>4. CASE ReadSeq1(r)
  <2>1. CopyInv'
    <3>1. /\ copied' = copied /\ local' = local /\ copied[r] = {}
          /\ rpc' = [rpc EXCEPT ![r] = "copy"] /\ seq1' = [seq1 EXCEPT ![r] = seq]
      BY <1>4 DEF ReadSeq1, MemInv
    <3>2. seq % 2 = 0 /\ seq \in Nat
      BY <1>4 DEF ReadSeq1
    <3> QED
      BY <1>1, <3>1, <3>2 DEF MemInv
  <2>2. SnapshotFromOneCall'
    BY <1>1, <1>4 DEF ReadSeq1, MemInv
  <2> QED
    BY <1>2, <2>1, <2>2 DEF MemInv
<1>5. ASSUME NEW w \in MemWords, CopyWord(r, w) PROVE CopyInv' /\ SnapshotFromOneCall'
  BY <1>1, <1>5 DEF CopyWord, MemInv
<1>6. CASE ReadSeq2(r)
  <2>1. CASE Retry(r)
    BY <1>1, <1>2, <1>6, <2>1 DEF ReadSeq2, MemInv
  <2>2. CASE ~ Retry(r)
    <3>1. /\ rpc[r] = "copy" /\ copied[r] = MemWords /\ seq = seq1[r]
          /\ got' = [got EXCEPT ![r] = local[r]]
      BY <1>6, <2>2 DEF ReadSeq2, Retry
    <3>2. seq % 2 = 0 /\ \A w \in InfoWords : local[r][w] = mem[w]
      BY <3>1 DEF MemInv
    <3>3. \A w \in InfoWords : mem[w] = mem[Info(0)]
      <4>1. \A c \in Cpus : wpc[c] = "out"
        BY <3>2 DEF MemInv, ProgramInv
      <4> QED
        BY <4>1 DEF MemInv, ProgramInv
    <3>4. SnapshotFromOneCall'
      BY <3>1, <3>2, <3>3 DEF MemInv
    <3>5. CopyInv'
      BY <1>1, <1>6, <2>2 DEF ReadSeq2, MemInv
    <3> QED
      BY <1>2, <3>4, <3>5 DEF MemInv
  <2> QED
    BY <2>1, <2>2
<1> QED
  BY <1>2, <1>3, <1>4, <1>5, <1>6 DEF ReaderStep, Reading, MemInv

\* The inductive invariant.
THEOREM MemInvariant == ASSUME OneCpu PROVE Spec => []MemInv
<1>1. Init => MemInv
  <2> SUFFICES ASSUME Init PROVE MemInv
    OBVIOUS
  <2>1. \A w \in MemWords : mem[w] = 0
    BY DEF Init, Zeroes
  <2>2. ProgramInv
    BY <2>1, WordsOfRegion DEF Init, ProgramInv
  <2> QED
    BY <2>2, WordsOfRegion DEF Init, ReaderInit, Zeroes, MemInv, CopyInv, SnapshotFromOneCall
<1>2. OneCpu /\ TypeOK /\ MemInv /\ [Next]_vars => MemInv'
  <2> SUFFICES ASSUME OneCpu, TypeOK, MemInv, [Next]_vars PROVE MemInv'
    OBVIOUS
  <2>1. CASE UNCHANGED vars
    BY <2>1 DEF vars, readers, MemInv, ProgramInv, CopyInv, SnapshotFromOneCall
  <2>2. ASSUME NEW c \in Cpus, MemSeqBegin(c) \/ MemProgram(c) PROVE MemInv'
    BY <2>2, ProgramStep
  <2>3. CASE MemAvailable
    BY <2>3, AvailableStep
  <2>4. ASSUME NEW r \in Readers, ReaderCall(r) \/ ReaderStep(r) PROVE MemInv'
    BY <2>4, ReaderStepInv
  <2> QED
    BY <2>1, <2>2, <2>3, <2>4 DEF Next
<1> QED
  BY <1>1, <1>2, TypeCorrect, PTL DEF Spec

\* A snapshot's words from si_meminfo are one call's.
THEOREM OneCallPerSnapshot == ASSUME OneCpu PROVE Spec => []SnapshotFromOneCall
<1>1. MemInv => SnapshotFromOneCall
  BY DEF MemInv
<1> QED
  BY <1>1, MemInvariant, PTL

(***************************************************************************)
(* The atomic region.                                                      *)
(***************************************************************************)
LEMMA PublishedIs ==
  ASSUME OneCpu, NEW c \in Cpus
  PROVE  /\ wpc[c] # "out" => Published = [w \in InfoWords |-> call[c]]
         /\ wpc[c] = "out" => Published = [w \in InfoWords |-> mem[w]]
<1>1. \A a \in Cpus : a = c
  BY DEF OneCpu
<1>2. ASSUME wpc[c] # "out" PROVE (CHOOSE a \in Cpus : wpc[a] # "out") = c
  BY <1>1, <1>2
<1>3. (\E a \in Cpus : wpc[a] # "out") <=> wpc[c] # "out"
  BY <1>1
<1> QED
  BY <1>2, <1>3 DEF Published

LEMMA PublishedIsNext ==
  ASSUME OneCpu, NEW c \in Cpus
  PROVE  /\ wpc'[c] # "out" => Published' = [w \in InfoWords |-> call'[c]]
         /\ wpc'[c] = "out" => Published' = [w \in InfoWords |-> mem'[w]]
<1>1. \A a \in Cpus : a = c
  BY DEF OneCpu
<1>2. ASSUME wpc'[c] # "out" PROVE (CHOOSE a \in Cpus : wpc'[a] # "out") = c
  BY <1>1, <1>2
<1>3. (\E a \in Cpus : wpc'[a] # "out") <=> wpc'[c] # "out"
  BY <1>1
<1> QED
  BY <1>2, <1>3 DEF Published

\* The program changes the region when its call has returned, and then not before the next.
LEMMA ProgramPublishes ==
  ASSUME OneCpu, TypeOK, TypeOK', MemInv, NEW c \in Cpus, MemSeqBegin(c) \/ MemProgram(c)
  PROVE  [Abstract!Next]_(Abstract!vars)
<1>1. UNCHANGED Snapshots
  BY DEF MemSeqBegin, MemProgram, MemStore, MemSeqEnd, readers, Snapshots
<1>2. CASE MemSeqBegin(c)
  <2>1. wpc'[c] # "out" /\ call'[c] \in Nat
    BY <1>2 DEF MemSeqBegin, TypeOK
  <2>2. Published' \in [InfoWords -> Nat]
    BY <2>1, PublishedIsNext
  <2> QED
    BY <1>1, <2>2 DEF Abstract!Next, Abstract!Publish, Abstract!Regions
<1>3. CASE MemStore(c)
  <2>1. wpc[c] # "out" /\ wpc'[c] # "out" /\ call' = call
    BY <1>3 DEF MemStore, TypeOK
  <2>2. Published' = Published
    BY <2>1, PublishedIs, PublishedIsNext
  <2> QED
    BY <1>1, <2>2 DEF Abstract!vars
<1>4. CASE MemSeqEnd(c)
  <2>1. wpc[c] = "end" /\ wpc'[c] = "out" /\ mem' = mem
    BY <1>4 DEF MemSeqEnd, TypeOK
  <2>2. \A w \in InfoWords : mem[w] = call[c]
    BY <2>1 DEF MemInv, ProgramInv, InfoWords
  <2>3. Published' = Published
    BY <2>1, <2>2, PublishedIs, PublishedIsNext
  <2> QED
    BY <1>1, <2>3 DEF Abstract!vars
<1> QED
  BY <1>2, <1>3, <1>4 DEF MemProgram

\* The copy that is returned is the region at that moment.
LEMMA ReturnIsRead ==
  ASSUME TypeOK, MemInv, NEW r \in Readers, ReadSeq2(r), ~ Retry(r), UNCHANGED Published
  PROVE  Abstract!Read(r)
<1>1. /\ rpc[r] = "copy" /\ copied[r] = MemWords /\ seq = seq1[r]
      /\ got' = [got EXCEPT ![r] = local[r]]
  BY DEF ReadSeq2, Retry
<1>2. seq % 2 = 0 /\ \A w \in InfoWords : local[r][w] = mem[w]
  BY <1>1, WordsOfRegion DEF MemInv, CopyInv
<1>3. ~ \E c \in Cpus : wpc[c] # "out"
  BY <1>2 DEF MemInv, ProgramInv
<1>4. Published = [w \in InfoWords |-> mem[w]]
  BY <1>3 DEF Published
<1>5. Snapshots' = [Snapshots EXCEPT ![r] = [w \in InfoWords |-> local[r][w]]]
  BY <1>1 DEF Snapshots, TypeOK, ReaderTypeOK
<1>6. [w \in InfoWords |-> local[r][w]] = Published
  BY <1>2, <1>4
<1> QED
  BY <1>5, <1>6 DEF Abstract!Read

LEMMA StepRefines ==
  ASSUME OneCpu, TypeOK, TypeOK', MemInv, [Next]_vars
  PROVE  [Abstract!Next]_(Abstract!vars)
<1>1. ASSUME NEW c \in Cpus, MemSeqBegin(c) \/ MemProgram(c)
      PROVE  [Abstract!Next]_(Abstract!vars)
  BY <1>1, ProgramPublishes
<1>2. CASE MemAvailable
  <2>1. \A w \in InfoWords : mem'[w] = mem[w]
    BY <1>2, WordsOfRegion DEF MemAvailable, TypeOK
  <2>2. UNCHANGED <<wpc, call, got>>
    BY <1>2 DEF MemAvailable, readers
  <2>3. UNCHANGED <<Published, Snapshots>>
    BY <2>1, <2>2 DEF Published, Snapshots
  <2> QED
    BY <2>3 DEF Abstract!vars
<1>3. ASSUME NEW r \in Readers, ReaderCall(r) \/ ReaderStep(r)
      PROVE  [Abstract!Next]_(Abstract!vars)
  <2>1. UNCHANGED <<mem, wpc, call>>
    BY <1>3 DEF ReaderCall, Call, ReaderStep, Reading, ReadSeq1, CopyWord, ReadSeq2
  <2>2. UNCHANGED Published
    BY <2>1 DEF Published
  <2>3. CASE ReadSeq2(r) /\ ~ Retry(r)
    BY <2>2, <2>3, ReturnIsRead DEF Abstract!Next
  <2>4. CASE ~ (ReadSeq2(r) /\ ~ Retry(r))
    <3>1. UNCHANGED got
      BY <1>3, <2>4 DEF ReaderCall, Call, ReaderStep, Reading, ReadSeq1, CopyWord, ReadSeq2
    <3>2. UNCHANGED Snapshots
      BY <3>1 DEF Snapshots
    <3> QED
      BY <2>2, <3>2 DEF Abstract!vars
  <2> QED
    BY <2>3, <2>4
<1>4. CASE UNCHANGED vars
  BY <1>4 DEF vars, readers, Published, Snapshots, Abstract!vars
<1> QED
  BY <1>1, <1>2, <1>3, <1>4 DEF Next

\* On one CPU the memory collector and its readers implement the abstract region of
\* Snapshot: a snapshot() returns what the last call of si_meminfo has left.
THEOREM SnapshotIsAtomic ==
  ASSUME OneCpu
  PROVE  Spec => ReadsAreAtomic
<1>1. Init => Abstract!Init
  <2> SUFFICES ASSUME Init PROVE Abstract!Init
    OBVIOUS
  <2>1. ~ \E c \in Cpus : wpc[c] # "out"
    BY DEF Init
  <2>2. \A w \in InfoWords : mem[w] = 0 /\ \A r \in Readers : got[r][w] = 0
    BY WordsOfRegion DEF Init, ReaderInit, Zeroes
  <2>3. Published = [w \in InfoWords |-> 0]
    BY <2>1, <2>2 DEF Published
  <2>4. Snapshots = [r \in Readers |-> [w \in InfoWords |-> 0]]
    BY <2>2 DEF Snapshots
  <2> QED
    BY <2>3, <2>4 DEF Abstract!Init, Abstract!Zeroed
<1>2. TypeOK /\ TypeOK' /\ MemInv /\ [Next]_vars => [Abstract!Next]_(Abstract!vars)
  BY StepRefines
<1> QED
  BY <1>1, <1>2, TypeCorrect, MemInvariant, PTL DEF Spec, ReadsAreAtomic, Abstract!Spec
===============================================================================

------------------------- MODULE CpuCollector_proofs -------------------------
(***************************************************************************)
(* The seqlock of the CPU collector, proved for every number of CPUs, set  *)
(* of readers and bound: snapshot() is atomic.                             *)
(***************************************************************************)
EXTENDS CpuCollector, Sums, TLAPS

(***************************************************************************)
(* Types.                                                                  *)
(***************************************************************************)

\* The words of cpu_data contain the words the callback stores to.
LEMMA WordsOfRegion ==
  /\ Timestamp \in CpuWords /\ Total \in CpuWords /\ NrCpus \in CpuWords
  /\ \A i \in CPUs : Slot(i) \in CpuWords
BY DEF CpuWords, Slots

\* A store of a number to a word of the region leaves a region.
LEMMA StoreType ==
  ASSUME mem \in [CpuWords -> Nat], NEW w \in CpuWords, NEW v \in Nat, Store(w, v)
  PROVE  mem' \in [CpuWords -> Nat]
BY DEF Store

\* Every step of the callback keeps the types.
LEMMA CallbackType ==
  ASSUME TypeOK, SeqWriteBegin \/ Callback
  PROVE  TypeOK'
<1> USE CpuAssumption DEF TypeOK, ReaderTypeOK, Goto, CPUs, readers, kernelVars
<1>1. CASE SeqWriteBegin
  BY <1>1 DEF SeqWriteBegin
<1>2. CASE Stamp
  <2>1. mem' \in [CpuWords -> Nat]
    BY <1>2, StoreType, WordsOfRegion DEF Stamp
  <2>. QED
    BY <1>2, <2>1 DEF Stamp
<1>3. CASE ClearTotal
  <2>1. mem' \in [CpuWords -> Nat]
    BY <1>3, StoreType, WordsOfRegion DEF ClearTotal
  <2>2. wpc' = "zero" => 0 \in CPUs
    BY <1>3 DEF ClearTotal
  <2>. QED
    BY <1>3, <2>1, <2>2 DEF ClearTotal
<1>4. CASE ZeroSlot
  <2>1. mem' \in [CpuWords -> Nat]
    BY <1>4, StoreType, WordsOfRegion DEF ZeroSlot
  <2>. QED
    BY <1>4, <2>1 DEF ZeroSlot
<1>5. CASE ReadOneCpu
  <2>1. mem' \in [CpuWords -> Nat]
    BY <1>5, StoreType, WordsOfRegion DEF ReadOneCpu
  <2>. QED
    BY <1>5, <2>1 DEF ReadOneCpu
<1>6. CASE AddStats
  <2>1. mem[Total] \in Nat /\ mem[Slot(cpu)] \in Nat
    BY <1>6, WordsOfRegion DEF AddStats
  <2>2. mem' \in [CpuWords -> Nat]
    <3>1. CASE mem[Slot(cpu)] = 0
      BY <1>6, <3>1 DEF AddStats
    <3>2. CASE mem[Slot(cpu)] # 0
      <4>1. Store(Total, mem[Total] + mem[Slot(cpu)])
        BY <1>6, <3>2 DEF AddStats
      <4>2. mem[Total] + mem[Slot(cpu)] \in Nat
        BY <2>1
      <4>. QED
        BY <4>1, <4>2, StoreType, WordsOfRegion
    <3>. QED
      BY <3>1, <3>2
  <2>. QED
    BY <1>6, <2>2 DEF AddStats
<1>7. CASE Count
  <2>1. mem' \in [CpuWords -> Nat]
    BY <1>7, StoreType, WordsOfRegion DEF Count
  <2>. QED
    BY <1>7, <2>1 DEF Count
<1>8. CASE SeqWriteEnd
  BY <1>8 DEF SeqWriteEnd
<1>. QED
  BY <1>1, <1>2, <1>3, <1>4, <1>5, <1>6, <1>7, <1>8 DEF Callback

\* Every step of a reader keeps the types.
LEMMA ReaderStepType ==
  ASSUME TypeOK, NEW r \in Readers, ReaderCall(r) \/ ReaderStep(r)
  PROVE  TypeOK'
<1> USE DEF TypeOK, ReaderTypeOK, writerVars, kernelVars, ReaderStep
<1>1. CASE ReaderCall(r)
  BY <1>1 DEF ReaderCall, Call
<1>2. CASE ReaderStep(r) /\ ReadSeq1(r)
  BY <1>2 DEF ReadSeq1
<1>3. ASSUME NEW w \in CpuWords, ReaderStep(r), CopyWord(r, w)
      PROVE  TypeOK'
  BY <1>3 DEF CopyWord
<1>4. CASE ReaderStep(r) /\ ReadSeq2(r)
  <2>1. Zeroes \in [CpuWords -> Nat]
    BY DEF Zeroes
  <2>. QED
    BY <1>4, <2>1 DEF ReadSeq2
<1>. QED
  BY <1>1, <1>2, <1>3, <1>4 DEF Reading

\* The type invariant: in particular the callback's index never leaves per_cpu.
THEOREM TypeCorrect == Spec => []TypeOK
<1>1. Init => TypeOK
  BY CpuAssumption DEF Init, ReaderInit, TypeOK, ReaderTypeOK, Zeroes
<1>2. TypeOK /\ [Next]_vars => TypeOK'
  <2> SUFFICES ASSUME TypeOK, [Next]_vars PROVE TypeOK'
    OBVIOUS
  <2>1. CASE SeqWriteBegin \/ Callback
    BY <2>1, CallbackType
  <2>2. ASSUME NEW i \in Possible, Tick(i) PROVE TypeOK'
    BY <2>2, CpuAssumption DEF Tick, TypeOK, ReaderTypeOK, readers, writerVars
  <2>3. ASSUME NEW r \in Readers, ReaderCall(r) \/ ReaderStep(r) PROVE TypeOK'
    BY <2>3, ReaderStepType
  <2>4. CASE UNCHANGED vars
    BY <2>4 DEF vars, readers, writerVars, kernelVars, TypeOK, ReaderTypeOK
  <2>. QED
    BY <2>1, <2>2, <2>3, <2>4 DEF Next
<1>. QED
  BY <1>1, <1>2, PTL DEF Spec

(***************************************************************************)
(* The protocol.                                                           *)
(***************************************************************************)

\* The callback stores only while the counter is odd, and it publishes the
\* region as the counter becomes even.
LEMMA WriterStep ==
  ASSUME TypeOK, SeqlockInv, SeqWriteBegin \/ Callback
  PROVE  SeqlockInv'
<1>1. seq \in Nat /\ UNCHANGED readers
  BY DEF TypeOK, Callback, SeqWriteBegin, Stamp, ClearTotal, ZeroSlot, ReadOneCpu,
         AddStats, Count, SeqWriteEnd
<1>2. WriterInv /\ ReaderInv
  BY DEF SeqlockInv
<1>3. ASSUME seq' = seq + 1
      PROVE  ReaderInv'
  BY <1>1, <1>2, <1>3 DEF ReaderInv, readers, TypeOK, ReaderTypeOK
<1>4. CASE SeqWriteBegin
  <2>1. WriterInv'
    BY <1>1, <1>2, <1>4 DEF SeqWriteBegin, WriterInv, Goto
  <2>. QED
    BY <1>3, <1>4, <2>1 DEF SeqlockInv, SeqWriteBegin
<1>5. CASE SeqWriteEnd
  <2>1. WriterInv'
    BY <1>1, <1>2, <1>5 DEF SeqWriteEnd, WriterInv, Goto
  <2>. QED
    BY <1>3, <1>5, <2>1 DEF SeqlockInv, SeqWriteEnd
<1>6. CASE Stamp \/ ClearTotal \/ ZeroSlot \/ ReadOneCpu \/ AddStats \/ Count
  <2>1. wpc # "idle" /\ wpc' # "idle" /\ UNCHANGED <<seq, published>>
    BY <1>6 DEF Stamp, ClearTotal, ZeroSlot, ReadOneCpu, AddStats, Count, Goto
  <2>2. seq % 2 # 0
    BY <1>2, <2>1 DEF WriterInv
  <2>3. WriterInv'
    BY <2>1, <2>2 DEF WriterInv
  <2>4. ReaderInv'
    BY <1>1, <1>2, <2>1, <2>2 DEF ReaderInv, readers
  <2>. QED
    BY <2>3, <2>4 DEF SeqlockInv
<1>. QED
  BY <1>4, <1>5, <1>6 DEF Callback

\* A reader's copy agrees with the region word by word for as long as the
\* counter stays what the reader saw first.
LEMMA ReaderStepInv ==
  ASSUME TypeOK, SeqlockInv, NEW r \in Readers, ReaderCall(r) \/ ReaderStep(r)
  PROVE  SeqlockInv'
<1>1. UNCHANGED <<seq, mem, wpc, published>>
  BY DEF ReaderCall, Call, ReaderStep, Reading, ReadSeq1, CopyWord, ReadSeq2,
         writerVars
<1>2. WriterInv'
  BY <1>1 DEF SeqlockInv, WriterInv
<1> USE DEF TypeOK, ReaderTypeOK, SeqlockInv, ReaderInv
<1>3. CASE ReaderCall(r)
  BY <1>1, <1>2, <1>3 DEF ReaderCall, Call
<1>4. CASE ReadSeq1(r)
  BY <1>1, <1>2, <1>4 DEF ReadSeq1
<1>5. ASSUME NEW w \in CpuWords, CopyWord(r, w)
      PROVE  ReaderInv'
  BY <1>1, <1>5 DEF CopyWord
<1>6. CASE ReadSeq2(r)
  BY <1>1, <1>2, <1>6 DEF ReadSeq2
<1>. QED
  BY <1>2, <1>3, <1>4, <1>5, <1>6 DEF ReaderStep, Reading

\* The seqlock's inductive invariant.
THEOREM SeqlockSafe == Spec => []SeqlockInv
<1>1. Init => SeqlockInv
  BY DEF Init, ReaderInit, SeqlockInv, WriterInv, ReaderInv, Zeroes
<1>2. TypeOK /\ SeqlockInv /\ [Next]_vars => SeqlockInv'
  <2> SUFFICES ASSUME TypeOK, SeqlockInv, [Next]_vars PROVE SeqlockInv'
    OBVIOUS
  <2>1. CASE SeqWriteBegin \/ Callback
    BY <2>1, WriterStep
  <2>2. ASSUME NEW i \in Possible, Tick(i) PROVE SeqlockInv'
    BY <2>2 DEF Tick, SeqlockInv, WriterInv, ReaderInv, readers, writerVars
  <2>3. ASSUME NEW r \in Readers, ReaderCall(r) \/ ReaderStep(r) PROVE SeqlockInv'
    BY <2>3, ReaderStepInv
  <2>4. CASE UNCHANGED vars
    BY <2>4 DEF vars, readers, writerVars, kernelVars, SeqlockInv, WriterInv, ReaderInv
  <2>. QED
    BY <2>1, <2>2, <2>3, <2>4 DEF Next
<1>. QED
  BY <1>1, <1>2, TypeCorrect, PTL DEF Spec

(***************************************************************************)
(* The refinement.                                                         *)
(***************************************************************************)

\* A snapshot() that returns gives the reader the region published last.
LEMMA ReturnIsRead ==
  ASSUME TypeOK, SeqlockInv, NEW r \in Readers, ReadSeq2(r), ~ Retry(r)
  PROVE  got' = [got EXCEPT ![r] = published]
<1>1. /\ rpc[r] = "copy" /\ copied[r] = CpuWords /\ seq = seq1[r]
      /\ got' = [got EXCEPT ![r] = local[r]]
  BY DEF ReadSeq2, Retry
<1>2. \A w \in CpuWords : local[r][w] = mem[w]
  BY <1>1 DEF SeqlockInv, ReaderInv
<1>3. mem = published
  BY <1>1 DEF SeqlockInv, ReaderInv, WriterInv
<1>4. local[r] = mem
  BY <1>2 DEF TypeOK, ReaderTypeOK
<1>. QED
  BY <1>1, <1>3, <1>4

\* Every step is a publication, an atomic read or invisible to the abstract
\* specification.
LEMMA StepRefines ==
  ASSUME TypeOK, TypeOK', SeqlockInv, [Next]_vars
  PROVE  [Abstract!Next]_(Abstract!vars)
<1> USE DEF Abstract!Next, Abstract!vars, Abstract!Publish, Abstract!Read, Abstract!Regions
<1>1. CASE SeqWriteEnd
  <2>1. published' \in [CpuWords -> Nat] /\ UNCHANGED got
    BY <1>1 DEF SeqWriteEnd, TypeOK, readers
  <2>. QED
    BY <2>1
<1>2. CASE \/ SeqWriteBegin \/ Stamp \/ ClearTotal \/ ZeroSlot \/ ReadOneCpu
           \/ AddStats \/ Count
  <2>1. UNCHANGED <<published, got>>
    BY <1>2 DEF SeqWriteBegin, Stamp, ClearTotal, ZeroSlot, ReadOneCpu, AddStats,
                Count, readers
  <2>. QED
    BY <2>1
<1>3. ASSUME NEW i \in Possible, Tick(i)
      PROVE  UNCHANGED <<published, got>>
  BY <1>3 DEF Tick, readers
<1>4. ASSUME NEW r \in Readers, ReaderCall(r) \/ ReaderStep(r)
      PROVE  [Abstract!Next]_(Abstract!vars)
  <2>1. UNCHANGED published
    BY <1>4 DEF ReaderCall, ReaderStep
  <2>2. CASE ReadSeq2(r) /\ ~ Retry(r)
    BY <2>1, <2>2, ReturnIsRead
  <2>3. CASE ~ (ReadSeq2(r) /\ ~ Retry(r))
    <3>1. UNCHANGED got
      BY <1>4, <2>3 DEF ReaderCall, Call, ReaderStep, Reading, ReadSeq1, CopyWord, ReadSeq2
    <3>. QED
      BY <2>1, <3>1
  <2>. QED
    BY <2>2, <2>3
<1>5. CASE UNCHANGED vars
  BY <1>5 DEF vars, readers
<1>. QED
  BY <1>1, <1>2, <1>3, <1>4, <1>5 DEF Next, Callback

\* The collector and its readers implement the abstract region of Snapshot:
\* every snapshot() returns, whole, a region the callback published, the last one
\* published before it returns.
THEOREM SnapshotIsAtomic == Spec => ReadsAreAtomic
<1>1. Init => Abstract!Init
  BY DEF Init, ReaderInit, Abstract!Init, Zeroes, Abstract!Zeroed
<1>2. TypeOK /\ TypeOK' /\ SeqlockInv /\ [Next]_vars => [Abstract!Next]_(Abstract!vars)
  BY StepRefines
<1>. QED
  BY <1>1, <1>2, TypeCorrect, SeqlockSafe, PTL DEF Spec, ReadsAreAtomic, Abstract!Spec

(***************************************************************************)
(* A snapshot adds up.                                                     *)
(***************************************************************************)

\* No word of the region is another.
LEMMA WordsApart ==
  /\ Timestamp # Total /\ Timestamp # NrCpus /\ Total # NrCpus
  /\ \A i : Slot(i) \notin {Timestamp, Total, NrCpus}
  /\ \A i, j : Slot(i) = Slot(j) => i = j
BY DEF Timestamp, Total, NrCpus, Slot

\* A store changes the word it names.
LEMMA StoreEffect ==
  ASSUME TypeOK, NEW w \in CpuWords, NEW v, Store(w, v)
  PROVE  mem'[w] = v /\ \A x \in CpuWords : x # w => mem'[x] = mem[x]
BY DEF Store, TypeOK

\* The slots up to an index: they are words, finitely many, and all of them at the end.
LEMMA SlotsBelowFacts ==
  ASSUME NEW i \in 0 .. MaxCpus
  PROVE  /\ SlotsBelow(i) \subseteq CpuWords /\ IsFiniteSet(SlotsBelow(i))
         /\ \A j \in 0 .. i - 1 : Slot(j) \in SlotsBelow(i) /\ j \in CPUs
         /\ \A s \in SlotsBelow(i) : \E j \in 0 .. i - 1 : s = Slot(j)
         /\ SlotsBelow(0) = {} /\ SlotsBelow(MaxCpus) = Slots
         /\ i < MaxCpus => /\ SlotsBelow(i + 1) = SlotsBelow(i) \cup {Slot(i)}
                           /\ Slot(i) \notin SlotsBelow(i)
<1>1. MaxCpus \in Nat /\ i \in Nat
  BY CpuAssumption
<1>2. SlotsBelow(i) \subseteq CpuWords
  BY <1>1 DEF SlotsBelow, CpuWords, Slots, CPUs
<1>3. IsFiniteSet(SlotsBelow(i))
  <2> DEFINE m == [s \in SlotsBelow(i) |-> s[2]]
  <2>1. \A s \in SlotsBelow(i) : s[2] \in 0 .. i - 1 /\ s = Slot(s[2])
    BY DEF SlotsBelow, Slot
  <2>2. m \in Injection(SlotsBelow(i), 0 .. i - 1)
    BY <2>1 DEF Injection, IsInjective
  <2>3. IsFiniteSet(0 .. i - 1)
    BY <1>1, FS_Interval
  <2> QED
    BY <2>2, <2>3, FS_Injection
<1>4. /\ \A j \in 0 .. i - 1 : Slot(j) \in SlotsBelow(i) /\ j \in CPUs
      /\ \A s \in SlotsBelow(i) : \E j \in 0 .. i - 1 : s = Slot(j)
  BY <1>1 DEF SlotsBelow, CPUs
<1>5. SlotsBelow(0) = {} /\ SlotsBelow(MaxCpus) = Slots
  BY <1>1 DEF SlotsBelow, Slots, CPUs
<1>6. ASSUME i < MaxCpus
      PROVE  SlotsBelow(i + 1) = SlotsBelow(i) \cup {Slot(i)} /\ Slot(i) \notin SlotsBelow(i)
  <2>1. 0 .. (i + 1) - 1 = (0 .. i - 1) \cup {i}
    BY <1>1
  <2>2. SlotsBelow(i + 1) = SlotsBelow(i) \cup {Slot(i)}
    BY <2>1 DEF SlotsBelow
  <2>3. i \notin 0 .. i - 1
    BY <1>1
  <2> QED
    BY <2>2, <2>3, WordsApart DEF SlotsBelow
<1> QED
  BY <1>2, <1>3, <1>4, <1>5, <1>6

\* Stores to other words than total and the slots added up so far change no sum.
LEMMA AddedUpKept ==
  ASSUME TypeOK, TypeOK', NEW i \in 0 .. MaxCpus, AddedUp(i), nr' = nr,
         mem'[Total] = mem[Total], \A j \in 0 .. i - 1 : mem'[Slot(j)] = mem[Slot(j)]
  PROVE  AddedUp(i)'
<1>1. \A s \in SlotsBelow(i) : mem[s] \in Nat /\ mem[s] = mem'[s]
  BY SlotsBelowFacts DEF TypeOK
<1>2. SumFunctionOnSet(mem, SlotsBelow(i)) = SumFunctionOnSet(mem', SlotsBelow(i))
  BY <1>1, SlotsBelowFacts, SumSame
<1>3. nr > 0 => nr - 1 \in 0 .. i - 1
  BY DEF AddedUp, TypeOK
<1> QED
  BY <1>2, <1>3 DEF AddedUp

\* add_stats takes the next slot in.
LEMMA AddStatsAddsUp ==
  ASSUME TypeOK, TypeOK', AddStats, NEW c \in CPUs, c = cpu, AddedUp(c)
  PROVE  c + 1 \in 0 .. MaxCpus /\ AddedUp(c + 1)'
<1>1. /\ c \in Nat /\ c < MaxCpus /\ MaxCpus \in Nat
      /\ c \in 0 .. MaxCpus /\ c + 1 \in 0 .. MaxCpus /\ nr \in Nat
  BY CpuAssumption DEF TypeOK, CPUs
<1>2. /\ Total \in CpuWords /\ Slot(c) \in CpuWords /\ mem[Total] \in Nat /\ mem[Slot(c)] \in Nat
      /\ \A j \in 0 .. c : Slot(j) \in CpuWords /\ mem[Slot(j)] \in Nat
  <2>1. \A j \in 0 .. c : j \in CPUs
    BY <1>1 DEF CPUs
  <2> QED
    BY <1>1, <2>1, WordsOfRegion DEF TypeOK
<1>3. /\ mem'[Total] = mem[Total] + mem[Slot(c)]
      /\ \A j \in 0 .. c : mem'[Slot(j)] = mem[Slot(j)]
      /\ nr' = IF mem[Slot(c)] # 0 THEN c + 1 ELSE nr
  <2>1. CASE mem[Slot(c)] # 0
    <3>1. Store(Total, mem[Total] + mem[Slot(c)]) /\ nr' = c + 1
      BY <2>1 DEF AddStats
    <3> QED
      BY <1>2, <2>1, <3>1, StoreEffect, WordsApart
  <2>2. CASE mem[Slot(c)] = 0
    BY <1>2, <2>2 DEF AddStats
  <2> QED
    BY <2>1, <2>2
<1> DEFINE Below == SlotsBelow(c)
           Next1 == SlotsBelow(c + 1)
<1>4. /\ IsFiniteSet(Below) /\ IsFiniteSet(Next1) /\ Slot(c) \in Next1 /\ Next1 \ {Slot(c)} = Below
      /\ \A s \in Next1 : mem[s] \in Nat /\ mem'[s] = mem[s]
  <2>1. Next1 = Below \cup {Slot(c)} /\ Slot(c) \notin Below
    BY <1>1, SlotsBelowFacts
  <2>2. IsFiniteSet(Below) /\ IsFiniteSet(Next1) /\ \A s \in Next1 : \E j \in 0 .. (c + 1) - 1 : s = Slot(j)
    BY <1>1, SlotsBelowFacts
  <2>3. \A j \in 0 .. (c + 1) - 1 : j \in 0 .. c
    BY <1>1
  <2> QED
    BY <1>2, <1>3, <2>1, <2>2, <2>3
<1> HIDE DEF Below, Next1
<1>5. SumFunctionOnSet(mem, Next1) = mem[Slot(c)] + SumFunctionOnSet(mem, Below)
  BY <1>4, SumSplit
<1>6. SumFunctionOnSet(mem, Next1) = SumFunctionOnSet(mem', Next1)
  BY <1>4, SumSame
<1>7. mem[Total] = SumFunctionOnSet(mem, Below)
  BY DEF AddedUp, Below
<1>8. mem'[Total] = SumFunctionOnSet(mem', SlotsBelow(c + 1))
  BY <1>2, <1>3, <1>5, <1>6, <1>7 DEF Next1
<1>9. /\ nr' <= c + 1
      /\ \A j \in 0 .. (c + 1) - 1 : j >= nr' => mem'[Slot(j)] = 0
      /\ nr' > 0 => mem'[Slot(nr' - 1)] # 0
  <2>1. /\ nr <= c /\ \A j \in 0 .. c - 1 : j >= nr => mem[Slot(j)] = 0
        /\ nr > 0 => mem[Slot(nr - 1)] # 0
    BY DEF AddedUp
  <2>2. CASE mem[Slot(c)] # 0
    BY <1>1, <1>3, <2>2
  <2>3. CASE mem[Slot(c)] = 0
    <3>1. nr' = nr
      BY <1>3, <2>3
    <3>2. ASSUME NEW j \in 0 .. (c + 1) - 1, j >= nr PROVE mem'[Slot(j)] = 0
      <4>1. j \in 0 .. c /\ (j = c \/ j \in 0 .. c - 1)
        BY <1>1
      <4> QED
        BY <1>3, <2>1, <2>3, <3>2, <4>1
    <3>3. nr > 0 => nr - 1 \in 0 .. c
      BY <1>1, <2>1
    <3> QED
      BY <1>1, <1>3, <2>1, <3>1, <3>2, <3>3
  <2> QED
    BY <2>2, <2>3
<1> QED
  BY <1>1, <1>8, <1>9 DEF AddedUp

\* What RegionInv says of the callback's loop.
LoopInv ==
  /\ wpc \in {"zero", "read", "add"} => AddedUp(cpu)
  /\ wpc \in {"count", "end"} => AddedUp(MaxCpus)
  /\ wpc = "end" => mem[NrCpus] = nr

\* The memset of total makes it the sum of no slot.
LEMMA ClearedAddsUp ==
  ASSUME TypeOK, ClearTotal
  PROVE  AddedUp(0)'
<1>1. mem'[Total] = 0 /\ nr' = 0
  BY StoreEffect, WordsOfRegion DEF ClearTotal
<1>2. SlotsBelow(0) = {}
  BY DEF SlotsBelow
<1>3. SumFunctionOnSet(mem', SlotsBelow(0)) = 0
  BY <1>2, SumOfNone
<1> QED
  BY <1>1, <1>3 DEF AddedUp

\* The loop's invariant through every step of the callback.
LEMMA CallbackLoop ==
  ASSUME TypeOK, TypeOK', LoopInv, SeqWriteBegin \/ Callback
  PROVE  LoopInv'
<1> USE DEF Goto
<1>1. /\ MaxCpus \in Nat /\ MaxCpus \in 0 .. MaxCpus
      /\ \A i \in CPUs : i \in 0 .. MaxCpus /\ i \in Nat
      /\ Slots \subseteq CpuWords
  BY CpuAssumption DEF CPUs, CpuWords
<1>2. CASE SeqWriteBegin \/ Stamp \/ SeqWriteEnd
  BY <1>2 DEF SeqWriteBegin, Stamp, SeqWriteEnd, LoopInv
<1>3. CASE ClearTotal
  <2>1. AddedUp(0)' /\ cpu' = 0 /\ wpc' \in {"zero", "count"}
    BY <1>3, ClearedAddsUp DEF ClearTotal
  <2>2. wpc' = "count" => MaxCpus = 0
    BY <1>1, <1>3 DEF ClearTotal, CPUs
  <2> QED
    BY <2>1, <2>2 DEF LoopInv, AddedUp
<1>4. CASE ZeroSlot \/ ReadOneCpu
  <2>1. wpc \in {"zero", "read"} /\ cpu \in CPUs /\ cpu' = cpu /\ wpc' \in {"read", "add"} /\ nr' = nr
    BY <1>4 DEF ZeroSlot, ReadOneCpu, TypeOK
  <2>2. \A w \in CpuWords : w # Slot(cpu) => mem'[w] = mem[w]
    <3>1. CASE UNCHANGED mem
      BY <3>1
    <3>2. ASSUME NEW v, Store(Slot(cpu), v)
          PROVE  \A w \in CpuWords : w # Slot(cpu) => mem'[w] = mem[w]
      BY <2>1, <3>2, StoreEffect, WordsOfRegion
    <3> QED
      BY <1>4, <3>1, <3>2 DEF ZeroSlot, ReadOneCpu
  <2>3. \A j \in 0 .. cpu - 1 : j \in CPUs /\ j # cpu
    BY <1>1, <2>1 DEF CPUs
  <2>4. mem'[Total] = mem[Total] /\ \A j \in 0 .. cpu - 1 : mem'[Slot(j)] = mem[Slot(j)]
    BY <2>1, <2>2, <2>3, WordsOfRegion, WordsApart
  <2>5. ASSUME NEW c \in 0 .. MaxCpus, c = cpu PROVE AddedUp(c)'
    <3>1. AddedUp(c)
      BY <2>1, <2>5 DEF LoopInv, AddedUp
    <3> QED
      BY <2>1, <2>4, <2>5, <3>1, AddedUpKept
  <2>6. AddedUp(cpu)'
    BY <1>1, <2>1, <2>5 DEF AddedUp
  <2> QED
    BY <2>1, <2>6 DEF LoopInv
<1>5. CASE AddStats
  <2>1. /\ wpc = "add" /\ cpu \in CPUs
        /\ wpc' = IF cpu + 1 < MaxCpus THEN "zero" ELSE "count"
        /\ cpu' = IF cpu + 1 < MaxCpus THEN cpu + 1 ELSE 0
    BY <1>5 DEF AddStats, TypeOK
  <2>2. ASSUME NEW c \in CPUs, c = cpu PROVE c + 1 \in 0 .. MaxCpus /\ AddedUp(c + 1)'
    <3>1. AddedUp(c)
      BY <2>1, <2>2 DEF LoopInv, AddedUp
    <3> QED
      BY <1>5, <2>2, <3>1, AddStatsAddsUp
  <2>3. PICK c \in CPUs : c = cpu
    BY <2>1
  <2>4. c + 1 \in 0 .. MaxCpus /\ AddedUp(c + 1)'
    BY <2>2, <2>3
  <2>5. CASE c + 1 < MaxCpus
    <3>1. wpc' = "zero" /\ cpu' = c + 1
      BY <2>1, <2>3, <2>5
    <3> QED
      BY <2>4, <3>1 DEF LoopInv, AddedUp
  <2>6. CASE ~ (c + 1 < MaxCpus)
    <3>1. wpc' = "count" /\ c + 1 = MaxCpus
      BY <1>1, <2>1, <2>3, <2>4, <2>6
    <3> QED
      BY <2>4, <3>1 DEF LoopInv
  <2> QED
    BY <2>5, <2>6
<1>6. CASE Count
  <2>1. /\ wpc = "count" /\ wpc' = "end" /\ nr' = nr /\ Store(NrCpus, nr)
    BY <1>6 DEF Count
  <2>2. /\ mem'[NrCpus] = nr
        /\ \A w \in CpuWords : w # NrCpus => mem'[w] = mem[w]
    BY <2>1, StoreEffect, WordsOfRegion
  <2>3. mem'[Total] = mem[Total] /\ \A j \in 0 .. MaxCpus - 1 : mem'[Slot(j)] = mem[Slot(j)]
    BY <2>2, WordsOfRegion, WordsApart DEF CPUs
  <2>4. AddedUp(MaxCpus)
    BY <2>1 DEF LoopInv
  <2>5. AddedUp(MaxCpus)'
    BY <1>1, <2>1, <2>3, <2>4, AddedUpKept
  <2> QED
    BY <2>1, <2>2, <2>5 DEF LoopInv
<1> QED
  BY <1>2, <1>3, <1>4, <1>5, <1>6 DEF Callback

\* At its end the callback publishes a region that adds up.
LEMMA PublishedAddsUp ==
  ASSUME TypeOK, LoopInv, SeqWriteEnd
  PROVE  Consistent(published')
<1>1. /\ AddedUp(MaxCpus) /\ mem[NrCpus] = nr /\ published' = mem /\ nr \in Nat
      /\ MaxCpus \in Nat /\ MaxCpus \in 0 .. MaxCpus
  BY CpuAssumption DEF SeqWriteEnd, LoopInv, TypeOK
<1>2. SlotsBelow(MaxCpus) = Slots
  BY <1>1, SlotsBelowFacts
<1> QED
  BY <1>1, <1>2 DEF AddedUp, Consistent, CPUs

\* An empty region adds up.
LEMMA ZeroesAddUp == Consistent(Zeroes)
<1>1. /\ Total \in CpuWords /\ NrCpus \in CpuWords /\ Slots \subseteq CpuWords
      /\ \A i \in CPUs : Slot(i) \in CpuWords
      /\ MaxCpus \in Nat /\ MaxCpus \in 0 .. MaxCpus
  BY CpuAssumption, WordsOfRegion DEF CpuWords
<1>2. /\ Zeroes[Total] = 0 /\ Zeroes[NrCpus] = 0 /\ \A i \in CPUs : Zeroes[Slot(i)] = 0
      /\ \A s \in Slots : Zeroes[s] = 0
  BY <1>1 DEF Zeroes
<1>3. IsFiniteSet(Slots) /\ IsFiniteSet({})
  BY <1>1, SlotsBelowFacts, FS_EmptySet
<1> DEFINE p == [s \in Slots |-> s]
           Z == Zeroes
<1>4. \A s \in Slots : Z[s] \in Nat /\ ~ (Z[s] # 0)
  BY <1>2
<1>5. \A y \in {} : Z[y] \in Nat
  OBVIOUS
<1> HIDE DEF p, Z
<1>6. SumFunctionOnSet(Z, Slots) <= SumFunctionOnSet(Z, {})
  BY <1>3, <1>4, <1>5, SumMoved
<1>7. SumFunctionOnSet(Z, Slots) \in Nat /\ SumFunctionOnSet(Z, {}) = 0
  BY <1>3, <1>4, SumType, SumOfNone
<1> QED
  BY <1>1, <1>2, <1>6, <1>7 DEF Consistent, Z

\* Every step keeps the sums.
LEMMA RegionStep ==
  ASSUME TypeOK, TypeOK', SeqlockInv, RegionInv, [Next]_vars
  PROVE  RegionInv'
<1>1. LoopInv /\ Consistent(published) /\ \A r \in Readers : Consistent(got[r])
  BY DEF RegionInv, LoopInv, SnapshotsConsistent
<1> SUFFICES LoopInv' /\ Consistent(published') /\ \A r \in Readers : Consistent(got'[r])
  BY DEF RegionInv, LoopInv, SnapshotsConsistent
<1>2. CASE SeqWriteEnd
  <2>1. LoopInv' /\ Consistent(published')
    BY <1>1, <1>2, CallbackLoop, PublishedAddsUp DEF Callback
  <2>2. UNCHANGED got
    BY <1>2 DEF SeqWriteEnd, readers
  <2> QED
    BY <1>1, <2>1, <2>2
<1>3. CASE SeqWriteBegin \/ Stamp \/ ClearTotal \/ ZeroSlot \/ ReadOneCpu \/ AddStats \/ Count
  <2>1. LoopInv'
    BY <1>1, <1>3, CallbackLoop DEF Callback
  <2>2. UNCHANGED <<got, published>>
    BY <1>3 DEF SeqWriteBegin, Stamp, ClearTotal, ZeroSlot, ReadOneCpu, AddStats, Count, readers
  <2> QED
    BY <1>1, <2>1, <2>2
<1>4. ASSUME NEW i \in Possible, Tick(i)
      PROVE  LoopInv' /\ Consistent(published') /\ \A r \in Readers : Consistent(got'[r])
  BY <1>1, <1>4 DEF Tick, LoopInv, AddedUp, readers, writerVars
<1>5. ASSUME NEW r \in Readers, ReaderCall(r) \/ ReaderStep(r)
      PROVE  LoopInv' /\ Consistent(published') /\ \A q \in Readers : Consistent(got'[q])
  <2>1. UNCHANGED <<mem, writerVars, published>>
    BY <1>5 DEF ReaderCall, Call, ReaderStep, Reading, ReadSeq1, CopyWord, ReadSeq2
  <2>2. LoopInv' /\ Consistent(published')
    BY <1>1, <2>1 DEF LoopInv, AddedUp, writerVars
  <2>3. CASE ReadSeq2(r) /\ ~ Retry(r)
    <3>1. got' = [got EXCEPT ![r] = published]
      BY <2>3, ReturnIsRead
    <3>2. \A q \in Readers : got'[q] = published \/ got'[q] = got[q]
      BY <3>1 DEF TypeOK, ReaderTypeOK
    <3> QED
      BY <1>1, <2>2, <3>2
  <2>4. CASE ~ (ReadSeq2(r) /\ ~ Retry(r))
    <3>1. UNCHANGED got
      BY <1>5, <2>4 DEF ReaderCall, Call, ReaderStep, Reading, ReadSeq1, CopyWord, ReadSeq2
    <3> QED
      BY <1>1, <2>2, <3>1
  <2> QED
    BY <2>3, <2>4
<1>6. CASE UNCHANGED vars
  BY <1>1, <1>6 DEF vars, readers, writerVars, LoopInv, AddedUp
<1> QED
  BY <1>2, <1>3, <1>4, <1>5, <1>6 DEF Next, Callback

\* The region's sums at every moment of the callback.
THEOREM RegionInvariant == Spec => []RegionInv
<1>1. Init => RegionInv
  <2> SUFFICES ASSUME Init PROVE RegionInv
    OBVIOUS
  <2>1. \A r \in Readers : got[r] = Zeroes
    BY DEF Init, ReaderInit
  <2> QED
    BY <2>1, ZeroesAddUp DEF Init, RegionInv, SnapshotsConsistent
<1>2. TypeOK /\ TypeOK' /\ SeqlockInv /\ RegionInv /\ [Next]_vars => RegionInv'
  BY RegionStep
<1> QED
  BY <1>1, <1>2, TypeCorrect, SeqlockSafe, PTL DEF Spec

\* In every snapshot total is the sum of the slots, and nr_cpus is one more than the
\* last slot in use.
THEOREM EverySnapshotAddsUp == Spec => []SnapshotsConsistent
<1>1. RegionInv => SnapshotsConsistent
  BY DEF RegionInv
<1> QED
  BY <1>1, RegionInvariant, PTL

(***************************************************************************)
(* No word of a snapshot ever goes back.                                   *)
(***************************************************************************)

\* What GrowthInv says of the clocks and of the words stored so far.
Grown ==
  /\ published[Timestamp] <= now
  /\ \A i \in CPUs : published[Slot(i)] <= CpuClock(i)
  /\ wpc \notin {"idle", "stamp"} => mem[Timestamp] \in published[Timestamp] .. now
  /\ wpc = "read" => mem[Slot(cpu)] = 0
  /\ \A i \in CPUs : Redone(i) => mem[Slot(i)] \in published[Slot(i)] .. CpuClock(i)

\* Clocks and words are numbers.
LEMMA GrowthType ==
  ASSUME TypeOK
  PROVE  /\ now \in Nat /\ \A i \in CPUs : CpuClock(i) \in Nat
         /\ \A w \in CpuWords : mem[w] \in Nat /\ published[w] \in Nat
BY DEF TypeOK, CpuClock

\* The callback's steps up to the last store the words between clock and region.
LEMMA StoresGrow ==
  ASSUME TypeOK, TypeOK', Grown,
         SeqWriteBegin \/ Stamp \/ ClearTotal \/ ZeroSlot \/ ReadOneCpu \/ AddStats \/ Count
  PROVE  Grown'
<1> USE DEF Goto
<1>1. UNCHANGED <<published, cpustat, now>> /\ \A i : CpuClock(i)' = CpuClock(i)
  BY DEF SeqWriteBegin, Stamp, ClearTotal, ZeroSlot, ReadOneCpu, AddStats, Count, kernelVars,
         CpuClock
<1>2. /\ MaxCpus \in Nat /\ \A i \in CPUs : i \in Nat /\ i < MaxCpus
      /\ cpu \in Nat
      /\ wpc \in {"zero", "read", "add"} => cpu \in CPUs
  BY CpuAssumption DEF CPUs, TypeOK
<1>3. CASE SeqWriteBegin
  BY <1>1, <1>3 DEF SeqWriteBegin, Grown, Redone
<1>4. CASE Stamp
  <2>1. mem'[Timestamp] = now
    BY <1>4, StoreEffect, WordsOfRegion DEF Stamp
  <2> QED
    BY <1>1, <1>4, <2>1, GrowthType, WordsOfRegion DEF Stamp, Grown, Redone
<1>5. CASE ClearTotal
  <2>1. mem'[Timestamp] = mem[Timestamp]
    BY <1>5, StoreEffect, WordsOfRegion, WordsApart DEF ClearTotal
  <2>2. \A i \in CPUs : ~ Redone(i)'
    BY <1>2, <1>5 DEF ClearTotal, Redone
  <2> QED
    BY <1>1, <1>5, <2>1, <2>2 DEF ClearTotal, Grown
<1>6. CASE ZeroSlot
  <2>1. cpu \in CPUs /\ Store(Slot(cpu), 0)
    BY <1>2, <1>6 DEF ZeroSlot
  <2>2. mem'[Slot(cpu)] = 0 /\ \A w \in CpuWords : w # Slot(cpu) => mem'[w] = mem[w]
    BY <2>1, StoreEffect, WordsOfRegion
  <2>3. mem'[Timestamp] = mem[Timestamp] /\ \A i \in CPUs : i # cpu => mem'[Slot(i)] = mem[Slot(i)]
    BY <2>2, WordsOfRegion, WordsApart
  <2> QED
    BY <1>1, <1>2, <1>6, <2>2, <2>3 DEF ZeroSlot, Grown, Redone
<1>7. CASE ReadOneCpu
  <2>1. cpu \in CPUs /\ Slot(cpu) \in CpuWords /\ Redone(cpu)' /\ mem[Slot(cpu)] = 0
    BY <1>2, <1>7, WordsOfRegion DEF ReadOneCpu, Redone, Grown
  <2>2. \A w \in CpuWords : w # Slot(cpu) => mem'[w] = mem[w]
    BY <1>7, <2>1, StoreEffect DEF ReadOneCpu
  <2>3. mem'[Slot(cpu)] = CpuClock(cpu)
    <3>1. CASE cpu \in Possible
      BY <1>7, <2>1, <3>1, StoreEffect DEF ReadOneCpu, CpuClock
    <3>2. CASE cpu \notin Possible
      BY <1>7, <2>1, <3>2 DEF ReadOneCpu, CpuClock
    <3> QED
      BY <3>1, <3>2
  <2>4. mem'[Timestamp] = mem[Timestamp] /\ \A i \in CPUs : i # cpu => mem'[Slot(i)] = mem[Slot(i)]
    BY <2>2, WordsOfRegion, WordsApart
  <2>5. ASSUME NEW i \in CPUs, Redone(i)'
        PROVE  mem'[Slot(i)] \in published[Slot(i)] .. CpuClock(i)
    <3>1. CASE i = cpu
      BY <2>3, <3>1, GrowthType, WordsOfRegion DEF Grown
    <3>2. CASE i # cpu
      <4>1. Redone(i)
        BY <1>2, <1>7, <2>5, <3>2 DEF ReadOneCpu, Redone
      <4> QED
        BY <2>4, <3>2, <4>1 DEF Grown
    <3> QED
      BY <3>1, <3>2
  <2> QED
    BY <1>1, <1>7, <2>4, <2>5 DEF ReadOneCpu, Grown
<1>8. CASE AddStats
  <2>1. mem'[Timestamp] = mem[Timestamp] /\ \A i \in CPUs : mem'[Slot(i)] = mem[Slot(i)]
    <3>1. CASE mem[Slot(cpu)] # 0
      <4>1. Store(Total, mem[Total] + mem[Slot(cpu)])
        BY <1>8, <3>1 DEF AddStats
      <4>2. \A w \in CpuWords : w # Total => mem'[w] = mem[w]
        BY <4>1, StoreEffect, WordsOfRegion
      <4> QED
        BY <4>2, WordsOfRegion, WordsApart
    <3>2. CASE mem[Slot(cpu)] = 0
      BY <1>8, <3>2 DEF AddStats
    <3> QED
      BY <3>1, <3>2
  <2>2. \A i \in CPUs : Redone(i)' => Redone(i)
    BY <1>2, <1>8 DEF AddStats, Redone
  <2> QED
    BY <1>1, <1>8, <2>1, <2>2 DEF AddStats, Grown
<1>9. CASE Count
  <2>1. \A w \in CpuWords : w # NrCpus => mem'[w] = mem[w]
    BY <1>9, StoreEffect, WordsOfRegion DEF Count
  <2>2. mem'[Timestamp] = mem[Timestamp] /\ \A i \in CPUs : mem'[Slot(i)] = mem[Slot(i)]
    BY <2>1, WordsOfRegion, WordsApart
  <2> QED
    BY <1>1, <1>9, <2>2 DEF Count, Grown, Redone
<1> QED
  BY <1>3, <1>4, <1>5, <1>6, <1>7, <1>8, <1>9

\* At its end the callback publishes words no smaller than the ones before: total
\* because each slot is, nr_cpus because a slot in use stays in use.
LEMMA PublicationGrows ==
  ASSUME TypeOK, LoopInv, Grown, Consistent(published), SeqWriteEnd
  PROVE  Grown' /\ \A w \in CpuWords : published[w] <= published'[w]
<1>1. /\ wpc = "end" /\ published' = mem /\ UNCHANGED <<mem, cpustat, now>> /\ wpc' = "idle"
      /\ \A i : CpuClock(i)' = CpuClock(i)
  BY DEF SeqWriteEnd, Goto, kernelVars, CpuClock
<1>2. /\ published[Timestamp] <= mem[Timestamp] /\ mem[Timestamp] <= now
      /\ \A i \in CPUs : published[Slot(i)] <= mem[Slot(i)] /\ mem[Slot(i)] <= CpuClock(i)
  BY <1>1, GrowthType, WordsOfRegion DEF Grown, Redone
<1>3. Grown'
  BY <1>1, <1>2 DEF Grown, Redone
<1>4. MaxCpus \in Nat /\ MaxCpus \in 0 .. MaxCpus /\ nr \in Nat /\ Slots \subseteq CpuWords
  BY CpuAssumption DEF TypeOK, CpuWords
<1>5. IsFiniteSet(Slots) /\ SlotsBelow(MaxCpus) = Slots
  BY <1>4, SlotsBelowFacts
<1>6. AddedUp(MaxCpus) /\ mem[NrCpus] = nr
  BY <1>1 DEF LoopInv
<1>7. published[Total] <= mem[Total]
  <2>1. \A s \in Slots : published[s] \in Nat /\ mem[s] \in Nat /\ published[s] <= mem[s]
    BY <1>2, <1>4, GrowthType DEF Slots
  <2>2. SumFunctionOnSet(published, Slots) <= SumFunctionOnSet(mem, Slots)
    BY <1>5, <2>1, SumMonotone
  <2> QED
    BY <1>5, <1>6, <2>2 DEF AddedUp, Consistent
<1>8. published[NrCpus] <= mem[NrCpus]
  <2> DEFINE n == published[NrCpus]
  <2>1. /\ n \in Nat /\ n <= MaxCpus
        /\ n > 0 => published[Slot(n - 1)] # 0
    BY GrowthType, WordsOfRegion DEF Consistent
  <2>2. CASE n = 0
    BY <1>4, <1>6, <2>2
  <2>3. CASE n # 0
    <3>1. n - 1 \in CPUs /\ n - 1 \in 0 .. MaxCpus - 1 /\ n > 0
      BY <1>4, <2>1, <2>3 DEF CPUs
    <3>2. mem[Slot(n - 1)] # 0
      BY <1>2, <2>1, <3>1, GrowthType, WordsOfRegion
    <3>3. ~ (n - 1 >= nr)
      BY <1>6, <3>1, <3>2 DEF AddedUp
    <3> QED
      BY <1>4, <1>6, <2>1, <3>3
  <2> QED
    BY <2>2, <2>3
<1> QED
  BY <1>1, <1>2, <1>3, <1>7, <1>8 DEF CpuWords, Slots

\* Every step keeps the words and the clocks in their order.
LEMMA GrowthStep ==
  ASSUME TypeOK, TypeOK', SeqlockInv, RegionInv, GrowthInv, [Next]_vars
  PROVE  GrowthInv'
<1>1. /\ Grown /\ LoopInv /\ Consistent(published)
      /\ \A r \in Readers : \A w \in CpuWords : got[r][w] <= published[w]
  BY DEF GrowthInv, Grown, RegionInv, LoopInv
<1> SUFFICES Grown' /\ \A r \in Readers : \A w \in CpuWords : got'[r][w] <= published'[w]
  BY DEF GrowthInv, Grown
<1>2. CASE SeqWriteEnd
  <2>1. Grown' /\ \A w \in CpuWords : published[w] <= published'[w]
    BY <1>1, <1>2, PublicationGrows
  <2>2. UNCHANGED got
    BY <1>2 DEF SeqWriteEnd, readers
  <2>3. \A r \in Readers : \A w \in CpuWords : got[r][w] \in Nat /\ published[w] \in Nat /\ published'[w] \in Nat
    BY DEF TypeOK, ReaderTypeOK
  <2> QED
    BY <1>1, <2>1, <2>2, <2>3
<1>3. CASE SeqWriteBegin \/ Stamp \/ ClearTotal \/ ZeroSlot \/ ReadOneCpu \/ AddStats \/ Count
  <2>1. Grown'
    BY <1>1, <1>3, StoresGrow
  <2>2. UNCHANGED <<got, published>>
    BY <1>3 DEF SeqWriteBegin, Stamp, ClearTotal, ZeroSlot, ReadOneCpu, AddStats, Count, readers
  <2> QED
    BY <1>1, <2>1, <2>2
<1>4. ASSUME NEW k \in Possible, Tick(k)
      PROVE  Grown' /\ \A r \in Readers : \A w \in CpuWords : got'[r][w] <= published'[w]
  <2>1. UNCHANGED <<mem, published, wpc, cpu, got>> /\ now' = now + 1
    BY <1>4 DEF Tick, readers, writerVars
  <2>2. \A i \in CPUs : CpuClock(i)' \in Nat /\ CpuClock(i) \in Nat /\ CpuClock(i) <= CpuClock(i)'
    <3>1. cpustat' = [cpustat EXCEPT ![k] = @ + 1]
      BY <1>4 DEF Tick
    <3>2. \A i \in CPUs : cpustat[i] \in Nat /\ cpustat'[i] \in Nat /\ cpustat[i] <= cpustat'[i]
      BY <3>1 DEF TypeOK
    <3> QED
      BY <3>2 DEF CpuClock
  <2>3. \A i : Redone(i)' = Redone(i)
    BY <2>1 DEF Redone
  <2> QED
    BY <1>1, <2>1, <2>2, <2>3, GrowthType, WordsOfRegion DEF Grown
<1>5. ASSUME NEW r \in Readers, ReaderCall(r) \/ ReaderStep(r)
      PROVE  Grown' /\ \A q \in Readers : \A w \in CpuWords : got'[q][w] <= published'[w]
  <2>1. UNCHANGED <<mem, writerVars, kernelVars, published>>
    BY <1>5 DEF ReaderCall, Call, ReaderStep, Reading, ReadSeq1, CopyWord, ReadSeq2
  <2>2. Grown'
    BY <1>1, <2>1 DEF Grown, Redone, CpuClock, writerVars, kernelVars
  <2>3. CASE ReadSeq2(r) /\ ~ Retry(r)
    <3>1. got' = [got EXCEPT ![r] = published]
      BY <2>3, ReturnIsRead
    <3>2. \A q \in Readers : got'[q] = published \/ got'[q] = got[q]
      BY <3>1 DEF TypeOK, ReaderTypeOK
    <3> QED
      BY <1>1, <2>1, <2>2, <3>2, GrowthType
  <2>4. CASE ~ (ReadSeq2(r) /\ ~ Retry(r))
    <3>1. UNCHANGED got
      BY <1>5, <2>4 DEF ReaderCall, Call, ReaderStep, Reading, ReadSeq1, CopyWord, ReadSeq2
    <3> QED
      BY <1>1, <2>1, <2>2, <3>1
  <2> QED
    BY <2>3, <2>4
<1>6. CASE UNCHANGED vars
  BY <1>1, <1>6 DEF vars, readers, writerVars, kernelVars, Grown, Redone, CpuClock
<1> QED
  BY <1>2, <1>3, <1>4, <1>5, <1>6 DEF Next, Callback

\* Reader, region and clocks, one behind the other at every moment.
THEOREM GrowthInvariant == Spec => []GrowthInv
<1>1. Init => GrowthInv
  <2> SUFFICES ASSUME Init PROVE GrowthInv
    OBVIOUS
  <2>1. \A w \in CpuWords : published[w] = 0 /\ \A r \in Readers : got[r][w] = 0
    BY DEF Init, ReaderInit, Zeroes
  <2>2. \A i \in CPUs : CpuClock(i) = 0
    BY DEF Init, CpuClock
  <2> QED
    BY <2>1, <2>2, WordsOfRegion DEF Init, GrowthInv, Redone
<1>2. TypeOK /\ TypeOK' /\ SeqlockInv /\ RegionInv /\ GrowthInv /\ [Next]_vars => GrowthInv'
  BY GrowthStep
<1> QED
  BY <1>1, <1>2, TypeCorrect, SeqlockSafe, RegionInvariant, PTL DEF Spec

\* A reader's next snapshot has no word smaller than its last.
THEOREM NoWordGoesBack == Spec => SnapshotsMonotone
<1> DEFINE Monotone == \A r \in Readers : \A w \in CpuWords : got'[r][w] >= got[r][w]
<1>1. TypeOK /\ SeqlockInv /\ GrowthInv /\ [Next]_vars => [Monotone]_got
  <2> SUFFICES ASSUME TypeOK, SeqlockInv, GrowthInv, [Next]_vars PROVE [Monotone]_got
    OBVIOUS
  <2>1. ASSUME NEW r \in Readers, ReadSeq2(r), ~ Retry(r)
        PROVE  Monotone
    <3>1. got' = [got EXCEPT ![r] = published]
      BY <2>1, ReturnIsRead
    <3>2. \A q \in Readers : got'[q] = published \/ got'[q] = got[q]
      BY <3>1 DEF TypeOK, ReaderTypeOK
    <3>3. \A q \in Readers : \A w \in CpuWords : got[q][w] \in Nat /\ published[w] \in Nat
      BY DEF TypeOK, ReaderTypeOK
    <3> QED
      BY <3>2, <3>3 DEF GrowthInv
  <2>2. CASE SeqWriteBegin \/ Callback
    BY <2>2 DEF Callback, SeqWriteBegin, Stamp, ClearTotal, ZeroSlot, ReadOneCpu, AddStats,
                Count, SeqWriteEnd, readers
  <2>3. ASSUME NEW i \in Possible, Tick(i) PROVE UNCHANGED got
    BY <2>3 DEF Tick, readers
  <2>4. ASSUME NEW r \in Readers, ReaderCall(r) \/ ReaderStep(r), ~ (ReadSeq2(r) /\ ~ Retry(r))
        PROVE  UNCHANGED got
    BY <2>4 DEF ReaderCall, Call, ReaderStep, Reading, ReadSeq1, CopyWord, ReadSeq2
  <2>5. CASE UNCHANGED vars
    BY <2>5 DEF vars, readers
  <2> QED
    BY <2>1, <2>2, <2>3, <2>4, <2>5 DEF Next
<1> QED
  BY <1>1, TypeCorrect, SeqlockSafe, GrowthInvariant, PTL DEF Spec, SnapshotsMonotone
=============================================================================

------------------------------ MODULE SeqReader ------------------------------
(***************************************************************************)
(* The reader's half of the seqlock: MmapReader::snapshot of               *)
(* procfast/src/collector.rs, its copy in procfast-client/src/lib.rs and   *)
(* procfast__seqlock_read of procfast-native/procfast_client.h.  A module  *)
(* that models a writer of the region brings this one in by INSTANCE.      *)
(*                                                                         *)
(* A step is one load of shared memory.  The order of the loads is the     *)
(* program's (the fences of the code, and x86's TSO); memcpy may copy the  *)
(* words of the region in any order.                                       *)
(***************************************************************************)
EXTENDS Naturals

CONSTANTS Readers, Words

VARIABLES
  seq,     \* the region's first word, the sequence counter
  mem,     \* the region's other words
  rpc,     \* where each reader is: "out" of snapshot(), "seq1" or "copy"
  seq1,    \* the counter the reader saw first
  copied,  \* the words it has copied since
  local,   \* its copy, zeroed before the first word
  got      \* the region its last snapshot() returned

Zeroes == [w \in Words |-> 0]

ReaderInit ==
  /\ rpc = [r \in Readers |-> "out"]
  /\ seq1 = [r \in Readers |-> 0]
  /\ copied = [r \in Readers |-> {}]
  /\ local = [r \in Readers |-> Zeroes]
  /\ got = [r \in Readers |-> Zeroes]

Call(r) ==
  /\ rpc[r] = "out"
  /\ rpc' = [rpc EXCEPT ![r] = "seq1"]
  /\ UNCHANGED <<seq, mem, seq1, copied, local, got>>

\* An odd counter makes the reader load it again: no step of the model.
ReadSeq1(r) ==
  /\ rpc[r] = "seq1"
  /\ seq % 2 = 0
  /\ rpc' = [rpc EXCEPT ![r] = "copy"]
  /\ seq1' = [seq1 EXCEPT ![r] = seq]
  /\ UNCHANGED <<seq, mem, copied, local, got>>

CopyWord(r, w) ==
  /\ rpc[r] = "copy"
  /\ w \notin copied[r]
  /\ copied' = [copied EXCEPT ![r] = @ \cup {w}]
  /\ local' = [local EXCEPT ![r][w] = mem[w]]
  /\ UNCHANGED <<seq, mem, rpc, seq1, got>>

\* MUTANT of Retry: the copy is returned whatever the second load says.
NeverRetry(r) == FALSE

Retry(r) == seq # seq1[r]

ReadSeq2(r) ==
  /\ rpc[r] = "copy"
  /\ copied[r] = Words
  /\ IF Retry(r)
       THEN rpc' = [rpc EXCEPT ![r] = "seq1"] /\ UNCHANGED got
       ELSE /\ rpc' = [rpc EXCEPT ![r] = "out"]
            /\ got' = [got EXCEPT ![r] = local[r]]
  /\ seq1' = [seq1 EXCEPT ![r] = 0]
  /\ copied' = [copied EXCEPT ![r] = {}]
  /\ local' = [local EXCEPT ![r] = Zeroes]
  /\ UNCHANGED <<seq, mem>>

\* The steps of a snapshot() already called.
Reading(r) ==
  \/ ReadSeq1(r)
  \/ \E w \in Words : CopyWord(r, w)
  \/ ReadSeq2(r)

ReaderTypeOK ==
  /\ rpc \in [Readers -> {"out", "seq1", "copy"}]
  /\ seq1 \in [Readers -> Nat]
  /\ copied \in [Readers -> SUBSET Words]
  /\ local \in [Readers -> [Words -> Nat]]
  /\ got \in [Readers -> [Words -> Nat]]
=============================================================================

------------------------------ MODULE BatchReader ------------------------------
(***************************************************************************)
(* A client reads a hash map with bpf_map_lookup_batch: snapshot_all() of  *)
(* procfast/src/fd.rs, sock.rs and proc.rs, of procfast-client/src/lib.rs, *)
(* and procfast_read_procs, _fds, _cgroups of the C client.  The kernel    *)
(* copies whole buckets, each under its lock, and stops at one that no     *)
(* longer fits; the map changes from one bucket to the next.               *)
(***************************************************************************)
EXTENDS Naturals, FiniteSets

CONSTANTS
  Readers,
  NBuckets,   \* the buckets of the map are 0 .. NBuckets-1
  Bucket,     \* key -> the bucket it hashes to
  BatchSize   \* the most one call returns

VARIABLES
  table,    \* the map: key -> value; its domain is the set of its keys
  wpc,      \* where each reader is
  cursor,   \* in_batch: the bucket a reader's call goes on with
  taken,    \* count: what the call has copied so far
  got,      \* key -> how often it is in the result
  present   \* history: the keys that were in the map for all of the walk so far

walkVars == <<wpc, cursor, taken, got, present>>

Keys == DOMAIN Bucket

WalkInit ==
  /\ wpc = [r \in Readers |-> "idle"]
  /\ cursor = [r \in Readers |-> 0]
  /\ taken = [r \in Readers |-> 0]
  /\ got = [r \in Readers |-> [k \in Keys |-> 0]]
  /\ present = [r \in Readers |-> {}]

\* The first call, with no in_batch.
StartWalk(r) ==
  /\ wpc[r] = "idle"
  /\ wpc' = [wpc EXCEPT ![r] = "walk"]
  /\ present' = [present EXCEPT ![r] = DOMAIN table]
  /\ UNCHANGED <<cursor, taken, got>>

InBucket(b) == {k \in DOMAIN table : Bucket[k] = b}

Fits(r) == taken[r] + Cardinality(InBucket(cursor[r])) <= BatchSize

\* One bucket that fits.  The caller appends all of the call's count at its end.
CopyBucket(r) ==
  /\ wpc[r] = "walk" /\ cursor[r] < NBuckets /\ Fits(r)
  /\ got' = [got EXCEPT ![r] =
               [k \in Keys |-> IF k \in InBucket(cursor[r]) THEN @[k] + 1 ELSE @[k]]]
  /\ taken' = [taken EXCEPT ![r] = @ + Cardinality(InBucket(cursor[r]))]
  /\ cursor' = [cursor EXCEPT ![r] = @ + 1]
  /\ UNCHANGED <<wpc, present>>

\* MUTANT of CallAgain: the reader does not pass on where the call has stopped.
CallFromStart(r) ==
  /\ wpc[r] = "walk" /\ cursor[r] < NBuckets /\ ~ Fits(r) /\ taken[r] > 0
  /\ taken' = [taken EXCEPT ![r] = 0]
  /\ cursor' = [cursor EXCEPT ![r] = 0]
  /\ UNCHANGED <<wpc, got, present>>

\* The bucket does not fit, the call returns 0, and the loop calls again from there.
CallAgain(r) ==
  /\ wpc[r] = "walk" /\ cursor[r] < NBuckets /\ ~ Fits(r) /\ taken[r] > 0
  /\ taken' = [taken EXCEPT ![r] = 0]
  /\ UNCHANGED <<wpc, cursor, got, present>>

\* ENOENT: no bucket is left.
WalkEnd(r) ==
  /\ wpc[r] = "walk" /\ cursor[r] = NBuckets
  /\ wpc' = [wpc EXCEPT ![r] = "done"]
  /\ UNCHANGED <<cursor, taken, got, present>>

\* Another error (ENOMEM, ENOSPC for a bucket larger than a batch) at the start of a
\* call: ret != 0 as well, so that the caller returns what it has as if it were all.
WalkError(r) ==
  /\ wpc[r] = "walk" /\ cursor[r] < NBuckets /\ taken[r] = 0
  /\ wpc' = [wpc EXCEPT ![r] = "failed"]
  /\ UNCHANGED <<cursor, taken, got, present>>

ReadStep(r) ==
  \/ StartWalk(r) \/ CopyBucket(r) \/ CallAgain(r) \/ WalkEnd(r) \/ WalkError(r)

\* What every step that changes the map does to the readers' history.
Watch ==
  /\ present' = [r \in Readers |-> present[r] \cap DOMAIN table']
  /\ UNCHANGED <<wpc, cursor, taken, got>>

(***************************************************************************)
(* Properties                                                              *)
(***************************************************************************)

WalkTypeOK ==
  /\ wpc \in [Readers -> {"idle", "walk", "done", "failed"}]
  /\ cursor \in [Readers -> 0 .. NBuckets]
  /\ taken \in [Readers -> 0 .. BatchSize]
  /\ got \in [Readers -> [Keys -> Nat]]
  /\ present \in [Readers -> SUBSET Keys]

\* snapshot_all() of a map that changes meanwhile: nothing is in the result twice, and
\* if it ended with ENOENT, everything that was in the map all the time is in it.
WalkExact ==
  \A r \in Readers :
    /\ \A k \in Keys : got[r][k] <= 1
    /\ wpc[r] = "done" => \A k \in present[r] : got[r][k] = 1

\* The invariant behind it: what the result has is of the buckets behind the cursor, and
\* of these it has all that was there all the time and still is.
WalkInv ==
  \A r \in Readers :
    /\ \A k \in Keys : got[r][k] = 0 \/ (got[r][k] = 1 /\ Bucket[k] < cursor[r])
    /\ present[r] \subseteq DOMAIN table
    /\ \A k \in present[r] : Bucket[k] < cursor[r] => got[r][k] = 1
    /\ wpc[r] = "idle" => cursor[r] = 0
    /\ wpc[r] = "done" => cursor[r] = NBuckets
===============================================================================

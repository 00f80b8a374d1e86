---------------------------- MODULE FdTracker_proofs ----------------------------
(***************************************************************************)
(* What holds of the descriptor table and of its readers for any           *)
(* processes, descriptors, files, sockets and buckets: types, WalkExact    *)
(* and, for processes of one thread each, LiveMap and SocketsKnown.        *)
(***************************************************************************)
EXTENDS FdTracker, FiniteSetTheorems, TLAPS

\* The map never has more keys in a bucket than can be counted.
LEMMA BucketCounted ==
  ASSUME DOMAIN entries \subseteq FdKeys, NEW b
  PROVE  Cardinality(InBucket(b)) \in Nat
<1>1. IsFiniteSet(FdKeys)
  BY FS_Product, FdAssumption DEF FdKeys
<1>2. InBucket(b) \subseteq FdKeys
  BY DEF InBucket
<1> QED
  BY <1>1, <1>2, FS_Subset, FS_CardinalityType

(***************************************************************************)
(* Types                                                                   *)
(***************************************************************************)

\* A call that is under way has a regular file, and a number it may use.
CallTypes ==
  \A t \in Threads :
    /\ call[t].op \in {"open", "exit"} => call[t].file \in Regular
    /\ call[t].op \in {"exit", "close"} => call[t].fd \in Fds

TypeInv == TypeOK /\ CallTypes

\* What an insert does to the type of fd_entries.
LEMMA PutTypes ==
  ASSUME TypeOK, NEW k \in FdKeys, NEW v \in Entry
  PROVE  /\ DOMAIN Put(k, v) \subseteq FdKeys
         /\ \A j \in DOMAIN Put(k, v) : Put(k, v)[j] \in Entry
BY DEF TypeOK, Put

\* And a deletion.
LEMMA DropTypes ==
  ASSUME TypeOK, NEW k
  PROVE  /\ DOMAIN Drop(k) \subseteq FdKeys
         /\ \A j \in DOMAIN Drop(k) : Drop(k)[j] \in Entry
BY DEF TypeOK, Drop

\* The key of a call that has a number.
LEMMA KeyTypes ==
  ASSUME TypeInv, NEW t \in Threads, call[t].op \in {"exit", "close"}
  PROVE  KeyOf(t) \in FdKeys
BY FdAssumption DEF TypeInv, CallTypes, KeyOf, FdKeys

Call == [op : {"idle", "open", "exit", "close"}, fd : Fds \cup {0},
         file : Regular \cup {None}, seen : BOOLEAN]

\* A step of the system keeps the types of everything but the readers.
LEMMA SystemTypes ==
  ASSUME TypeInv, SystemStep
  PROVE  /\ fdt' \in [FdKeys -> Files \cup {None}]
         /\ call' \in [Threads -> Call] /\ CallTypes'
         /\ calls' \in 0 .. MaxCalls /\ made' \subseteq Sockets
         /\ hooks' = hooks /\ lpc' = lpc
         /\ unread' = unread /\ unseen' = unseen /\ held' = held
         /\ DOMAIN entries' \subseteq FdKeys /\ \A k \in DOMAIN entries' : entries'[k] \in Entry
         /\ socks' = socks /\ sound' \subseteq FdKeys /\ crossed' \subseteq FdKeys
<1> USE FdAssumption
<1> USE DEF TypeInv, TypeOK, CallTypes, Call, loader, Count
<1>1. ASSUME NEW t \in Threads, NEW x \in Regular, OpenEnter(t, x)
      PROVE  call' \in [Threads -> Call] /\ CallTypes' /\ calls' \in 0 .. MaxCalls
  BY <1>1 DEF OpenEnter
<1>2. ASSUME NEW t \in Threads, OpenFails(t)
      PROVE  call' \in [Threads -> Call] /\ CallTypes'
  BY <1>2 DEF OpenFails, Idle
<1>3. ASSUME NEW t \in Threads, OpenExit(t)
      PROVE  /\ call' \in [Threads -> Call] /\ CallTypes' /\ crossed' \subseteq FdKeys
             /\ DOMAIN entries' \subseteq FdKeys /\ \A k \in DOMAIN entries' : entries'[k] \in Entry
  <2>1. KeyOf(t) \in FdKeys
    BY <1>3, KeyTypes DEF OpenExit
  <2>2. [inode |-> fdt[KeyOf(t)], path |-> call[t].file] \in Entry
    BY <1>3, <2>1 DEF OpenExit, Entry, Files
  <2>3. DOMAIN entries' \subseteq FdKeys /\ \A k \in DOMAIN entries' : entries'[k] \in Entry
    BY <1>3, <2>1, <2>2, PutTypes DEF OpenExit
  <2>4. call' \in [Threads -> Call] /\ CallTypes' /\ crossed' \subseteq FdKeys
    BY <1>3 DEF OpenExit, Idle
  <2> QED
    BY <2>3, <2>4
<1>4. ASSUME NEW t \in Threads, CloseLeave(t)
      PROVE  /\ fdt' \in [FdKeys -> Files \cup {None}]
             /\ call' \in [Threads -> Call] /\ CallTypes' /\ sound' \subseteq FdKeys
  <2>1. KeyOf(t) \in FdKeys
    BY <1>4, KeyTypes DEF CloseLeave
  <2> QED
    BY <1>4, <2>1 DEF CloseLeave, Idle
<1>5. ASSUME NEW t \in Threads, NEW f \in Fds, OpenInstall(t, f)
      PROVE  /\ fdt' \in [FdKeys -> Files \cup {None}]
             /\ call' \in [Threads -> Call] /\ CallTypes' /\ sound' \subseteq FdKeys
  <2>1. <<ProcOf[t], f>> \in FdKeys
    BY DEF FdKeys
  <2>2. call[t].file \in Files
    BY <1>5 DEF OpenInstall, Files
  <2>3. call' \in [Threads -> Call] /\ CallTypes'
    <3>1. CASE call[t].seen
      <4>1. call' = [call EXCEPT ![t] = [op |-> "exit", fd |-> f, file |-> call[t].file, seen |-> TRUE]]
        BY <1>5, <3>1 DEF OpenInstall
      <4>2. call[t].file \in Regular
        BY <1>5 DEF OpenInstall
      <4> QED
        BY <4>1, <4>2
    <3>2. CASE ~ call[t].seen
      BY <1>5, <3>2 DEF OpenInstall, Idle
    <3> QED
      BY <3>1, <3>2
  <2>4. fdt' \in [FdKeys -> Files \cup {None}] /\ sound' \subseteq FdKeys
    BY <1>5, <2>1, <2>2 DEF OpenInstall
  <2> QED
    BY <2>3, <2>4
<1>6. ASSUME NEW t \in Threads, NEW f \in Fds, CloseEnter(t, f)
      PROVE  /\ call' \in [Threads -> Call] /\ CallTypes' /\ calls' \in 0 .. MaxCalls
             /\ crossed' \subseteq FdKeys /\ DOMAIN entries' \subseteq FdKeys /\ \A k \in DOMAIN entries' : entries'[k] \in Entry
  <2>1. DOMAIN entries' \subseteq FdKeys /\ \A k \in DOMAIN entries' : entries'[k] \in Entry
    BY <1>6, DropTypes DEF CloseEnter
  <2>2. call' \in [Threads -> Call] /\ CallTypes' /\ calls' \in 0 .. MaxCalls
    BY <1>6 DEF CloseEnter
  <2>3. crossed' \subseteq FdKeys
    BY <1>6 DEF CloseEnter, FdKeys
  <2> QED
    BY <2>1, <2>2, <2>3
<1>7. ASSUME NEW t \in Threads, NEW f \in Fds, NEW s \in Sockets, SocketCall(t, f, s)
      PROVE  /\ fdt' \in [FdKeys -> Files \cup {None}] /\ calls' \in 0 .. MaxCalls
             /\ made' \subseteq Sockets /\ sound' \subseteq FdKeys
  BY <1>7 DEF SocketCall, FdKeys, Files
<1>8. ASSUME NEW t \in Threads, NEW f \in Fds, NEW g \in Fds, Dup(t, f, g)
      PROVE  /\ fdt' \in [FdKeys -> Files \cup {None}] /\ calls' \in 0 .. MaxCalls
             /\ sound' \subseteq FdKeys
  <2>1. <<ProcOf[t], f>> \in FdKeys /\ <<ProcOf[t], g>> \in FdKeys
    BY DEF FdKeys
  <2> QED
    BY <1>8, <2>1 DEF Dup
<1>9. ASSUME NEW p \in Procs, NEW q \in Procs, Fork(p, q)
      PROVE  /\ fdt' \in [FdKeys -> Files \cup {None}] /\ calls' \in 0 .. MaxCalls
             /\ sound' \subseteq FdKeys
  <2>1. \A k \in FdKeys : <<p, k[2]>> \in FdKeys
    BY DEF FdKeys
  <2> QED
    BY <1>9, <2>1 DEF Fork
<1>10. ASSUME NEW p \in Procs, Exit(p)
       PROVE  /\ fdt' \in [FdKeys -> Files \cup {None}] /\ calls' \in 0 .. MaxCalls
              /\ sound' \subseteq FdKeys
  BY <1>10 DEF Exit
<1>11. /\ hooks' = hooks /\ lpc' = lpc
       /\ unread' = unread /\ unseen' = unseen /\ held' = held /\ socks' = socks
  BY DEF SystemStep, OpenEnter, OpenFails, OpenExit, CloseLeave, OpenInstall, CloseEnter,
         SocketCall, Dup, Fork, Exit
<1> QED
  <2> USE <1>11
  <2>1. CASE \E t \in Threads, x \in Regular : OpenEnter(t, x)
    BY <1>1, <2>1 DEF OpenEnter
  <2>2. CASE \E t \in Threads : OpenFails(t)
    BY <1>2, <2>2 DEF OpenFails
  <2>3. CASE \E t \in Threads : OpenExit(t)
    BY <1>3, <2>3 DEF OpenExit
  <2>4. CASE \E t \in Threads : CloseLeave(t)
    BY <1>4, <2>4 DEF CloseLeave
  <2>5. CASE \E t \in Threads, f \in Fds : OpenInstall(t, f)
    BY <1>5, <2>5 DEF OpenInstall
  <2>6. CASE \E t \in Threads, f \in Fds : CloseEnter(t, f)
    BY <1>6, <2>6 DEF CloseEnter
  <2>7. CASE \E t \in Threads, f \in Fds, s \in Sockets : SocketCall(t, f, s)
    BY <1>7, <2>7 DEF SocketCall
  <2>8. CASE \E t \in Threads, f, g \in Fds : Dup(t, f, g)
    BY <1>8, <2>8 DEF Dup
  <2>9. CASE \E p, q \in Procs : Fork(p, q)
    BY <1>9, <2>9 DEF Fork
  <2>10. CASE \E p \in Procs : Exit(p)
    BY <1>10, <2>10 DEF Exit
  <2> QED
    BY <2>1, <2>2, <2>3, <2>4, <2>5, <2>6, <2>7, <2>8, <2>9, <2>10 DEF SystemStep

\* And a step of the loader.
LEMMA LoadTypes ==
  ASSUME TypeInv, LoadStep
  PROVE  /\ UNCHANGED kernel
         /\ hooks' \subseteq {"open", "close"}
         /\ lpc' \in {"attach", "iterate", "socks"} \cup Finished
         /\ unread' \subseteq FdKeys /\ unseen' \subseteq Sockets
         /\ held' = <<>> \/ held' \in FdKeys \X Files
         /\ DOMAIN entries' \subseteq FdKeys /\ \A k \in DOMAIN entries' : entries'[k] \in Entry
         /\ socks' \subseteq Sockets /\ sound' \subseteq FdKeys /\ crossed' \subseteq FdKeys
<1> USE DEF TypeInv, TypeOK
<1>1. CASE AttachOpen \/ AttachClose \/ LoadFails \/ IterEnd
  BY <1>1 DEF AttachOpen, AttachClose, LoadFails, IterEnd
<1>2. ASSUME NEW k \in FdKeys, IterRead(k)
      PROVE  /\ UNCHANGED <<kernel, hooks, lpc, unseen, entries, socks>>
             /\ unread' \subseteq FdKeys /\ sound' \subseteq FdKeys /\ crossed' \subseteq FdKeys
             /\ held' = <<>> \/ held' \in FdKeys \X Files
  BY <1>2 DEF IterRead
<1>3. CASE IterInsert
  <2>1. held[1] \in FdKeys /\ [inode |-> held[2], path |-> held[2]] \in Entry
    BY <1>3 DEF IterInsert, Entry
  <2>2. DOMAIN entries' \subseteq FdKeys /\ \A k \in DOMAIN entries' : entries'[k] \in Entry
    BY <1>3, <2>1, PutTypes DEF IterInsert
  <2> QED
    BY <1>3, <2>2 DEF IterInsert
<1>4. ASSUME NEW s \in Sockets, SockVisit(s)
      PROVE  /\ UNCHANGED <<kernel, hooks, lpc, unread, held, entries, sound, crossed>>
             /\ unseen' \subseteq Sockets /\ socks' \subseteq Sockets
  BY <1>4 DEF SockVisit
<1>5. CASE SocksFail \/ LoadEnd
  BY <1>5 DEF SocksFail, LoadEnd, Finished
<1> QED
  BY <1>1, <1>2, <1>3, <1>4, <1>5 DEF LoadStep

\* A reader's step, and the readers' part of the others'.
LEMMA WalkTypes ==
  ASSUME TypeInv, NEW r \in Readers, ReadStep(r)
  PROVE  WalkTypeOK'
<1> USE FdAssumption
<1> USE DEF TypeInv, TypeOK, WalkTypeOK, Keys
<1>1. DOMAIN Bucket = FdKeys
  OBVIOUS
<1>2. CASE StartWalk(r)
  BY <1>1, <1>2 DEF StartWalk
<1>3. CASE CopyBucket(r)
  <2>1. Cardinality(InBucket(cursor[r])) \in Nat
    BY BucketCounted
  <2>2. taken' \in [Readers -> 0 .. BatchSize]
    <3>1. taken[r] + Cardinality(InBucket(cursor[r])) \in 0 .. BatchSize
      BY <1>3, <2>1 DEF CopyBucket, Fits
    <3> QED
      BY <1>3, <3>1 DEF CopyBucket
  <2>3. cursor' \in [Readers -> 0 .. NBuckets]
    BY <1>3 DEF CopyBucket
  <2>4. got' \in [Readers -> [Keys -> Nat]]
    <3>1. [k \in Keys |-> IF k \in InBucket(cursor[r]) THEN got[r][k] + 1 ELSE got[r][k]]
            \in [Keys -> Nat]
      OBVIOUS
    <3> QED
      BY <1>3, <3>1 DEF CopyBucket
  <2> QED
    BY <1>3, <2>2, <2>3, <2>4 DEF CopyBucket
<1>4. CASE CallAgain(r)
  BY <1>4 DEF CallAgain
<1>5. CASE WalkEnd(r)
  BY <1>5 DEF WalkEnd
<1>6. CASE WalkError(r)
  BY <1>6 DEF WalkError
<1> QED
  BY <1>2, <1>3, <1>4, <1>5, <1>6 DEF ReadStep

LEMMA WatchTypes ==
  ASSUME TypeInv, DOMAIN entries' \subseteq FdKeys, Watch
  PROVE  WalkTypeOK'
BY FdAssumption DEF TypeInv, TypeOK, WalkTypeOK, Watch, Keys

THEOREM TypeInvariant == Spec => []TypeInv
<1>1. Init => TypeInv
  <2> SUFFICES ASSUME Init PROVE TypeInv
    OBVIOUS
  <2>1. fdt \in [FdKeys -> Files \cup {None}]
    <3> PICK tables \in [Loaded \X Fds -> Files \cup {None}] :
               fdt = [k \in FdKeys |-> IF k[1] \in Loaded THEN tables[k] ELSE None]
      BY DEF Init
    <3>1. \A k \in FdKeys : k[1] \in Loaded => k \in Loaded \X Fds
      BY DEF FdKeys
    <3> QED
      BY <3>1
  <2>2. WalkTypeOK
    BY FdAssumption DEF Init, WalkInit, WalkTypeOK
  <2>3. call \in [Threads -> Call] /\ CallTypes /\ calls \in 0 .. MaxCalls
    BY FdAssumption DEF Init, Idle, Call, CallTypes
  <2>4. made \subseteq Sockets /\ hooks \subseteq {"open", "close"}
    BY DEF Init
  <2>5. DOMAIN entries = {}
    BY DEF Init
  <2>6. /\ unread \subseteq FdKeys /\ held = <<>> /\ unseen \subseteq Sockets
        /\ lpc = "attach" /\ socks \subseteq Sockets /\ sound \subseteq FdKeys /\ crossed \subseteq FdKeys
    BY DEF Init
  <2> QED
    BY <2>1, <2>2, <2>3, <2>4, <2>5, <2>6 DEF TypeInv, TypeOK, Call
<1>2. TypeInv /\ [Next]_vars => TypeInv'
  <2> SUFFICES ASSUME TypeInv, [Next]_vars PROVE TypeInv'
    OBVIOUS
  <2>1. CASE SystemStep /\ Watch
    <3>1. WalkTypeOK'
      BY <2>1, SystemTypes, WatchTypes
    <3>2. UNCHANGED <<hooks, lpc, unread, unseen, held, socks>>
      BY <2>1, SystemTypes
    <3>3. /\ fdt' \in [FdKeys -> Files \cup {None}]
          /\ call' \in [Threads -> Call] /\ CallTypes'
          /\ calls' \in 0 .. MaxCalls /\ made' \subseteq Sockets
          /\ sound' \subseteq FdKeys /\ crossed' \subseteq FdKeys
          /\ DOMAIN entries' \subseteq FdKeys /\ \A k \in DOMAIN entries' : entries'[k] \in Entry
      BY <2>1, SystemTypes
    <3> QED
      BY <3>1, <3>2, <3>3 DEF TypeInv, TypeOK, Call, Entry
  <2>2. CASE LoadStep /\ Watch
    <3>1. DOMAIN entries' \subseteq FdKeys
      BY <2>2, LoadTypes
    <3>2. WalkTypeOK'
      BY <2>2, <3>1, WatchTypes
    <3>3. UNCHANGED kernel
      BY <2>2, LoadTypes
    <3>4. CallTypes'
      BY <3>3 DEF kernel, TypeInv, CallTypes
    <3>5. /\ hooks' \subseteq {"open", "close"}
          /\ lpc' \in {"attach", "iterate", "socks"} \cup Finished
          /\ unread' \subseteq FdKeys /\ unseen' \subseteq Sockets
          /\ held' = <<>> \/ held' \in FdKeys \X Files
          /\ \A k \in DOMAIN entries' : entries'[k] \in Entry
          /\ socks' \subseteq Sockets /\ sound' \subseteq FdKeys /\ crossed' \subseteq FdKeys
      BY <2>2, LoadTypes
    <3> QED
      BY <3>1, <3>2, <3>3, <3>4, <3>5 DEF kernel, TypeInv, TypeOK, Entry, Finished
  <2>3. ASSUME NEW r \in Readers, ReadStep(r),
               UNCHANGED <<kernel, loader, entries, socks, sound, crossed>>
        PROVE  TypeInv'
    <3>1. WalkTypeOK'
      BY <2>3, WalkTypes
    <3> QED
      BY <2>3, <3>1 DEF kernel, loader, TypeInv, TypeOK, CallTypes, Entry, Finished
  <2>4. CASE UNCHANGED vars
    BY <2>4 DEF vars, TypeInv, TypeOK, CallTypes, WalkTypeOK, Entry, Finished, Keys
  <2> QED
    BY <2>1, <2>2, <2>3, <2>4 DEF Next
<1> QED
  BY <1>1, <1>2, PTL DEF Spec

\* Every variable keeps its type, for any processes, descriptors and files.
THEOREM TypeCorrect == Spec => []TypeOK
<1>1. TypeInv => TypeOK
  BY DEF TypeInv
<1> QED
  BY <1>1, TypeInvariant, PTL

(***************************************************************************)
(* Batch reads                                                             *)
(***************************************************************************)

\* A reader's step moves the cursor over a bucket only together with its keys.
LEMMA ReadStepInv ==
  ASSUME TypeInv, WalkInv, NEW r \in Readers, ReadStep(r), entries' = entries
  PROVE  WalkInv'
<1> USE FdAssumption
<1> USE DEF TypeInv, TypeOK, WalkTypeOK, Keys, WalkInv
<1>1. DOMAIN Bucket = FdKeys /\ \A k \in FdKeys : Bucket[k] \in 0 .. NBuckets - 1
  OBVIOUS
<1>2. CASE StartWalk(r)
  BY <1>1, <1>2 DEF StartWalk
<1>3. CASE CopyBucket(r)
  <2>1. /\ cursor' = [cursor EXCEPT ![r] = cursor[r] + 1]
        /\ got' = [got EXCEPT ![r] =
             [k \in Keys |-> IF k \in InBucket(cursor[r]) THEN got[r][k] + 1 ELSE got[r][k]]]
        /\ wpc[r] = "walk" /\ UNCHANGED <<wpc, present>>
    BY <1>3 DEF CopyBucket
  <2>2. \A k \in FdKeys : got'[r][k] = IF k \in InBucket(cursor[r]) THEN got[r][k] + 1 ELSE got[r][k]
    BY <1>1, <2>1
  <2>3. \A k \in FdKeys : k \in InBucket(cursor[r]) <=> k \in DOMAIN entries /\ Bucket[k] = cursor[r]
    BY <1>1 DEF InBucket
  <2>4. \A k \in Keys : got'[r][k] = 0 \/ (got'[r][k] = 1 /\ Bucket[k] < cursor'[r])
    BY <1>1, <2>1, <2>2, <2>3
  <2>5. \A k \in present'[r] : Bucket[k] < cursor'[r] => got'[r][k] = 1
    BY <1>1, <2>1, <2>2, <2>3
  <2>6. \A q \in Readers \ {r} : UNCHANGED <<got[q], cursor[q], present[q], wpc[q]>>
    BY <2>1
  <2>7. cursor'[r] \in Nat /\ present'[r] = present[r] /\ wpc'[r] = "walk"
    BY <2>1
  <2>8. \A k \in present'[r] : k \in DOMAIN entries'
    BY <2>7
  <2>9. ASSUME NEW q \in Readers \ {r}
        PROVE  /\ \A k \in Keys : got'[q][k] = 0 \/ (got'[q][k] = 1 /\ Bucket[k] < cursor'[q])
               /\ present'[q] \subseteq DOMAIN entries'
               /\ \A k \in present'[q] : Bucket[k] < cursor'[q] => got'[q][k] = 1
               /\ wpc'[q] = "idle" => cursor'[q] = 0
               /\ wpc'[q] = "done" => cursor'[q] = NBuckets
    BY <2>6
  <2> QED
    BY <2>4, <2>5, <2>7, <2>8, <2>9
<1>4. CASE CallAgain(r)
  BY <1>4 DEF CallAgain
<1>5. CASE WalkEnd(r)
  BY <1>5 DEF WalkEnd
<1>6. CASE WalkError(r)
  BY <1>6 DEF WalkError
<1> QED
  BY <1>2, <1>3, <1>4, <1>5, <1>6 DEF ReadStep

THEOREM WalkInvariant == Spec => []WalkInv
<1>1. Init => WalkInv
  BY FdAssumption DEF Init, WalkInit, WalkInv, Keys
<1>2. TypeInv /\ WalkInv /\ [Next]_vars => WalkInv'
  <2> SUFFICES ASSUME TypeInv, WalkInv, [Next]_vars PROVE WalkInv'
    OBVIOUS
  <2>1. CASE Watch
    BY <2>1 DEF Watch, WalkInv, TypeInv, TypeOK, WalkTypeOK, Keys
  <2>2. ASSUME NEW r \in Readers, ReadStep(r), entries' = entries PROVE WalkInv'
    BY <2>2, ReadStepInv
  <2>3. CASE UNCHANGED vars
    BY <2>3 DEF vars, WalkInv, Keys
  <2> QED
    BY <2>1, <2>2, <2>3 DEF Next
<1> QED
  BY <1>1, <1>2, TypeInvariant, PTL DEF Spec

\* snapshot_all() of a map that changes meanwhile, for any map, buckets and batches: no
\* key twice, and if it has read to the end, every key that was there all the time.
THEOREM WalksAreExact == Spec => []WalkExact
<1>1. TypeInv /\ WalkInv => WalkExact
  <2> SUFFICES ASSUME TypeInv, WalkInv, NEW r \in Readers
               PROVE  /\ \A k \in Keys : got[r][k] <= 1
                      /\ wpc[r] = "done" => \A k \in present[r] : got[r][k] = 1
    BY DEF WalkExact
  <2>1. \A k \in Keys : got[r][k] <= 1
    BY DEF WalkInv
  <2>2. \A k \in present[r] : Bucket[k] < NBuckets
    BY FdAssumption DEF WalkInv, TypeInv, TypeOK
  <2> QED
    BY <2>1, <2>2 DEF WalkInv
<1> QED
  BY <1>1, TypeInvariant, WalkInvariant, PTL

(***************************************************************************)
(* The live map and the sockets, for processes of one thread each          *)
(***************************************************************************)

\* Nothing that a thread does to its own key concerns the call of another.
LEMMA KeyDiffers ==
  ASSUME OneThread, NEW t \in Threads, NEW u \in Threads, t # u, NEW f, NEW g
  PROVE  <<ProcOf[t], f>> # <<ProcOf[u], g>>
BY DEF OneThread

\* The call of a thread whose key stays as it is.
LEMMA CallKept ==
  ASSUME TypeInv, CallInv, NEW u \in Threads, call'[u] = call[u], held' = held,
         \A k \in FdKeys : k[1] = ProcOf[u] =>
           /\ fdt'[k] = fdt[k] /\ (k \in crossed <=> k \in crossed')
           /\ (k \in DOMAIN entries <=> k \in DOMAIN entries')
  PROVE  ThreadCallInv(u)'
<1> USE DEF ThreadCallInv, CallInv, KeyOf, Holds
<1>1. CASE call[u].op \in {"exit", "close"}
  <2>1. KeyOf(u) \in FdKeys /\ KeyOf(u)[1] = ProcOf[u] /\ KeyOf(u)' = KeyOf(u)
    BY <1>1, KeyTypes
  <2> QED
    BY <1>1, <2>1
<1>2. CASE call[u].op \notin {"exit", "close"}
  BY <1>2
<1> QED
  BY <1>1, <1>2

\* A key whose file, entry and insert stay as they are stays settled.
LEMMA SettledKept ==
  ASSUME NEW k, Settled(k), Calling(k) => Calling(k)', fdt'[k] = fdt[k], held' = held,
         k \in DOMAIN entries' <=> k \in DOMAIN entries,
         k \in DOMAIN entries => entries'[k] = entries[k]
  PROVE  Settled(k)'
BY DEF Settled, Holds, Agrees

\* openat begins, and touches no table.
LEMMA OpenEnterInv ==
  ASSUME OneThread, TypeInv, FdInv, NEW t \in Threads, NEW x \in Regular, OpenEnter(t, x)
  PROVE  FdInv'
<1> USE FdAssumption, KeyDiffers
<1> USE DEF TypeInv, TypeOK, CallTypes, FdInv, OpenEnter, Idle, loader, KeyOf, Call, Put, Drop, FdKeys, Files, Quiet
<1>1. CallInv'
  BY DEF CallInv, ThreadCallInv, Holds
<1>2. IterInv'
  BY DEF IterInv
<1>3. SoundInv'
  <2>1. call[t].op = "idle" /\ \A u \in Threads \ {t} : call'[u] = call[u]
    OBVIOUS
  <2>2. \A k : Calling(k) => Calling(k)'
    BY <2>1 DEF Calling
  <2>3. UNCHANGED <<fdt, entries, held, sound, crossed>>
    OBVIOUS
  <2> QED
    BY <2>2, <2>3, SettledKept DEF SoundInv
<1>4. SocketInv'
  BY DEF SocketInv, IsOpen, CallInv, ThreadCallInv
<1> QED
  BY <1>1, <1>2, <1>3, <1>4

\* openat fails.
LEMMA OpenFailsInv ==
  ASSUME OneThread, TypeInv, FdInv, NEW t \in Threads, OpenFails(t)
  PROVE  FdInv'
<1> USE FdAssumption, KeyDiffers
<1> USE DEF TypeInv, TypeOK, CallTypes, FdInv, OpenFails, Idle, loader, KeyOf, Call, Put, Drop, FdKeys, Files, Quiet
<1>1. CallInv'
  BY DEF CallInv, ThreadCallInv, Holds
<1>2. IterInv'
  BY DEF IterInv
<1>3. SoundInv'
  <2>1. \A k : Calling(k) => Calling(k)'
    BY DEF Calling
  <2>2. UNCHANGED <<fdt, entries, held, sound, crossed>>
    OBVIOUS
  <2> QED
    BY <2>1, <2>2, SettledKept DEF SoundInv
<1>4. SocketInv'
  BY DEF SocketInv, IsOpen, CallInv, ThreadCallInv
<1> QED
  BY <1>1, <1>2, <1>3, <1>4

\* openat installs its file: the key is in the thread's hands, or no longer sound.
LEMMA OpenInstallInv ==
  ASSUME OneThread, TypeInv, FdInv, NEW t \in Threads, NEW f \in Fds, OpenInstall(t, f)
  PROVE  FdInv'
<1> USE FdAssumption, KeyDiffers
<1> USE DEF TypeInv, TypeOK, CallTypes, FdInv, OpenInstall, Idle, loader, KeyOf, Call, Put, Drop, FdKeys, Files, Quiet
<1>1. CallInv'
  <2>1. \A u \in Threads \ {t} : call'[u] = call[u] /\ ProcOf[u] # ProcOf[t]
    BY DEF OneThread
  <2>2. \A u \in Threads \ {t} : ThreadCallInv(u)'
    BY <2>1, CallKept
  <2>3. ThreadCallInv(t)'
    BY DEF CallInv, ThreadCallInv
  <2> QED
    BY <2>2, <2>3 DEF CallInv
<1>2. IterInv'
  BY DEF IterInv
<1>3. SoundInv'
  <2>1. call[t].op = "open" /\ \A u \in Threads \ {t} : call'[u] = call[u]
    OBVIOUS
  <2>2. \A k : Calling(k) => Calling(k)'
    BY <2>1 DEF Calling
  <2>3. UNCHANGED <<entries, held, crossed>> /\ sound' \subseteq sound \cup {<<ProcOf[t], f>>}
    OBVIOUS
  <2>4. \A k \in FdKeys : k # <<ProcOf[t], f>> => fdt'[k] = fdt[k]
    OBVIOUS
  <2>5. <<ProcOf[t], f>> \in sound' => Calling(<<ProcOf[t], f>>)'
    BY <2>1 DEF Calling
  <2> SUFFICES ASSUME NEW k \in sound' \ crossed' PROVE Settled(k)'
    BY DEF SoundInv
  <2>6. CASE k = <<ProcOf[t], f>>
    BY <2>5, <2>6 DEF Settled
  <2>7. CASE k # <<ProcOf[t], f>>
    BY <2>2, <2>3, <2>4, <2>7, SettledKept DEF SoundInv
  <2> QED
    BY <2>6, <2>7
<1>4. SocketInv'
  BY DEF SocketInv, IsOpen, CallInv, ThreadCallInv
<1> QED
  BY <1>1, <1>2, <1>3, <1>4

\* The program inserts what the table still has.
LEMMA OpenExitInv ==
  ASSUME OneThread, TypeInv, FdInv, NEW t \in Threads, OpenExit(t)
  PROVE  FdInv'
<1> USE FdAssumption, KeyDiffers
<1> USE DEF TypeInv, TypeOK, CallTypes, FdInv, OpenExit, Idle, loader, KeyOf, Call, Put, Drop, FdKeys, Files, Quiet
<1>1. CallInv'
  <2>1. \A u \in Threads \ {t} : call'[u] = call[u] /\ ProcOf[u] # ProcOf[t]
    BY DEF OneThread
  <2>2. \A u \in Threads \ {t} : ThreadCallInv(u)'
    BY <2>1, CallKept
  <2>3. ThreadCallInv(t)'
    BY DEF ThreadCallInv
  <2> QED
    BY <2>2, <2>3 DEF CallInv
<1>2. IterInv'
  BY DEF IterInv
<1>3. SoundInv'
  <2> DEFINE own == <<ProcOf[t], call[t].fd>>
  <2>1. call[t].op = "exit" /\ \A u \in Threads \ {t} : call'[u] = call[u]
    OBVIOUS
  <2>2. \A k : Calling(k) /\ k # own => Calling(k)'
    BY <2>1 DEF Calling
  <2>3. UNCHANGED <<fdt, held, sound>> /\ crossed' = crossed \ {own}
    OBVIOUS
  <2>4. own \in FdKeys /\ fdt[own] = call[t].file /\ fdt[own] # None
    <3>1. call[t].fd \in Fds /\ call[t].file \in Regular
      BY <2>1
    <3>2. fdt[KeyOf(t)] = call[t].file
      BY <2>1 DEF CallInv, ThreadCallInv
    <3> QED
      BY <3>1, <3>2
  <2>5. entries' = Put(own, [inode |-> fdt[own], path |-> fdt[own]])
    <3>1. KeyOf(t) = own
      OBVIOUS
    <3> HIDE DEF own
    <3> QED
      BY <2>4, <3>1
  <2>6. \A k : k # own => (k \in DOMAIN entries' <=> k \in DOMAIN entries)
    BY <2>5
  <2>7. \A k \in DOMAIN entries : k # own => entries'[k] = entries[k]
    BY <2>5
  <2>8. own \in DOMAIN entries' /\ entries'[own] = [inode |-> fdt[own], path |-> fdt[own]]
    BY <2>5
  <2> SUFFICES ASSUME NEW k \in sound' \ crossed' PROVE Settled(k)'
    BY DEF SoundInv
  <2>9. CASE k = own
    BY <2>3, <2>4, <2>8, <2>9 DEF Settled, Agrees
  <2>10. CASE k # own
    BY <2>2, <2>3, <2>6, <2>7, <2>10, SettledKept DEF SoundInv
  <2> QED
    BY <2>9, <2>10
<1>4. SocketInv'
  BY DEF SocketInv, IsOpen, CallInv, ThreadCallInv
<1> QED
  BY <1>1, <1>2, <1>3, <1>4

\* The program of close deletes, and the key is in the thread's hands.
LEMMA CloseEnterInv ==
  ASSUME OneThread, TypeInv, FdInv, NEW t \in Threads, NEW f \in Fds, CloseEnter(t, f)
  PROVE  FdInv'
<1> USE FdAssumption, KeyDiffers
<1> USE DEF TypeInv, TypeOK, CallTypes, FdInv, CloseEnter, Idle, loader, KeyOf, Call, Put, Drop, FdKeys, Files, Quiet
<1>1. CallInv'
  <2>1. \A u \in Threads \ {t} : call'[u] = call[u]
    OBVIOUS
  <2>2. ASSUME NEW u \in Threads \ {t} PROVE ThreadCallInv(u)'
    <3>1. ProcOf[u] # ProcOf[t]
      BY DEF OneThread
    <3>2. \A k \in FdKeys : k[1] = ProcOf[u] => k # <<ProcOf[t], f>>
      BY <3>1
    <3>3. \A k \in FdKeys : k[1] = ProcOf[u] =>
            /\ fdt'[k] = fdt[k] /\ (k \in crossed <=> k \in crossed')
            /\ (k \in DOMAIN entries <=> k \in DOMAIN entries')
      BY <3>2
    <3> QED
      BY <2>1, <3>3, CallKept
  <2>3. ThreadCallInv(t)'
    BY DEF ThreadCallInv, Holds
  <2> QED
    BY <2>2, <2>3 DEF CallInv
<1>2. IterInv'
  BY DEF IterInv
<1>3. SoundInv'
  <2>1. call[t].op = "idle" /\ \A u \in Threads \ {t} : call'[u] = call[u]
    OBVIOUS
  <2>2. \A k : Calling(k) => Calling(k)'
    BY <2>1 DEF Calling
  <2>3. UNCHANGED <<fdt, held, sound>> /\ crossed \subseteq crossed' \cup {<<ProcOf[t], f>>}
    OBVIOUS
  <2>4. Calling(<<ProcOf[t], f>>)'
    <3>1. call'[t].op = "close" /\ KeyOf(t)' = <<ProcOf[t], f>>
      OBVIOUS
    <3> QED
      BY <3>1 DEF Calling
  <2>5. \A k : k # <<ProcOf[t], f>> => (k \in DOMAIN entries' <=> k \in DOMAIN entries)
    OBVIOUS
  <2>8. \A k \in DOMAIN entries' : entries'[k] = entries[k]
    OBVIOUS
  <2> SUFFICES ASSUME NEW k \in sound' \ crossed' PROVE Settled(k)'
    BY DEF SoundInv
  <2>6. CASE k = <<ProcOf[t], f>>
    BY <2>4, <2>6 DEF Settled
  <2>7. CASE k # <<ProcOf[t], f>>
    BY <2>2, <2>3, <2>5, <2>7, <2>8, SettledKept DEF SoundInv
  <2> QED
    BY <2>6, <2>7
<1>4. SocketInv'
  BY DEF SocketInv, IsOpen, CallInv, ThreadCallInv
<1> QED
  BY <1>1, <1>2, <1>3, <1>4

\* The table lets go of the file, and the entry is not back.
LEMMA CloseLeaveInv ==
  ASSUME OneThread, TypeInv, FdInv, NEW t \in Threads, CloseLeave(t)
  PROVE  FdInv'
<1> USE FdAssumption, KeyDiffers
<1> USE DEF TypeInv, TypeOK, CallTypes, FdInv, CloseLeave, Idle, loader, KeyOf, Call, Put, Drop, FdKeys, Files, Quiet
<1>1. CallInv'
  <2>1. \A u \in Threads \ {t} : call'[u] = call[u] /\ ProcOf[u] # ProcOf[t]
    BY DEF OneThread
  <2>2. \A u \in Threads \ {t} : ThreadCallInv(u)'
    BY <2>1, CallKept
  <2>3. ThreadCallInv(t)'
    BY DEF ThreadCallInv
  <2> QED
    BY <2>2, <2>3 DEF CallInv
<1>2. IterInv'
  BY DEF IterInv
<1>3. SoundInv'
  <2> DEFINE own == <<ProcOf[t], call[t].fd>>
  <2>1. call[t].op = "close" /\ \A u \in Threads \ {t} : call'[u] = call[u]
    OBVIOUS
  <2>2. \A k : Calling(k) /\ k # own => Calling(k)'
    BY <2>1 DEF Calling
  <2>3. UNCHANGED <<entries, held, crossed>> /\ sound' \subseteq sound \cup {own}
    OBVIOUS
  <2>4. \A k \in FdKeys : k # own => fdt'[k] = fdt[k]
    OBVIOUS
  <2>5. own \in sound' => own \in crossed \/ (own \notin DOMAIN entries /\ ~ Holds(own))
    BY <2>1 DEF CallInv, ThreadCallInv
  <2>6. own \in FdKeys /\ fdt'[own] = None
    BY <2>1
  <2> SUFFICES ASSUME NEW k \in sound' \ crossed' PROVE Settled(k)'
    BY DEF SoundInv
  <2>7. CASE k = own
    BY <2>3, <2>5, <2>6, <2>7 DEF Settled, Agrees, Holds
  <2>8. CASE k # own
    BY <2>2, <2>3, <2>4, <2>8, SettledKept DEF SoundInv
  <2> QED
    BY <2>7, <2>8
<1>4. SocketInv'
  BY DEF SocketInv, IsOpen, CallInv, ThreadCallInv
<1> QED
  BY <1>1, <1>2, <1>3, <1>4

\* A new socket: no entry knows its inode yet.
LEMMA SocketCallInv ==
  ASSUME OneThread, TypeInv, FdInv, NEW t \in Threads, NEW f \in Fds, NEW s \in Sockets, SocketCall(t, f, s)
  PROVE  FdInv'
<1> USE FdAssumption, KeyDiffers
<1> USE DEF TypeInv, TypeOK, CallTypes, FdInv, SocketCall, Idle, loader, KeyOf, Call, Put, Drop, FdKeys, Files, Quiet
<1>1. CallInv'
  BY DEF CallInv, ThreadCallInv, Holds
<1>2. IterInv'
  BY DEF IterInv
<1>3. SoundInv'
  BY DEF SoundInv, Settled, Holds, Calling, Agrees, CallInv, ThreadCallInv
<1>4. SocketInv'
  BY DEF SocketInv, IsOpen, CallInv, ThreadCallInv
<1> QED
  BY <1>1, <1>2, <1>3, <1>4

\* The key that is written to is no longer sound.
LEMMA DupInv ==
  ASSUME OneThread, TypeInv, FdInv, NEW t \in Threads, NEW f \in Fds, NEW g \in Fds, Dup(t, f, g)
  PROVE  FdInv'
<1> USE FdAssumption, KeyDiffers
<1> USE DEF TypeInv, TypeOK, CallTypes, FdInv, Dup, Idle, loader, KeyOf, Call, Put, Drop, FdKeys, Files, Quiet
<1>1. CallInv'
  BY DEF CallInv, ThreadCallInv, Holds
<1>2. IterInv'
  BY DEF IterInv
<1>3. SoundInv'
  BY DEF SoundInv, Settled, Holds, Calling, Agrees, CallInv, ThreadCallInv
<1>4. SocketInv'
  BY DEF SocketInv, IsOpen, CallInv, ThreadCallInv
<1> QED
  BY <1>1, <1>2, <1>3, <1>4

\* None of the child's keys is sound.
LEMMA ForkInv ==
  ASSUME OneThread, TypeInv, FdInv, NEW p \in Procs, NEW q \in Procs, Fork(p, q)
  PROVE  FdInv'
<1> USE FdAssumption, KeyDiffers
<1> USE DEF TypeInv, TypeOK, CallTypes, FdInv, Fork, Idle, loader, KeyOf, Call, Put, Drop, FdKeys, Files, Quiet
<1>1. CallInv'
  BY DEF CallInv, ThreadCallInv, Holds
<1>2. IterInv'
  BY DEF IterInv
<1>3. SoundInv'
  BY DEF SoundInv, Settled, Holds, Calling, Agrees, CallInv, ThreadCallInv
<1>4. SocketInv'
  BY DEF SocketInv, IsOpen, CallInv, ThreadCallInv
<1> QED
  BY <1>1, <1>2, <1>3, <1>4

\* None of the keys of the process is sound.
LEMMA ExitInv ==
  ASSUME OneThread, TypeInv, FdInv, NEW p \in Procs, Exit(p)
  PROVE  FdInv'
<1> USE FdAssumption, KeyDiffers
<1> USE DEF TypeInv, TypeOK, CallTypes, FdInv, Exit, Idle, loader, KeyOf, Call, Put, Drop, FdKeys, Files, Quiet
<1>1. CallInv'
  BY DEF CallInv, ThreadCallInv, Holds
<1>2. IterInv'
  BY DEF IterInv
<1>3. SoundInv'
  BY DEF SoundInv, Settled, Holds, Calling, Agrees, CallInv, ThreadCallInv
<1>4. SocketInv'
  BY DEF SocketInv, IsOpen, CallInv, ThreadCallInv
<1> QED
  BY <1>1, <1>2, <1>3, <1>4

\* The hooks are attached.
LEMMA AttachInv ==
  ASSUME TypeInv, FdInv, AttachOpen \/ AttachClose
  PROVE  FdInv'
<1> USE FdAssumption
<1> USE DEF TypeInv, TypeOK, CallTypes, FdInv, AttachOpen, AttachClose, kernel, KeyOf, Put, FdKeys, Files
<1>1. CallInv'
  BY DEF CallInv, ThreadCallInv, Holds, IterInv, Finished
<1>2. IterInv'
  BY DEF IterInv, Finished
<1>3. SoundInv'
  BY DEF SoundInv, Settled, Holds, Calling, Agrees, CallInv, ThreadCallInv, IterInv, Finished
<1>4. SocketInv'
  BY DEF SocketInv, IsOpen, CallInv, ThreadCallInv, IterInv
<1> QED
  BY <1>1, <1>2, <1>3, <1>4

\* An iterator that is not begun holds nothing.
LEMMA LoadFailsInv ==
  ASSUME TypeInv, FdInv, LoadFails
  PROVE  FdInv'
<1> USE FdAssumption
<1> USE DEF TypeInv, TypeOK, CallTypes, FdInv, LoadFails, kernel, KeyOf, Put, FdKeys, Files
<1>1. CallInv'
  BY DEF CallInv, ThreadCallInv, Holds, IterInv, Finished
<1>2. IterInv'
  BY DEF IterInv, Finished
<1>3. SoundInv'
  BY DEF SoundInv, Settled, Holds, Calling, Agrees, CallInv, ThreadCallInv, IterInv, Finished
<1>4. SocketInv'
  BY DEF SocketInv, IsOpen, CallInv, ThreadCallInv, IterInv
<1> QED
  BY <1>1, <1>2, <1>3, <1>4

\* The iterator reads a file: its key is sound, and agrees or is to be inserted.
LEMMA IterReadInv ==
  ASSUME TypeInv, FdInv, NEW k \in FdKeys, IterRead(k)
  PROVE  FdInv'
<1> USE FdAssumption
<1> USE DEF TypeInv, TypeOK, CallTypes, FdInv, IterRead, kernel, KeyOf, Put, FdKeys, Files
<1>1. CallInv'
  BY DEF CallInv, ThreadCallInv, Holds, IterInv, Finished
<1>2. IterInv'
  BY DEF IterInv, Finished
<1>3. SoundInv'
  BY DEF SoundInv, Settled, Holds, Calling, Agrees, CallInv, ThreadCallInv, IterInv, Finished
<1>4. SocketInv'
  BY DEF SocketInv, IsOpen, CallInv, ThreadCallInv, IterInv, Finished
<1> QED
  BY <1>1, <1>2, <1>3, <1>4

\* The iterator inserts, unless a hook has been quicker.
LEMMA IterInsertInv ==
  ASSUME TypeInv, FdInv, IterInsert
  PROVE  FdInv'
<1> USE FdAssumption
<1> USE DEF TypeInv, TypeOK, CallTypes, FdInv, IterInsert, kernel, KeyOf, Put, FdKeys, Files
<1>1. CallInv'
  BY DEF CallInv, ThreadCallInv, Holds, IterInv, Finished
<1>2. IterInv'
  BY DEF IterInv, Finished
<1>3. SoundInv'
  BY DEF SoundInv, Settled, Holds, Calling, Agrees, CallInv, ThreadCallInv, IterInv, Finished
<1>4. SocketInv'
  BY DEF SocketInv, IsOpen, CallInv, ThreadCallInv, IterInv, Finished
<1> QED
  BY <1>1, <1>2, <1>3, <1>4

\* The ends of the iterators.
LEMMA SocksLoadInv ==
  ASSUME TypeInv, FdInv, IterEnd \/ SocksFail \/ LoadEnd
  PROVE  FdInv'
<1> USE FdAssumption
<1> USE DEF TypeInv, TypeOK, CallTypes, FdInv, IterEnd, SocksFail, LoadEnd, Finished, kernel, KeyOf, Put, FdKeys, Files
<1>1. CallInv'
  BY DEF CallInv, ThreadCallInv, Holds, IterInv, Finished
<1>2. IterInv'
  BY DEF IterInv, Finished
<1>3. SoundInv'
  BY DEF SoundInv, Settled, Holds, Calling, Agrees, CallInv, ThreadCallInv, IterInv, Finished
<1>4. SocketInv'
  BY DEF SocketInv, IsOpen, CallInv, ThreadCallInv, IterInv, Finished
<1> QED
  BY <1>1, <1>2, <1>3, <1>4

\* A socket that is not open now will never be.
LEMMA SockVisitInv ==
  ASSUME TypeInv, FdInv, NEW s \in Sockets, SockVisit(s)
  PROVE  FdInv'
<1> USE FdAssumption
<1> USE DEF TypeInv, TypeOK, CallTypes, FdInv, SockVisit, kernel, KeyOf, Put, FdKeys, Files
<1>1. CallInv'
  BY DEF CallInv, ThreadCallInv, Holds, IterInv, Finished
<1>2. IterInv'
  BY DEF IterInv, Finished
<1>3. SoundInv'
  BY DEF SoundInv, Settled, Holds, Calling, Agrees, CallInv, ThreadCallInv, IterInv, Finished
<1>4. SocketInv'
  BY DEF SocketInv, IsOpen, CallInv, ThreadCallInv, IterInv, Finished
<1> QED
  BY <1>1, <1>2, <1>3, <1>4

\* FdInv: sound keys agree with the kernel's table but for the ones in a program's
\* hands, and no socket has been overlooked.  Inductive with the types.
THEOREM FdInvariant == ASSUME OneThread PROVE Spec => []FdInv
<1>1. Init => FdInv
  <2> SUFFICES ASSUME Init PROVE FdInv
    OBVIOUS
  <2>1. CallInv /\ IterInv /\ SoundInv
    BY DEF Init, Idle, CallInv, ThreadCallInv, IterInv, SoundInv, Finished
  <2>2. DOMAIN entries = {}
    BY DEF Init
  <2>3. SocketInv
    BY <2>2 DEF Init, SocketInv
  <2> QED
    BY <2>1, <2>3 DEF FdInv
<1>2. TypeInv /\ FdInv /\ [Next]_vars => FdInv'
  <2> SUFFICES ASSUME TypeInv, FdInv, [Next]_vars PROVE FdInv'
    OBVIOUS
  <2>1. CASE SystemStep
    BY <2>1, OpenEnterInv, OpenFailsInv, OpenInstallInv, OpenExitInv, CloseEnterInv,
       CloseLeaveInv, SocketCallInv, DupInv, ForkInv, ExitInv DEF SystemStep
  <2>2. CASE LoadStep
    BY <2>2, AttachInv, LoadFailsInv, IterReadInv, IterInsertInv, SocksLoadInv, SockVisitInv
       DEF LoadStep
  <2>3. CASE UNCHANGED <<kernel, loader, entries, socks, sound, crossed>>
    BY <2>3 DEF kernel, loader, FdInv, CallInv, ThreadCallInv, IterInv, SoundInv, SocketInv, Settled,
                Calling, Agrees, Holds, KeyOf, IsOpen, Finished
  <2>4. CASE UNCHANGED vars
    BY <2>4 DEF vars, FdInv, CallInv, ThreadCallInv, IterInv, SoundInv, SocketInv, Settled,
                Calling, Agrees, Holds, KeyOf, IsOpen, Finished
  <2> QED
    BY <2>1, <2>2, <2>3, <2>4 DEF Next
<1> QED
  BY <1>1, <1>2, TypeInvariant, PTL DEF Spec

\* With one thread in a process, fd_entries says of a descriptor that openat, close or the
\* iterator was the last to change what the kernel's table says; but for one that was
\* closed between the iterator's look at it and its insert.
THEOREM MapIsLive == ASSUME OneThread PROVE Spec => []LiveMap
<1>1. FdInv => LiveMap
  BY DEF FdInv, SoundInv, Settled, LiveMap
<1> QED
  BY <1>1, FdInvariant, PTL

\* With one thread in a process, an open socket that fd_entries knows of is in
\* sock_entries, unless a socket iterator has failed.
THEOREM SocketsAreKnown == ASSUME OneThread PROVE Spec => []SocketsKnown
<1>1. FdInv => SocketsKnown
  BY DEF FdInv, SocketInv, SocketsKnown
<1> QED
  BY <1>1, FdInvariant, PTL
===============================================================================

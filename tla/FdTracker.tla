------------------------------- MODULE FdTracker -------------------------------
(***************************************************************************)
(* The descriptor and socket tables: the openat and close hooks and the    *)
(* task_file iterator of procfast-bpf/src/fd.bpf.c, the socket iterators   *)
(* of sock.bpf.c, the part of the loader that attaches and runs them       *)
(* (procfast/src/lib.rs), and clients that read fd_entries in batches.     *)
(*                                                                         *)
(* A hooked system call is the kernel's own steps with the programs'       *)
(* between them.  dup2, socket, fork and exit change a descriptor table,   *)
(* and no hook sees them.  A file is its inode number and its name in one. *)
(***************************************************************************)
EXTENDS Integers, FiniteSets

CONSTANTS
  Procs, Threads, ProcOf,      \* pids; ProcOf: thread -> its process
  Loaded,                      \* the processes that are there when the loader starts
  Fds,                         \* 0 .. n: descriptor numbers
  Regular, Sockets, None,      \* files; None: an empty place, inode 0
  MaxCalls,                    \* bound: how many system calls there are in all
  Readers, NBuckets, Bucket, BatchSize

Files == Regular \cup Sockets
FdKeys == Procs \X Fds

ASSUME FdAssumption ==
  /\ Procs \subseteq Nat /\ Fds \subseteq Nat /\ IsFiniteSet(Procs) /\ IsFiniteSet(Fds)
  /\ Loaded \subseteq Procs /\ {MaxCalls, NBuckets, BatchSize} \subseteq Nat
  /\ ProcOf \in [Threads -> Procs]
  /\ None \notin Files /\ Regular \cap Sockets = {}
  /\ Bucket \in [FdKeys -> 0 .. NBuckets - 1]

VARIABLES
  fdt,      \* the kernel's descriptor tables: key -> file or None
  call,     \* the system call each thread is in
  calls,    \* how many calls have begun, for the bound
  made,     \* the sockets there have been
  hooks,    \* the hooks that are attached
  lpc,      \* where the loader is
  unread,   \* the keys the task_file iterator has still to come to
  held,     \* the file it has read and not yet inserted: <<key, file>>, or <<>>
  unseen,   \* the sockets the socket iterators have still to come to
  entries,  \* fd_entries: key -> inode and path
  socks,    \* sock_entries: the inodes in it
  sound,    \* history: the keys whose last change the hooks and the iterator follow
  crossed   \* history: the keys closed between the iterator's look at them and its insert

Finished == {"done", "partly"}  \* where the loader is in the end

kernel == <<fdt, call, calls, made>>
loader == <<hooks, lpc, unread, held, unseen>>

VARIABLES wpc, cursor, taken, got, present
INSTANCE BatchReader WITH table <- entries

vars == <<fdt, call, calls, made, hooks, lpc, unread, held, unseen, entries, socks, sound, crossed,
          wpc, cursor, taken, got, present>>

Idle == [op |-> "idle", fd |-> 0, file |-> None, seen |-> FALSE]

Init ==
  /\ \E tables \in [Loaded \X Fds -> Files \cup {None}] :
       fdt = [k \in FdKeys |-> IF k[1] \in Loaded THEN tables[k] ELSE None]
  /\ made = {s \in Sockets : \E k \in FdKeys : fdt[k] = s}
  /\ call = [t \in Threads |-> Idle] /\ calls = 0
  /\ hooks = {} /\ lpc = "attach"
  /\ unread = FdKeys /\ held = <<>> /\ unseen = Sockets
  /\ entries = <<>> /\ socks = {}
  /\ sound = {} /\ crossed = {}
  /\ WalkInit

\* One more call.
Count == calls < MaxCalls /\ calls' = calls + 1

Put(k, v) == [j \in DOMAIN entries \cup {k} |-> IF j = k THEN v ELSE entries[j]]
Drop(k) == [j \in DOMAIN entries \ {k} |-> entries[j]]

KeyOf(t) == <<ProcOf[t], call[t].fd>>

\* The iterator has read this key's file and not yet inserted it.
Holds(k) == held # <<>> /\ held[1] = k

\* The kernel gives away the lowest free number.
Free(p) == {f \in Fds : fdt[<<p, f>>] = None}
Lowest(p, f) == f \in Free(p) /\ \A g \in Free(p) : f <= g

(***************************************************************************)
(* do_sys_openat2 and its fexit program                                    *)
(***************************************************************************)

\* The program runs at the exit only if it was attached at the entry.
OpenEnter(t, x) ==
  /\ call[t] = Idle /\ x \in Regular /\ Count
  /\ call' = [call EXCEPT ![t] = [op |-> "open", fd |-> 0, file |-> x,
                                  seen |-> "open" \in hooks]]
  /\ UNCHANGED <<fdt, made, loader, entries, socks, sound, crossed>>

\* MUTANT of OpenFails: the program does not look at ret.
OpenFailsTracked(t) ==
  /\ call[t].op = "open"
  /\ call' = [call EXCEPT ![t].op = "exit", ![t].fd = -1]
  /\ UNCHANGED <<calls, fdt, made, loader, entries, socks, sound, crossed>>

\* ret < 0: the program tracks nothing.
OpenFails(t) ==
  /\ call[t].op = "open"
  /\ call' = [call EXCEPT ![t] = Idle]
  /\ UNCHANGED <<calls, fdt, made, loader, entries, socks, sound, crossed>>

\* A call that was under way when the hook was attached is neither traced nor, it may
\* be, met by the iterator.
OpenInstall(t, f) ==
  LET k == <<ProcOf[t], f>> IN
  /\ call[t].op = "open" /\ Lowest(ProcOf[t], f)
  /\ fdt' = [fdt EXCEPT ![k] = call[t].file]
  /\ call' = [call EXCEPT ![t] =
       IF @.seen THEN [op |-> "exit", fd |-> f, file |-> @.file, seen |-> TRUE] ELSE Idle]
  /\ sound' = IF call[t].seen THEN sound \cup {k} ELSE sound \ {k}
  /\ UNCHANGED <<calls, made, loader, entries, socks, crossed>>

\* The program's path is the call's argument, its inode what the table has by now.
OpenExit(t) ==
  /\ call[t].op = "exit"
  /\ entries' = Put(KeyOf(t), [inode |-> fdt[KeyOf(t)], path |-> call[t].file])
  /\ call' = [call EXCEPT ![t] = Idle]
  /\ crossed' = crossed \ {KeyOf(t)}
  /\ UNCHANGED <<calls, fdt, made, loader, socks, sound>>

(***************************************************************************)
(* close_fd and its fentry program                                         *)
(***************************************************************************)

\* What the iterator holds of the descriptor is not deleted: it is not there yet.
CloseEnter(t, f) ==
  LET k == <<ProcOf[t], f>> IN
  /\ call[t] = Idle /\ Count
  /\ call' = [call EXCEPT ![t] = [op |-> "close", fd |-> f, file |-> None,
                                  seen |-> "close" \in hooks]]
  /\ entries' = IF "close" \in hooks THEN Drop(k) ELSE entries
  /\ crossed' = IF Holds(k) THEN crossed \cup {k} ELSE crossed \ {k}
  /\ UNCHANGED <<fdt, made, loader, socks, sound>>

\* The table lets go of the file; only now is the number free.
CloseLeave(t) ==
  /\ call[t].op = "close"
  /\ fdt' = [fdt EXCEPT ![KeyOf(t)] = None]
  /\ call' = [call EXCEPT ![t] = Idle]
  /\ sound' = IF call[t].seen THEN sound \cup {KeyOf(t)} ELSE sound \ {KeyOf(t)}
  /\ UNCHANGED <<calls, made, loader, entries, socks, crossed>>

(***************************************************************************)
(* What no hook sees                                                       *)
(***************************************************************************)

SocketCall(t, f, s) ==
  /\ call[t] = Idle /\ Lowest(ProcOf[t], f) /\ s \in Sockets \ made /\ Count
  /\ fdt' = [fdt EXCEPT ![<<ProcOf[t], f>>] = s]
  /\ made' = made \cup {s}
  /\ sound' = sound \ {<<ProcOf[t], f>>}
  /\ UNCHANGED <<call, loader, entries, socks, crossed>>

Dup(t, f, g) ==
  /\ call[t] = Idle /\ f # g /\ fdt[<<ProcOf[t], f>>] # None /\ Count
  /\ fdt' = [fdt EXCEPT ![<<ProcOf[t], g>>] = fdt[<<ProcOf[t], f>>]]
  /\ sound' = sound \ {<<ProcOf[t], g>>}
  /\ UNCHANGED <<call, made, loader, entries, socks, crossed>>

Quiet(p) == \A t \in Threads : ProcOf[t] = p => call[t] = Idle

\* A process that has no descriptor may not have been there before.
Fork(p, q) ==
  /\ p # q /\ Quiet(p) /\ Quiet(q) /\ Free(q) = Fds /\ Count
  /\ fdt' = [k \in FdKeys |-> IF k[1] = q THEN fdt[<<p, k[2]>>] ELSE fdt[k]]
  /\ sound' = {k \in sound : k[1] # q}
  /\ UNCHANGED <<call, made, loader, entries, socks, crossed>>

Exit(p) ==
  /\ Quiet(p) /\ Free(p) # Fds /\ Count
  /\ fdt' = [k \in FdKeys |-> IF k[1] = p THEN None ELSE fdt[k]]
  /\ sound' = {k \in sound : k[1] # p}
  /\ UNCHANGED <<call, made, loader, entries, socks, crossed>>

(***************************************************************************)
(* The loader: hooks, then the task_file iterator, then the sockets        *)
(***************************************************************************)

AttachOpen ==
  /\ lpc = "attach" /\ hooks = {}
  /\ hooks' = {"open"}
  /\ UNCHANGED <<kernel, lpc, unread, held, unseen, entries, socks, sound, crossed>>

AttachClose ==
  /\ lpc = "attach" /\ hooks = {"open"}
  /\ hooks' = {"open", "close"} /\ lpc' = "iterate"
  /\ UNCHANGED <<kernel, unread, held, unseen, entries, socks, sound, crossed>>

\* A hook or the iterator is refused: a warning, and the hooks attached so far stay in
\* links.
LoadFails ==
  /\ lpc \in {"attach", "iterate"} /\ unread = FdKeys
  /\ lpc' = "socks" /\ unread' = {}
  /\ UNCHANGED <<kernel, hooks, held, unseen, entries, socks, sound, crossed>>

Before(j, k) == j[1] < k[1] \/ (j[1] = k[1] /\ j[2] < k[2])

\* The next file, by task and number; the program reads it ...
IterRead(k) ==
  /\ lpc = "iterate" /\ held = <<>>
  /\ k \in unread /\ \A j \in unread : ~ Before(j, k)
  /\ unread' = unread \ {k}
  /\ held' = IF fdt[k] = None THEN <<>> ELSE <<k, fdt[k]>>
  /\ sound' = IF fdt[k] = None \/ k \in DOMAIN entries THEN sound ELSE sound \cup {k}
  /\ crossed' = IF fdt[k] # None /\ \E t \in Threads : call[t].op = "close" /\ KeyOf(t) = k
                  THEN crossed \cup {k} ELSE crossed
  /\ UNCHANGED <<kernel, hooks, lpc, unseen, entries, socks>>

\* MUTANT of IterInsert: BPF_ANY for BPF_NOEXIST.
IterInsertAny ==
  /\ held # <<>>
  /\ entries' = Put(held[1], [inode |-> held[2], path |-> held[2]])
  /\ held' = <<>>
  /\ UNCHANGED <<kernel, hooks, lpc, unread, unseen, socks, sound, crossed>>

\* ... and inserts with BPF_NOEXIST: an entry of the hook is newer.
IterInsert ==
  /\ held # <<>>
  /\ entries' = IF held[1] \in DOMAIN entries THEN entries
                ELSE Put(held[1], [inode |-> held[2], path |-> held[2]])
  /\ held' = <<>>
  /\ UNCHANGED <<kernel, hooks, lpc, unread, unseen, socks, sound, crossed>>

\* Ok(0) and Err(_) end the read loop alike, and without an iterator fd it does not begin.
IterEnd ==
  /\ lpc = "iterate" /\ held = <<>>
  /\ lpc' = "socks" /\ unread' = {}
  /\ UNCHANGED <<kernel, hooks, held, unseen, entries, socks, sound, crossed>>

IsOpen(x) == \E k \in FdKeys : fdt[k] = x

\* MUTANT of SockVisit: the sockets are enumerated before the files.
SockVisitEarly(s) ==
  /\ s \in unseen
  /\ unseen' = unseen \ {s}
  /\ socks' = IF IsOpen(s) THEN socks \cup {s} ELSE socks
  /\ UNCHANGED <<kernel, hooks, lpc, unread, held, entries, sound, crossed>>

\* iter/tcp, iter/udp, iter/unix: a socket without a file is passed over.  Sockets stands
\* for those they come to: TCP, UDP and Unix, of the loader's network namespace, and no
\* more than sock_entries has room for.
SockVisit(s) ==
  /\ lpc = "socks" /\ s \in unseen
  /\ unseen' = unseen \ {s}
  /\ socks' = IF IsOpen(s) THEN socks \cup {s} ELSE socks
  /\ UNCHANGED <<kernel, hooks, lpc, unread, held, entries, sound, crossed>>

\* An iterator is refused or its reading meets an error: some sockets are never seen.
SocksFail ==
  /\ lpc = "socks" /\ unseen # {}
  /\ lpc' = "partly" /\ unseen' = {}
  /\ UNCHANGED <<kernel, hooks, unread, held, entries, socks, sound, crossed>>

LoadEnd ==
  /\ lpc = "socks" /\ unseen = {}
  /\ lpc' = "done"
  /\ UNCHANGED <<kernel, hooks, unread, held, unseen, entries, socks, sound, crossed>>

(***************************************************************************)
(* All of it                                                               *)
(***************************************************************************)

SystemStep ==
  \/ \E t \in Threads :
       \/ \E x \in Regular : OpenEnter(t, x)
       \/ OpenFails(t) \/ OpenExit(t) \/ CloseLeave(t)
       \/ \E f \in Fds : OpenInstall(t, f) \/ CloseEnter(t, f)
       \/ \E f \in Fds, s \in Sockets : SocketCall(t, f, s)
       \/ \E f, g \in Fds : Dup(t, f, g)
  \/ \E p, q \in Procs : Fork(p, q)
  \/ \E p \in Procs : Exit(p)

LoadStep ==
  \/ AttachOpen \/ AttachClose \/ LoadFails
  \/ (\E k \in FdKeys : IterRead(k)) \/ IterInsert \/ IterEnd
  \/ (\E s \in Sockets : SockVisit(s)) \/ SocksFail \/ LoadEnd

Next ==
  \/ (SystemStep \/ LoadStep) /\ Watch
  \/ lpc \in Finished /\ (\E r \in Readers : ReadStep(r))  \* clients of a ready daemon
     /\ UNCHANGED <<kernel, loader, entries, socks, sound, crossed>>

Spec == Init /\ [][Next]_vars

(***************************************************************************)
(* Properties                                                              *)
(***************************************************************************)

Entry == [inode : Files \cup {None}, path : Files]

\* Every variable has its type.
TypeOK ==
  /\ fdt \in [FdKeys -> Files \cup {None}]
  /\ call \in [Threads -> [op : {"idle", "open", "exit", "close"}, fd : Fds \cup {0},
                           file : Regular \cup {None}, seen : BOOLEAN]]
  /\ calls \in 0 .. MaxCalls /\ made \subseteq Sockets /\ hooks \subseteq {"open", "close"}
  /\ lpc \in {"attach", "iterate", "socks"} \cup Finished
  /\ unread \subseteq FdKeys /\ unseen \subseteq Sockets
  /\ held = <<>> \/ held \in FdKeys \X Files
  /\ DOMAIN entries \subseteq FdKeys /\ \A k \in DOMAIN entries : entries[k] \in Entry
  /\ socks \subseteq Sockets /\ sound \subseteq FdKeys /\ crossed \subseteq FdKeys
  /\ WalkTypeOK

\* A program has this key in its hands: its system call is not over.
Calling(k) == \E t \in Threads : call[t].op \in {"exit", "close"} /\ KeyOf(t) = k

Agrees(k) ==
  IF fdt[k] = None THEN k \notin DOMAIN entries
  ELSE k \in DOMAIN entries /\ entries[k] = [inode |-> fdt[k], path |-> fdt[k]]

\* "maintain a live hash map of (pid, fd) -> file info" (fd.bpf.c): fd_entries says what
\* the kernel's table says of every descriptor whose last change was an openat or a
\* close with its hook attached (before, during or after the iterator's run), or which the
\* iterator has found; but for one that is closed between the iterator's look at it
\* and its insert, and not opened or closed again since: the code does not promise
\* these, see ClosedStaysClosed.
LiveMap == \A k \in sound \ crossed : Calling(k) \/ Holds(k) \/ Agrees(k)

\* "remove entry on close" (fd.bpf.c): a descriptor that close was the last to change,
\* its hook attached, has no entry.  No run checks it, since it fails: the iterator reads
\* a file, the file is closed, and the insert with BPF_NOEXIST finds the key free.
ClosedStaysClosed ==
  \A k \in sound : fdt[k] = None => Calling(k) \/ Holds(k) \/ k \notin DOMAIN entries

\* lsof looks the inode of a descriptor up in sock_entries: a socket that fd_entries
\* knows of and that is still open is found there if the socket iterators met no error,
\* since the files are read first.
SocketsKnown ==
  lpc = "done" =>
    \A k \in DOMAIN entries :
      LET x == entries[k].inode IN x \in Sockets /\ IsOpen(x) => x \in socks

(***************************************************************************)
(* The invariant behind LiveMap and SocketsKnown, for processes of one     *)
(* thread each.                                                            *)
(***************************************************************************)
OneThread == \A t, u \in Threads : ProcOf[t] = ProcOf[u] => t = u

\* A file that openat has installed stays until its program has run, and what a
\* hooked close has deleted stays deleted, if the iterator does not hold it.
ThreadCallInv(t) ==
  /\ call[t].op \in {"open", "exit"} => call[t].file \in Regular
  /\ call[t].op \in {"exit", "close"} => call[t].fd \in Fds
  /\ call[t].op = "exit" => fdt[KeyOf(t)] = call[t].file
  /\ call[t].op = "close" /\ call[t].seen =>
       KeyOf(t) \in crossed \/ (KeyOf(t) \notin DOMAIN entries /\ ~ Holds(KeyOf(t)))

CallInv == \A t \in Threads : ThreadCallInv(t)

\* The iterator has something to insert only while it is read.
IterInv ==
  /\ lpc \in Finished \cup {"socks"} => held = <<>>
  /\ held # <<>> => unread # FdKeys

\* A sound key that no program has in its hands agrees, or will with the insert.
Settled(k) ==
  \/ Calling(k)
  \/ IF Holds(k) /\ k \notin DOMAIN entries THEN held[2] = fdt[k] ELSE Agrees(k)

SoundInv == \A k \in sound \ crossed : Settled(k)

\* A socket is made once, so that one not open when it is looked for is gone for good.
SocketInv ==
  /\ \A k \in FdKeys : fdt[k] \in Sockets => fdt[k] \in made
  /\ held # <<>> /\ held[2] \in Sockets => held[2] \in made
  /\ \A k \in DOMAIN entries :
       LET x == entries[k].inode IN
       x \in Sockets =>
         /\ x \in made
         /\ lpc \in {"socks", "done"} => x \in unseen \cup socks \/ ~ IsOpen(x)
  /\ lpc \in {"attach", "iterate"} => unseen = Sockets
  /\ lpc = "done" => unseen = {}

\* Inductive (FdTracker_proofs), and with the types implies LiveMap and SocketsKnown.
FdInv == CallInv /\ IterInv /\ SoundInv /\ SocketInv
===============================================================================

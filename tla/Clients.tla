-------------------------------- MODULE Clients --------------------------------
(***************************************************************************)
(* Clients of the pins: procfast_open and procfast_close of                *)
(* procfast-native/procfast_client.h, and ProcfastClient::connect with a   *)
(* reader of procfast-client/src/lib.rs, one map at a time, while daemons  *)
(* start, stop and die.                                                    *)
(*                                                                         *)
(* A descriptor is named by the map it was opened for; every process has   *)
(* one more, number 0, its standard input.  Permissions are left out: a    *)
(* client here may open what is pinned.                                    *)
(***************************************************************************)
EXTENDS Daemon, Naturals, Sequences

CONSTANTS
  Handles,    \* processes that open and close one handle or one reader each
  OpenOrder,  \* the maps procfast_open tries, in its order
  Mapped,     \* those of them it maps into memory
  Header,     \* the map without which the next one is not tried
  ReaderOrder, \* the maps of the reader, in its order: proc_stats() has two
  Zero, Unset, Nobody

Wanted == {OpenOrder[i] : i \in 1 .. Len(OpenOrder)}

ASSUME ClientAssumption ==
  /\ OpenOrder \in Seq(Maps) /\ ReaderOrder \in Seq(Wanted)
  /\ Mapped \subseteq Wanted
  /\ \A i \in 1 .. Len(OpenOrder) : OpenOrder[i] = Header =>
       /\ i < Len(OpenOrder)
       /\ \A c \in Collectors : OpenOrder[i + 1] \in MapsOf[c] => Header \in MapsOf[c]
  /\ Len(ReaderOrder) <= Len(OpenOrder)
  /\ Zero \notin Daemons /\ Unset \notin Daemons /\ Nobody \notin Daemons

VARIABLES
  hpc,    \* where each process is
  at,     \* the next map procfast_open tries, by its place in OpenOrder
  field,  \* the fd fields: map -> whose map it is, or Zero (calloc), or Unset (-1)
  fds,    \* the descriptors the process has open
  stdin,  \* its standard input is open
  under,  \* history: the daemon that has been ready all the while procfast_open ran
  due     \* history: the maps that daemon serves

clientVars == <<hpc, at, field, fds, stdin, under, due>>

ClientInit ==
  /\ Init
  /\ hpc = [h \in Handles |-> "idle"]
  /\ at = [h \in Handles |-> 1]
  /\ field = [h \in Handles |-> [m \in Wanted |-> Unset]]
  /\ fds = [h \in Handles |-> {}]
  /\ stdin = [h \in Handles |-> TRUE]
  /\ under = [h \in Handles |-> Nobody]
  /\ due = [h \in Handles |-> {}]

Opening == {"open", "connect"}

\* The histories of a handle or a reader begin.
Begin(h) ==
  /\ under' = [under EXCEPT ![h] = IF \E d \in Daemons : pc[d] = "ready"
                                   THEN CHOOSE d \in Daemons : pc[d] = "ready" ELSE Nobody]
  /\ due' = [due EXCEPT ![h] = UNION {MapsOf[c] : c \in up}]

\* stat finds the directory.  calloc leaves 0 in the fds of the mapped maps, the others
\* are set to -1.
OpenHandle(h) ==
  /\ hpc[h] = "idle" /\ dir
  /\ hpc' = [hpc EXCEPT ![h] = "open"]
  /\ field' = [field EXCEPT ![h] = [m \in Wanted |-> IF m \in Mapped THEN Zero ELSE Unset]]
  /\ Begin(h)
  /\ UNCHANGED <<at, fds, stdin>>

\* MUTANT of TakeMap: the test of procfast__open_map's result is the wrong way round.
TakeMapSkipping(h) ==
  /\ hpc[h] = "open" /\ at[h] <= Len(OpenOrder)
  /\ LET m == OpenOrder[at[h]] IN
       IF m \in DOMAIN pins
       THEN /\ field' = [field EXCEPT ![h][m] = pins[m]]
            /\ fds' = [fds EXCEPT ![h] = @ \cup {m}]
            /\ at' = [at EXCEPT ![h] = @ + IF m = Header THEN 2 ELSE 1]
       ELSE /\ at' = [at EXCEPT ![h] = @ + 1]
            /\ UNCHANGED <<field, fds>>
  /\ UNCHANGED <<hpc, stdin, under, due>>

\* MUTANT of TakeMap: the descriptor of a mapped map is not kept in the handle.
TakeMapUnrecorded(h) ==
  /\ hpc[h] = "open" /\ at[h] <= Len(OpenOrder)
  /\ LET m == OpenOrder[at[h]] IN
       IF m \in DOMAIN pins
       THEN /\ field' = [field EXCEPT ![h][m] = IF m \in Mapped THEN @ ELSE pins[m]]
            /\ fds' = [fds EXCEPT ![h] = @ \cup {m}]
            /\ at' = [at EXCEPT ![h] = @ + 1]
       ELSE /\ at' = [at EXCEPT ![h] = @ + IF m = Header THEN 2 ELSE 1]
            /\ UNCHANGED <<field, fds>>
  /\ UNCHANGED <<hpc, stdin, under, due>>

\* The next map: BPF_OBJ_GET, and mmap.  Without proc_header, proc_stats is passed over.
TakeMap(h) ==
  /\ hpc[h] = "open" /\ at[h] <= Len(OpenOrder)
  /\ LET m == OpenOrder[at[h]] IN
       IF m \in DOMAIN pins
       THEN /\ field' = [field EXCEPT ![h][m] = pins[m]]
            /\ fds' = [fds EXCEPT ![h] = @ \cup {m}]
            /\ at' = [at EXCEPT ![h] = @ + 1]
       ELSE /\ at' = [at EXCEPT ![h] = @ + IF m = Header THEN 2 ELSE 1]
            /\ UNCHANGED <<field, fds>>
  /\ UNCHANGED <<hpc, stdin, under, due>>

\* free(h): the handle is gone, what the process has open is not.
Free(h) ==
  /\ field' = [field EXCEPT ![h] = [m \in Wanted |-> Unset]]
  /\ at' = [at EXCEPT ![h] = 1]
  /\ UNCHANGED <<under, due>>

\* available: the header alone does not count.
Available(h) == {m \in Wanted \ {Header} : field[h][m] \in Daemons}

\* A handle with something in it ...
Opened(h) ==
  /\ hpc[h] = "open" /\ at[h] > Len(OpenOrder) /\ Available(h) # {}
  /\ hpc' = [hpc EXCEPT ![h] = "held"]
  /\ UNCHANGED <<at, field, fds, stdin, under, due>>

\* ... or NULL: the handle is freed, and no more.
OpenedNothing(h) ==
  /\ hpc[h] = "open" /\ at[h] > Len(OpenOrder) /\ Available(h) = {}
  /\ hpc' = [hpc EXCEPT ![h] = "null"]
  /\ Free(h)
  /\ UNCHANGED <<fds, stdin>>

\* close(0) for a mapped map that was not there.
CloseZero(h) ==
  stdin' = [stdin EXCEPT ![h] = @ /\ \A m \in Mapped : field[h][m] # Zero]

\* MUTANT of Close: what available says is closed.
CloseAvailable(h) ==
  /\ hpc[h] = "held"
  /\ hpc' = [hpc EXCEPT ![h] = "closed"]
  /\ fds' = [fds EXCEPT ![h] = @ \ Available(h)]
  /\ CloseZero(h) /\ Free(h)

\* procfast_close: every fd field that is not negative is closed.
Close(h) ==
  /\ hpc[h] = "held"
  /\ hpc' = [hpc EXCEPT ![h] = "closed"]
  /\ fds' = [fds EXCEPT ![h] = @ \ {m \in Wanted : field[h][m] \in Daemons}]
  /\ CloseZero(h) /\ Free(h)

\* ProcfastClient::connect finds the directory; then one of its readers is asked for.
Connect(h) ==
  /\ hpc[h] = "idle" /\ dir
  /\ hpc' = [hpc EXCEPT ![h] = "connect"]
  /\ Begin(h)
  /\ UNCHANGED <<at, field, fds, stdin>>

\* open_pinned_map of the reader's next map, and mmap if it is one of those.
ReaderTake(h) ==
  /\ hpc[h] = "connect" /\ at[h] <= Len(ReaderOrder)
  /\ LET m == ReaderOrder[at[h]] IN
       /\ m \in DOMAIN pins
       /\ field' = [field EXCEPT ![h][m] = pins[m]]
       /\ fds' = [fds EXCEPT ![h] = @ \cup {m}]
  /\ at' = [at EXCEPT ![h] = @ + 1]
  /\ UNCHANGED <<hpc, stdin, under, due>>

ReaderOpened(h) ==
  /\ hpc[h] = "connect" /\ at[h] > Len(ReaderOrder)
  /\ hpc' = [hpc EXCEPT ![h] = "reader"]
  /\ UNCHANGED <<at, field, fds, stdin, under, due>>

\* The `?` of a map that is not there, or the end of the reader: what it has is dropped.
ReaderDrop(h) ==
  /\ \/ hpc[h] = "reader"
     \/ /\ hpc[h] = "connect" /\ at[h] <= Len(ReaderOrder)
        /\ ReaderOrder[at[h]] \notin DOMAIN pins
  /\ hpc' = [hpc EXCEPT ![h] = "closed"]
  /\ fds' = [fds EXCEPT ![h] = {}]
  /\ Free(h)
  /\ UNCHANGED stdin

\* What a daemon's step does to the histories of the handles being opened.
Observe ==
  /\ under' = [h \in Handles |->
       IF hpc[h] \in Opening /\ under[h] \in Daemons /\ pc'[under[h]] # "ready"
       THEN Nobody ELSE under[h]]
  /\ UNCHANGED <<hpc, at, field, fds, stdin, due>>

ClientStep(h) ==
  \/ OpenHandle(h) \/ TakeMap(h) \/ Opened(h) \/ OpenedNothing(h) \/ Close(h)
  \/ Connect(h) \/ ReaderTake(h) \/ ReaderOpened(h) \/ ReaderDrop(h)

ClientNext ==
  \/ Next /\ Observe
  \/ (\E h \in Handles : ClientStep(h)) /\ UNCHANGED vars

ClientSpec == ClientInit /\ [][ClientNext]_<<vars, clientVars>>

(***************************************************************************)
(* Properties                                                              *)
(***************************************************************************)

\* Every variable has its type.
ClientTypeOK ==
  /\ TypeOK
  /\ hpc \in [Handles -> {"idle", "open", "held", "null", "connect", "reader", "closed"}]
  /\ at \in [Handles -> 1 .. Len(OpenOrder) + 1]
  /\ field \in [Handles -> [Wanted -> Daemons \cup {Zero, Unset}]]
  /\ fds \in [Handles -> SUBSET Wanted]
  /\ stdin \in [Handles -> BOOLEAN]
  /\ under \in [Handles -> Daemons \cup {Nobody}]
  /\ due \in [Handles -> SUBSET Maps]

\* procfast_open under a daemon that is ready all the while, after whatever happened to
\* its predecessors: the handle has each map of every collector that daemon has built,
\* and it is that daemon's own.  A reader has its maps, and they are that daemon's if it
\* has built their collector.
HandleFresh ==
  \A h \in Handles : under[h] \in Daemons =>
    /\ hpc[h] = "held" => \A m \in due[h] \cap Wanted : field[h][m] = under[h]
    /\ hpc[h] = "reader" =>
         \A i \in 1 .. Len(ReaderOrder) :
           LET m == ReaderOrder[i] IN
             field[h][m] \in IF m \in due[h] THEN {under[h]} ELSE Daemons

\* "Close handle and free resources" (procfast_close), and dropping a reader or half of
\* one: whichever maps were there, none that was opened stays open, not even the header
\* of a table that was not.
ClosedReleases == \A h \in Handles : hpc[h] = "closed" => fds[h] = {}

\* procfast_close closes every field that is not negative, and calloc has left 0 in those
\* of mapped maps that were not there: it closes descriptor 0 then, but never behind a
\* daemon that was ready with all the mapped maps while the handle was made.
ClosesOnlyItsOwn ==
  \A h \in Handles : under[h] \in Daemons /\ Mapped \subseteq due[h] => stdin[h]

\* What these properties rest on.  While a client is opening under a daemon that has
\* been ready since it began, the maps due are those of what the daemon has built, and
\* each one behind it that is due has been opened as that daemon's; a descriptor of a
\* handle is in one of its fields.
HandleInv ==
  /\ HandleFresh /\ ClosesOnlyItsOwn
  /\ \A h \in Handles :
       /\ hpc[h] = "idle" => at[h] = 1
       /\ hpc[h] # "closed" => stdin[h]
       /\ hpc[h] \in {"idle", "closed"} => fds[h] = {}
       /\ hpc[h] \in {"open", "held"} => \A m \in fds[h] : field[h][m] \in Daemons
       /\ under[h] \in Daemons =>
            /\ hpc[h] \in Opening => pc[under[h]] = "ready" /\ due[h] = UNION {MapsOf[c] : c \in up}
            /\ hpc[h] = "open" =>
                 \A i \in 1 .. Len(OpenOrder) :
                   i < at[h] /\ OpenOrder[i] \in due[h] => field[h][OpenOrder[i]] = under[h]
            /\ hpc[h] = "connect" =>
                 \A i \in 1 .. Len(ReaderOrder) :
                   i < at[h] => field[h][ReaderOrder[i]] \in
                                  IF ReaderOrder[i] \in due[h] THEN {under[h]} ELSE Daemons
===============================================================================

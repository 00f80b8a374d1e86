------------------------------- MODULE Daemon -------------------------------
(***************************************************************************)
(* The life of procfastd (procfastd/src/main.rs): clean up after a former  *)
(* daemon, load the collectors and pin their maps (ProcfastBuilder in      *)
(* procfast/src/lib.rs), run until a signal, unpin (procfast/src/pin.rs).  *)
(* It may die at any step; what it has pinned then stays in the bpffs.     *)
(*                                                                         *)
(* A collector pins its maps one by one, in any order here.  Each daemon   *)
(* is a process that starts once, when no other runs; ExecStartPre and     *)
(* ExecStopPost of the systemd unit are not part of the model.             *)
(***************************************************************************)
CONSTANTS
  Daemons,   \* processes, each of which runs once
  Cpu,       \* the CPU collector: the only one that cannot fail quietly
  Others,    \* the other collectors
  MapsOf,    \* collector -> the maps it pins
  CpuData    \* the map of the CPU collector

Collectors == {Cpu} \cup Others
Maps == UNION {MapsOf[c] : c \in Collectors}

ASSUME DaemonAssumption ==
  /\ Cpu \notin Others
  /\ \A c \in Collectors : MapsOf[c] # {}
  /\ \A b, c \in Collectors : b # c => MapsOf[b] \cap MapsOf[c] = {}
  /\ MapsOf[Cpu] = {CpuData}

VARIABLES
  dir,    \* the pin directory exists
  pins,   \* what is pinned in it: map -> the daemon that writes it
  pc,     \* where each daemon is
  todo,   \* the running daemon's enabled collectors that it has not built yet
  now,    \* the one it builds
  left,   \* the maps of that one it has not pinned yet
  map,    \* the one it pins
  up,     \* those it has built
  broken  \* history: a daemon has died in the middle of unpinning

vars == <<dir, pins, pc, todo, now, left, map, up, broken>>

States == {"none", "check", "clean", "mkdir", "build", "remove", "pin", "attach",
           "ready", "unpin", "gone"}

Dead == {"none", "gone"}
Loading == {"remove", "pin", "attach"}
Building == {"build", "ready"} \cup Loading

Init ==
  /\ dir = FALSE
  /\ pins = <<>>
  /\ pc = [d \in Daemons |-> "none"]
  /\ todo = {}
  /\ now = Cpu
  /\ left = {}
  /\ map = CpuData
  /\ up = {}
  /\ broken = FALSE

Goto(d, label) == pc' = [pc EXCEPT ![d] = label]

Without(m) == [n \in DOMAIN pins \ {m} |-> pins[n]]

\* The arguments enable some of the other collectors.
Start(d) ==
  /\ pc[d] = "none"
  /\ \A e \in Daemons : pc[e] \in Dead
  /\ Goto(d, "check")
  /\ \E enabled \in SUBSET Others : todo' = {Cpu} \cup enabled
  /\ now' = Cpu /\ left' = {} /\ map' = CpuData /\ up' = {}
  /\ UNCHANGED <<dir, pins, broken>>

\* MUTANT of IsPinned: only a whole set of pins is cleaned up.
IsPinnedWhole == Maps \subseteq DOMAIN pins

\* is_pinned looks for cpu_data only.
IsPinned == CpuData \in DOMAIN pins

Check(d) ==
  /\ pc[d] = "check"
  /\ Goto(d, IF IsPinned THEN "clean" ELSE "mkdir")
  /\ UNCHANGED <<dir, pins, todo, now, left, map, up, broken>>

\* unpin_maps: remove_dir_all takes the entries one by one, in no fixed order ...
UnpinOne(d, m) ==
  /\ pc[d] \in {"clean", "unpin"}
  /\ m \in DOMAIN pins
  /\ pins' = Without(m)
  /\ UNCHANGED <<dir, pc, todo, now, left, map, up, broken>>

AfterUnpin(d) == Goto(d, IF pc[d] = "clean" THEN "mkdir" ELSE "gone")

\* MUTANT of UnpinDir: the directory is taken away with entries left in it.
UnpinDirFirst(d) ==
  /\ pc[d] \in {"clean", "unpin"}
  /\ dir' = FALSE
  /\ AfterUnpin(d)
  /\ UNCHANGED <<pins, todo, now, left, map, up, broken>>

\* ... and the directory last.
UnpinDir(d) ==
  /\ pc[d] \in {"clean", "unpin"}
  /\ DOMAIN pins = {}
  /\ dir' = FALSE
  /\ AfterUnpin(d)
  /\ UNCHANGED <<pins, todo, now, left, map, up, broken>>

\* remove_dir_all meets an error: a warning, and what is left is left.
UnpinFails(d) ==
  /\ pc[d] \in {"clean", "unpin"}
  /\ broken' = TRUE
  /\ AfterUnpin(d)
  /\ UNCHANGED <<dir, pins, todo, now, left, map, up>>

MakeDir(d) ==
  /\ pc[d] = "mkdir"
  /\ dir' = TRUE
  /\ Goto(d, "build")
  /\ UNCHANGED <<pins, todo, now, left, map, up, broken>>

\* MUTANT of Open: the collectors in any order.
OpenAnyOrder(d, c) ==
  /\ pc[d] = "build"
  /\ c \in todo
  /\ todo' = todo \ {c}
  /\ now' = c
  /\ left' = MapsOf[c]
  /\ Goto(d, "remove")
  /\ UNCHANGED <<dir, pins, map, up, broken>>

\* The next collector opens and loads its programs; the CPU collector is the first.
\* (Those of sockets and cgroups run their iterators here, and not after the pins.)
Open(d, c) ==
  /\ pc[d] = "build"
  /\ c \in todo
  /\ Cpu \in todo => c = Cpu
  /\ todo' = todo \ {c}
  /\ now' = c
  /\ left' = MapsOf[c]
  /\ Goto(d, "remove")
  /\ UNCHANGED <<dir, pins, map, up, broken>>

\* MUTANT of RemoveStale: remove_dir_all of the directory for remove_file of the pin.
RemoveAllStale(d, m) ==
  /\ pc[d] = "remove"
  /\ m \in left
  /\ map' = m
  /\ pins' = <<>>
  /\ Goto(d, "pin")
  /\ UNCHANGED <<dir, todo, now, left, up, broken>>

\* pin_map of the next map: remove_file ...
RemoveStale(d, m) ==
  /\ pc[d] = "remove"
  /\ m \in left
  /\ map' = m
  /\ pins' = Without(m)
  /\ Goto(d, "pin")
  /\ UNCHANGED <<dir, todo, now, left, up, broken>>

\* ... and BPF_OBJ_PIN, which refuses a name that exists.
PinMap(d) ==
  /\ pc[d] = "pin"
  /\ map \notin DOMAIN pins
  /\ pins' = [m \in DOMAIN pins \cup {map} |-> IF m = map THEN d ELSE pins[m]]
  /\ left' = left \ {map}
  /\ dir' = TRUE
  /\ Goto(d, IF left \subseteq {map} THEN "attach" ELSE "remove")
  /\ UNCHANGED <<todo, now, map, up, broken>>

\* The programs are attached, the iterators run, the timer started.
Attach(d) ==
  /\ pc[d] = "attach"
  /\ up' = up \cup {now}
  /\ Goto(d, "build")
  /\ UNCHANGED <<dir, pins, todo, now, left, map, broken>>

\* MUTANT of Fail: the CPU collector's failure is a warning, too.
FailQuietly(d) ==
  /\ pc[d] \in {"mkdir", "remove", "pin", "attach"} /\ now = Cpu
  /\ Goto(d, "build")
  /\ UNCHANGED <<dir, pins, todo, now, left, map, up, broken>>

\* Any of these steps fails.  Up to the CPU collector that is fatal: the daemon exits,
\* and what is pinned stays pinned ...
Fail(d) ==
  /\ pc[d] \in {"mkdir", "remove", "pin", "attach"} /\ now = Cpu
  /\ Goto(d, "gone")
  /\ UNCHANGED <<dir, pins, todo, now, left, map, up, broken>>

\* ... and afterwards it is a warning, and here, too, the pins stay.
Warn(d) ==
  /\ pc[d] \in Loading /\ now # Cpu
  /\ Goto(d, "build")
  /\ UNCHANGED <<dir, pins, todo, now, left, map, up, broken>>

\* build() returns and the signal handlers are in place.
Ready(d) ==
  /\ pc[d] = "build" /\ todo = {}
  /\ Goto(d, "ready")
  /\ UNCHANGED <<dir, pins, todo, now, left, map, up, broken>>

\* SIGINT or SIGTERM, seen by the main loop.
Shutdown(d) ==
  /\ pc[d] = "ready"
  /\ Goto(d, "unpin")
  /\ UNCHANGED <<dir, pins, todo, now, left, map, up, broken>>

\* SIGKILL, or any signal before the handlers are registered.
Crash(d) ==
  /\ pc[d] \notin Dead
  /\ Goto(d, "gone")
  /\ broken' = (broken \/ pc[d] \in {"clean", "unpin"})
  /\ UNCHANGED <<dir, pins, todo, now, left, map, up>>

Next ==
  \E d \in Daemons :
    \/ Start(d) \/ Check(d)
    \/ (\E m \in Maps : UnpinOne(d, m)) \/ UnpinDir(d) \/ UnpinFails(d)
    \/ MakeDir(d)
    \/ \E c \in Collectors : Open(d, c)
    \/ (\E m \in Maps : RemoveStale(d, m)) \/ PinMap(d)
    \/ Attach(d) \/ Fail(d) \/ Warn(d)
    \/ Ready(d) \/ Shutdown(d) \/ Crash(d)

Spec == Init /\ [][Next]_vars

(***************************************************************************)
(* Properties                                                              *)
(***************************************************************************)

\* Every variable has its type, and nothing is pinned outside the directory.
TypeOK ==
  /\ dir \in BOOLEAN /\ broken \in BOOLEAN
  /\ DOMAIN pins \subseteq Maps
  /\ \A m \in DOMAIN pins : pins[m] \in Daemons
  /\ DOMAIN pins # {} => dir
  /\ pc \in [Daemons -> States]
  /\ todo \subseteq Collectors
  /\ now \in Collectors
  /\ left \subseteq Maps
  /\ map \in Maps
  /\ up \subseteq Collectors

\* d has pinned all these maps, and nobody has taken them away.
Owns(d, maps) == \A m \in maps : m \in DOMAIN pins /\ pins[m] = d

\* Whatever former daemons left behind, and wherever they died: a client that opens
\* a map of a collector the running daemon has built gets the map that is written to.
ServedFresh ==
  \A d \in Daemons : pc[d] = "ready" =>
    /\ Cpu \in up
    /\ \A c \in up : Owns(d, MapsOf[c])

\* Why: daemons run one at a time; what the running one has built is pinned and its
\* own, the maps it has just pinned are too, and the CPU collector is never left out.
BuildInv ==
  /\ \A d, e \in Daemons : pc[d] \notin Dead /\ pc[e] \notin Dead => d = e
  /\ \A d \in Daemons :
       /\ pc[d] \in {"check", "clean", "mkdir"} => up = {} /\ now = Cpu /\ Cpu \in todo
       /\ pc[d] \notin Dead => up \cap todo = {}
       /\ pc[d] \in Loading =>
            /\ now \notin up \cup todo
            /\ left \subseteq MapsOf[now]
            /\ Owns(d, MapsOf[now] \ left)
       /\ pc[d] = "pin" => map \in left
       /\ pc[d] = "attach" => left = {}
       /\ pc[d] \in Building =>
            /\ \A c \in up : Owns(d, MapsOf[c])
            /\ \/ Cpu \in up
               \/ pc[d] = "build" /\ Cpu \in todo
               \/ pc[d] \in Loading /\ now = Cpu
       /\ pc[d] = "ready" => todo = {}

\* "Clean up stale pins from a previous run" (procfastd/src/main.rs): unless a daemon
\* died, or met an error, in the middle of unpinning, nothing of former daemons is
\* pinned while one runs, whatever it has built.  Looking for cpu_data is enough, as it
\* is the first to be pinned.
StalePinsCleaned ==
  ~ broken => \A d \in Daemons : pc[d] = "ready" => Owns(d, DOMAIN pins)

\* Why: unless a daemon is at unpinning, cpu_data is there if anything is, and a daemon
\* that builds has nobody else's pins about it, and at most cpu_data at first.
CleanInv ==
  ~ broken =>
    /\ (\A d \in Daemons : pc[d] \notin {"clean", "unpin"}) =>
         DOMAIN pins = {} \/ CpuData \in DOMAIN pins
    /\ \A d \in Daemons : pc[d] \in {"mkdir"} \cup Building =>
         /\ Owns(d, DOMAIN pins)
         /\ Cpu \in up \/ DOMAIN pins \subseteq {CpuData}
=============================================================================

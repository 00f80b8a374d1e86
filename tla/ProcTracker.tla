------------------------------ MODULE ProcTracker ------------------------------
(***************************************************************************)
(* The process tracker (procfast-bpf/src/proc.bpf.c): four scheduler       *)
(* tracepoints, a task iterator run once at load and a periodic timer keep *)
(* the hash maps proc_stats (one entry per thread group) and               *)
(* thread_runtime (one entry per thread) in step with the kernel's tasks.  *)
(*                                                                         *)
(* A tracepoint program runs in one step with the kernel event that fires  *)
(* it.  The iterator and the timer walk the maps while the tracepoints go  *)
(* on: theirs are the steps between which anything may happen.             *)
(*                                                                         *)
(* Time is counted in collection intervals and an entry keeps the age of   *)
(* its last_seen_ns.  Of the statistics, the model keeps what the programs *)
(* decide on: state, last_seen_ns and cpu_runtime_ns.                      *)
(***************************************************************************)
EXTENDS Naturals, FiniteSets, Functions

CONSTANTS
  Tids,         \* thread ids
  Leader,       \* the thread group of each thread, named by its leader's id
  Initial,      \* the threads alive when the tracepoints are attached
  Idle,         \* the idle task, which has no entry in either map
  NCpus,        \* CPUs
  Sleeps,       \* how a thread may leave the CPU: "sleeping", "stopped", "traced"
  MaxProcs,     \* capacity of proc_stats
  MaxThreads,   \* capacity of thread_runtime
  MaxEvents,    \* capacity of the ring buffer proc_events
  MaxRuntime,   \* bound: units of CPU time a thread uses in its life
  MaxLives      \* bound: how often a thread id is given to a new thread

Pids == {t \in Tids : Leader[t] = t}

ASSUME ProcAssumption ==
  /\ IsFiniteSet(Tids)
  /\ Leader \in [Tids -> Tids]
  /\ \A t \in Tids : Leader[Leader[t]] = Leader[t]
  /\ Initial \subseteq Tids
  /\ \A t \in Initial : Leader[t] \in Initial
  /\ Idle \notin Tids
  /\ Sleeps \subseteq {"sleeping", "stopped", "traced"}
  /\ {NCpus, MaxProcs, MaxThreads, MaxEvents, MaxRuntime} \subseteq Nat
  /\ MaxLives \in Nat \ {0}

(***************************************************************************)
(* procfast's process states, and reap_dead_procs' idea of a dead one.     *)
(***************************************************************************)
Running == 0
Sleeping == 1
Stopped == 3
Zombie == 4
Dead == 5
IsDead(state) == state >= 4

(***************************************************************************)
(* The kernel's task states.  A thread that has passed the exit tracepoint *)
(* is "exiting" (on a CPU) or "exitready" (preempted) until it leaves the  *)
(* CPU for the last time; a leader is then "dead" until its parent waits   *)
(* for it, any other thread is gone at once.  "traced" is a thread that    *)
(* waits traced, parked or frozen; once woken, it is "thawed" until it     *)
(* has a CPU again.                                                        *)
(***************************************************************************)
OnCpu == {"running", "exiting"}
Halted == {"traced", "thawed"}
Alive == {"ready", "running", "sleeping", "stopped"} \cup Halted
KernelStates == Alive \cup {"none", "exiting", "exitready", "dead"}

VARIABLES
  task,            \* the kernel's state of each thread
  sum_exec,        \* its se.sum_exec_runtime
  lives,           \* how often its id has been used
  proc_stats,      \* map: thread group -> [state, age, runtime]
  thread_runtime,  \* map: thread -> last seen sum_exec_runtime
  ring,            \* proc_events: how many events it holds
  load,            \* the loader: [pc, todo, tid, life, runtime, state]
  timer,           \* the timer: [pc, todo, victim, count, reaped]
  due,             \* the interval is over and the timer has not yet run
  nr_procs,        \* proc_header.nr_procs
  ran,             \* history: CPU time of each group since load or fork
  doomed           \* history: whom the timer has decided to reap while it was halted

kernel == <<task, sum_exec, lives>>
maps == <<proc_stats, thread_runtime, ring>>
vars == <<kernel, maps, load, timer, due, nr_procs, ran, doomed>>

MaxAge == 3   \* bound: older entries are all alike, the reaper's limit is 2

Entry == [state : {Running, Sleeping, 2, Stopped, Zombie, Dead}, age : 0 .. MaxAge, runtime : Nat]

NewEntry(state) == [state |-> state, age |-> 0, runtime |-> 0]

Put(map, key, value) == [k \in DOMAIN map \cup {key} |-> IF k = key THEN value ELSE map[k]]

Without(map, key) == [k \in DOMAIN map \ {key} |-> map[k]]

\* bpf_map_update_elem with BPF_ANY on a hash map: it fails, and nobody looks,
\* when the key is new and the map is full.
Update(map, capacity, key, value) ==
  IF key \in DOMAIN map \/ Cardinality(DOMAIN map) < capacity
    THEN Put(map, key, value)
    ELSE map

\* bpf_map_update_elem with BPF_NOEXIST.
Insert(map, capacity, key, value) ==
  IF key \in DOMAIN map THEN map ELSE Update(map, capacity, key, value)

\* emit_event: a full ring buffer drops the event.  Nothing takes events out:
\* ProcCollector::drain_events read()s the map's fd, which the kernel refuses.
Emit == ring' = IF ring < MaxEvents THEN ring + 1 ELSE ring

OnCpus == {t \in Tids : task[t] \in OnCpu}

\* The loader between two tasks.
Loader(pc, todo) ==
  [pc |-> pc, todo |-> todo, tid |-> Idle, life |-> 0, runtime |-> 0, state |-> Running]

TimerIdle == [pc |-> "idle", todo |-> {}, victim |-> Idle, count |-> 0, reaped |-> 0]

\* The tracepoints have just been attached, to empty maps; the four attachments, one
\* after the other in the code, are one instant.  (If one of them or the timer's start
\* fails there is no process collector.)
Init ==
  /\ task \in [Tids -> {"none", "ready"} \cup Sleeps]
  /\ \A t \in Tids : task[t] # "none" <=> t \in Initial
  /\ sum_exec = [t \in Tids |-> 0]
  /\ lives = [t \in Tids |-> IF t \in Initial THEN 1 ELSE 0]
  /\ proc_stats = <<>>
  /\ thread_runtime = <<>>
  /\ ring = 0
  /\ load = Loader("iterate", Tids)
  /\ timer = TimerIdle
  /\ due = TRUE
  /\ nr_procs = 0
  /\ ran = [p \in Pids |-> 0]
  /\ doomed = {}

(***************************************************************************)
(* What the kernel does without telling the tracker.                       *)
(***************************************************************************)
Run(t) ==
  /\ task[t] \in OnCpu
  /\ sum_exec[t] < MaxRuntime
  /\ sum_exec' = [sum_exec EXCEPT ![t] = @ + 1]
  /\ ran' = [ran EXCEPT ![Leader[t]] = @ + 1]
  /\ UNCHANGED <<task, lives, maps, load, timer, due, nr_procs, doomed>>

Wake(t) ==
  /\ task[t] \in Sleeps
  /\ task' = [task EXCEPT ![t] = IF @ = "traced" THEN "thawed" ELSE "ready"]
  /\ UNCHANGED <<sum_exec, lives, maps, load, timer, due, nr_procs, ran, doomed>>

\* The parent waits for a zombie, whose pid becomes free.
Release(p) ==
  /\ task[p] = "dead"
  /\ \A t \in Tids : Leader[t] = p /\ t # p => task[t] = "none"
  /\ task' = [task EXCEPT ![p] = "none"]
  /\ UNCHANGED <<sum_exec, lives, maps, load, timer, due, nr_procs, ran, doomed>>

(***************************************************************************)
(* sched_switch.                                                           *)
(***************************************************************************)
\* MUTANT of SwitchState: the branch for TASK_INTERRUPTIBLE is missing.
SwitchStateNoSleep(k) ==
  CASE k \in {"ready", "exitready"} -> Running
    [] k = "stopped" -> Stopped
    [] OTHER -> Dead

\* prev->__state.  A traced, parked or frozen thread and one that has just died
\* (TASK_DEAD) share the code's last branch.
SwitchState(k) ==
  CASE k \in {"ready", "exitready"} -> Running
    [] k = "sleeping" -> Sleeping
    [] k = "stopped" -> Stopped
    [] OTHER -> Dead

\* How the thread that leaves the CPU may leave it.
Leaves(t) ==
  IF task[t] = "running"
    THEN {"ready"} \cup Sleeps
    ELSE {"exitready", IF t \in Pids THEN "dead" ELSE "none"}

\* thread_runtime after the switch: the baseline of the thread that leaves.  (The idle
\* tasks share one more entry, of pid 0, which is left out.)
AccountRuntime(prev) == Update(thread_runtime, MaxThreads, prev, sum_exec[prev])

Delta(prev) ==
  IF prev \in DOMAIN thread_runtime THEN sum_exec[prev] - thread_runtime[prev] ELSE 0

\* proc_stats after the first half of the program ...
SwitchedOut(prev, k) ==
  LET p == Leader[prev] IN
  IF prev = Idle \/ p \notin DOMAIN proc_stats
    THEN proc_stats
    ELSE [proc_stats EXCEPT ![p] = [state |-> SwitchState(k), age |-> @.age,
                                    runtime |-> @.runtime + Delta(prev)]]

\* ... and after the second.
SwitchedIn(stats, next) ==
  LET p == Leader[next] IN
  IF next = Idle \/ p \notin DOMAIN stats
    THEN stats
    ELSE [stats EXCEPT ![p] = [state |-> Running, age |-> 0, runtime |-> @.runtime]]

Switch(prev, k, next) ==
  /\ prev # next
  /\ IF prev = Idle
       THEN k = "ready" /\ Cardinality(OnCpus) < NCpus
       ELSE prev \in OnCpus /\ k \in Leaves(prev)
  /\ next \in {Idle} \cup {t \in Tids : task[t] \in {"ready", "thawed", "exitready"}}
  /\ task' = [t \in Tids |->
                CASE t = prev -> k
                  [] t = next -> IF task[t] = "exitready" THEN "exiting" ELSE "running"
                  [] OTHER -> task[t]]
  /\ proc_stats' = SwitchedIn(SwitchedOut(prev, k), next)
  /\ thread_runtime' = IF prev = Idle THEN thread_runtime ELSE AccountRuntime(prev)
  /\ UNCHANGED <<sum_exec, lives, ring, load, timer, due, nr_procs, ran, doomed>>

(***************************************************************************)
(* sched_process_fork, sched_process_exec, sched_process_exit.             *)
(***************************************************************************)
ForkEntry(t) == Update(proc_stats, MaxProcs, t, NewEntry(Running))

\* A thread id is free once the thread is gone, a leader's once its group is; a
\* thread is forked by one of its group.
Fork(t) ==
  /\ task[t] = "none" /\ lives[t] < MaxLives
  /\ \/ t \in Pids /\ \A s \in Tids : Leader[s] = t => task[s] = "none"
     \/ \E s \in Tids : s # t /\ Leader[s] = Leader[t] /\ task[s] = "running"
  /\ task' = [task EXCEPT ![t] = "ready"]
  /\ sum_exec' = [sum_exec EXCEPT ![t] = 0]
  /\ lives' = [lives EXCEPT ![t] = @ + 1]
  /\ thread_runtime' = Update(thread_runtime, MaxThreads, t, 0)
  /\ IF t \in Pids
       THEN /\ proc_stats' = ForkEntry(t)
            /\ Emit
            /\ ran' = [ran EXCEPT ![t] = 0]
       ELSE UNCHANGED <<proc_stats, ring, ran>>
  /\ UNCHANGED <<load, timer, due, nr_procs, doomed>>

\* exec by the leader of a group of one thread; the new comm and size are not
\* part of the model.
Exec(p) ==
  /\ task[p] = "running"
  /\ \A t \in Tids : Leader[t] = p /\ t # p => task[t] = "none"
  /\ p \in DOMAIN proc_stats
  /\ Emit
  /\ UNCHANGED <<kernel, proc_stats, thread_runtime, load, timer, due, nr_procs, ran, doomed>>

MarkExit(p) ==
  IF p \in DOMAIN proc_stats THEN [proc_stats EXCEPT ![p].state = Zombie] ELSE proc_stats

Exit(t) ==
  /\ task[t] = "running"
  /\ task' = [task EXCEPT ![t] = "exiting"]
  /\ thread_runtime' = Without(thread_runtime, t)
  /\ IF t \in Pids
       THEN proc_stats' = MarkExit(t) /\ Emit
       ELSE UNCHANGED <<proc_stats, ring>>
  /\ UNCHANGED <<sum_exec, lives, load, timer, due, nr_procs, ran, doomed>>

(***************************************************************************)
(* procfast_proc_dump_task, for every task there is.                       *)
(***************************************************************************)
\* read_task_stats: a dying thread's TASK_DEAD is none of the states it knows.
TaskState(k) ==
  CASE k \in {"ready", "thawed", "running", "exiting", "exitready"} -> Running
    [] k = "stopped" -> Stopped
    [] OTHER -> Sleeping

LoadVisit(t) ==
  /\ load.pc = "iterate"
  /\ t \in load.todo
  /\ load' = IF task[t] = "none"
               THEN [load EXCEPT !.todo = @ \ {t}]
               ELSE [load EXCEPT !.pc = "baseline", !.todo = @ \ {t}, !.tid = t,
                                 !.life = lives[t], !.runtime = sum_exec[t]]
  /\ UNCHANGED <<kernel, maps, timer, due, nr_procs, ran, doomed>>

\* MUTANT of LoadRuntime: BPF_ANY in the iterator.
LoadOverwrites == Update(thread_runtime, MaxThreads, load.tid, load.runtime)

LoadRuntime == Insert(thread_runtime, MaxThreads, load.tid, load.runtime)

\* The iterator still holds the task it visits when the id has a new owner.
LoadBaseline ==
  /\ load.pc = "baseline"
  /\ thread_runtime' = LoadRuntime
  /\ load' = IF load.tid \in Pids
               THEN [load EXCEPT !.pc = "entry",
                       !.state = TaskState(IF lives[load.tid] = load.life
                                             THEN task[load.tid] ELSE "none")]
               ELSE Loader("iterate", load.todo)
  /\ UNCHANGED <<kernel, proc_stats, ring, timer, due, nr_procs, ran, doomed>>

LoadEntry ==
  /\ load.pc = "entry"
  /\ proc_stats' = Insert(proc_stats, MaxProcs, load.tid, NewEntry(load.state))
  /\ load' = Loader("iterate", load.todo)
  /\ UNCHANGED <<kernel, thread_runtime, ring, timer, due, nr_procs, ran, doomed>>

\* The loader reads no more and starts the timer: Ok(0) at the end and Err(_) anywhere
\* end the loop alike, and without an iterator fd, a warning, it does not begin.
LoadDone ==
  /\ load.pc = "iterate"
  /\ load' = Loader("run", load.todo)
  /\ UNCHANGED <<kernel, maps, timer, due, nr_procs, ran, doomed>>

(***************************************************************************)
(* proc_timer_callback.                                                    *)
(***************************************************************************)
Tick ==
  /\ timer.pc = "idle" /\ ~ due
  /\ due' = TRUE
  /\ proc_stats' = [p \in DOMAIN proc_stats |->
                      [proc_stats[p] EXCEPT !.age = IF @ < MaxAge THEN @ + 1 ELSE MaxAge]]
  /\ UNCHANGED <<kernel, thread_runtime, ring, load, timer, nr_procs, ran, doomed>>

TimerStart ==
  /\ load.pc = "run" /\ timer.pc = "idle" /\ due
  /\ due' = FALSE
  /\ timer' = [pc |-> "walk", todo |-> Pids, victim |-> Idle, count |-> 0, reaped |-> 0]
  /\ UNCHANGED <<kernel, maps, load, nr_procs, ran, doomed>>

\* MUTANT of Expired: whoever has not run for two intervals is dead.
ExpiredByAge(e) == e.age > 2

\* Not on a CPU for more than two intervals, and dead.
Expired(e) == IsDead(e.state) /\ e.age > 2

Doom(p) ==
  IF p \in DOMAIN proc_stats /\ Expired(proc_stats[p]) /\ task[p] \in Halted
    THEN doomed \cup {p} ELSE doomed

\* MUTANT of TimerVisit: an entry is counted after the early return of the reaper.
TimerVisitLate(p) ==
  /\ timer.pc = "walk"
  /\ p \in timer.todo
  /\ timer' =
       IF p \notin DOMAIN proc_stats
         THEN [timer EXCEPT !.todo = @ \ {p}]
       ELSE IF Expired(proc_stats[p])
         THEN [timer EXCEPT !.todo = @ \ {p}, !.pc = "reap", !.victim = p]
         ELSE [timer EXCEPT !.todo = @ \ {p}, !.count = @ + 1]
  /\ doomed' = Doom(p)
  /\ UNCHANGED <<kernel, maps, load, due, nr_procs, ran>>

\* reap_dead_procs on one entry: the decision.  Refreshing a live entry changes
\* none of the fields of the model.
TimerVisit(p) ==
  /\ timer.pc = "walk"
  /\ p \in timer.todo
  /\ timer' =
       IF p \notin DOMAIN proc_stats
         THEN [timer EXCEPT !.todo = @ \ {p}]
       ELSE IF Expired(proc_stats[p])
         THEN [timer EXCEPT !.todo = @ \ {p}, !.count = @ + 1, !.pc = "reap", !.victim = p]
         ELSE [timer EXCEPT !.todo = @ \ {p}, !.count = @ + 1]
  /\ doomed' = Doom(p)
  /\ UNCHANGED <<kernel, maps, load, due, nr_procs, ran>>

\* MUTANT of TimerReap: the entry is counted as reaped and stays.
TimerReapNothing ==
  /\ timer.pc = "reap"
  /\ timer' = [timer EXCEPT !.pc = "walk", !.victim = Idle, !.reaped = @ + 1]
  /\ UNCHANGED <<kernel, maps, load, due, nr_procs, ran, doomed>>

\* MUTANT of TimerReap: reaped is not counted.
TimerReapUncounted ==
  /\ timer.pc = "reap"
  /\ proc_stats' = Without(proc_stats, timer.victim)
  /\ timer' = [timer EXCEPT !.pc = "walk", !.victim = Idle]
  /\ UNCHANGED <<kernel, thread_runtime, ring, load, due, nr_procs, ran, doomed>>

\* reap_dead_procs on one entry: the deletion.
TimerReap ==
  /\ timer.pc = "reap"
  /\ proc_stats' = Without(proc_stats, timer.victim)
  /\ timer' = [timer EXCEPT !.pc = "walk", !.victim = Idle, !.reaped = @ + 1]
  /\ UNCHANGED <<kernel, thread_runtime, ring, load, due, nr_procs, ran, doomed>>

\* The header, and the timer's next start.
TimerEnd ==
  /\ timer.pc = "walk" /\ timer.todo = {}
  /\ nr_procs' = timer.count - timer.reaped
  /\ timer' = TimerIdle
  /\ UNCHANGED <<kernel, maps, load, due, ran, doomed>>

TimerStep == TimerStart \/ (\E p \in Pids : TimerVisit(p)) \/ TimerReap \/ TimerEnd

LoadStep == (\E t \in Tids : LoadVisit(t)) \/ LoadBaseline \/ LoadEntry \/ LoadDone

Next ==
  \/ \E t \in Tids : Run(t) \/ Wake(t) \/ Fork(t) \/ Exit(t)
  \/ \E p \in Pids : Exec(p) \/ Release(p)
  \/ \E prev, next \in Tids \cup {Idle}, k \in KernelStates : Switch(prev, k, next)
  \/ LoadStep
  \/ Tick
  \/ TimerStep

Spec == Init /\ [][Next]_vars

\* The loader and the timer callback run to their ends, time passes, and the
\* kernel's timer fires.  Nothing is assumed of the tasks.
Fairness == WF_vars(LoadStep) /\ WF_vars(Tick) /\ WF_vars(TimerStep)

FairSpec == Spec /\ Fairness

(***************************************************************************)
(* Properties                                                              *)
(***************************************************************************)

Loads == [pc : {"iterate", "baseline", "entry", "run"}, todo : SUBSET Tids,
          tid : Tids \cup {Idle}, life : 0 .. MaxLives, runtime : 0 .. MaxRuntime,
          state : {Running, Sleeping, Stopped}]

Timers == [pc : {"idle", "walk", "reap"}, todo : SUBSET Pids, victim : Pids \cup {Idle},
           count : Nat, reaped : Nat]

\* Every variable has its type, and no map outgrows its capacity.
TypeOK ==
  /\ task \in [Tids -> KernelStates]
  /\ sum_exec \in [Tids -> 0 .. MaxRuntime]
  /\ lives \in [Tids -> 0 .. MaxLives]
  /\ \A t \in Tids : task[t] # "none" => lives[t] > 0
  /\ DOMAIN proc_stats \subseteq Pids
  /\ Cardinality(DOMAIN proc_stats) <= MaxProcs
  /\ \A p \in DOMAIN proc_stats : proc_stats[p] \in Entry
  /\ DOMAIN thread_runtime \subseteq Tids
  /\ Cardinality(DOMAIN thread_runtime) <= MaxThreads
  /\ \A t \in DOMAIN thread_runtime : thread_runtime[t] \in 0 .. sum_exec[t]
  /\ ring \in 0 .. MaxEvents
  /\ load \in Loads /\ timer \in Timers /\ due \in BOOLEAN
  /\ load.pc \in {"baseline", "entry"} =>
       load.tid \in Tids /\ lives[load.tid] > 0 /\ load.runtime <= sum_exec[load.tid]
  /\ load.pc = "entry" => load.tid \in Pids
  /\ ran \in [Pids -> Nat] /\ doomed \subseteq Pids
  /\ nr_procs \in 0 .. Cardinality(Pids)

\* The processes of one thread.
Solo == {p \in Pids : \A t \in Tids : Leader[t] = p => t = p}

\* The tasks that were there at load and that the iterator's reader did not come to.
Unread == load.todo \cap Initial

\* The map is the process list ("new processes appear automatically", "a live map
\* of per-process stats that's always up-to-date"): once the loader is done every
\* living process of one thread has an entry that clients show (state < 4), but for
\* the three the code does not promise: one that sched_switch has booked as dead, since
\* it left the CPU traced, parked or frozen and has not run since; one whose entry the
\* timer has decided to reap in such a wait, which never comes back; one that a
\* failed iterator has not come to.
LiveShown ==
  load.pc = "run" =>
    \A p \in Solo \ (doomed \cup Unread) : task[p] \in Alive \ Halted =>
      p \in DOMAIN proc_stats /\ ~ IsDead(proc_stats[p].state)

\* What the timer takes of the processes of one thread is dead, or was halted when the
\* timer decided to: one that runs, sleeps or is stopped stays for however long, and
\* whoever has run since a wait is not taken for what it was in it.
SoloReaped ==
  [][\A p \in Solo \cap (DOMAIN proc_stats \ DOMAIN proc_stats') :
       task[p] \in Alive => p \in doomed]_proc_stats

\* The timer reaps "entries that have been dead for >2 intervals" (sched_process_exit):
\* no entry goes while a thread of its process lives.  It fails, with a second
\* thread, and with one that is traced, parked or frozen for two intervals.
OnlyDeadReaped ==
  [][\A p \in DOMAIN proc_stats \ DOMAIN proc_stats' :
       \A t \in Tids : Leader[t] = p => task[t] \notin Alive]_proc_stats

\* CPU time is not counted twice, whatever the iterator and the tracepoints each do
\* to a thread's baseline: the cpu_runtime_ns of a process is at most what its
\* threads have run.  (Once a thread exits it may be: the iterator can put back the
\* baseline that sched_process_exit has deleted.)
NoOvercount ==
  \A p \in DOMAIN proc_stats :
    (\A t \in Tids : Leader[t] = p => task[t] \in Alive \/ lives[t] = 0)
      => proc_stats[p].runtime <= ran[p]

\* An entry marked dead goes away, unless its pid comes back to life.
DeadReaped ==
  \A p \in Pids :
    (p \in DOMAIN proc_stats /\ IsDead(proc_stats[p].state))
      ~> (p \notin DOMAIN proc_stats \/ ~ IsDead(proc_stats[p].state))

\* The header counts what the map holds: entries may come while the timer walks,
\* but its nr_procs is never more than there are.
HeaderCounts ==
  [][timer.pc = "walk" /\ timer'.pc = "idle" => nr_procs' <= Cardinality(DOMAIN proc_stats)]_vars

\* No ghosts: the entry of a process that is gone goes too, unless its pid comes
\* back.  No run checks it, since it fails: a zombie the iterator finds is entered as
\* sleeping, and the reaper looks for entries marked dead.
GoneForgotten ==
  \A p \in Pids :
    (p \in DOMAIN proc_stats /\ task[p] = "none")
      ~> (p \notin DOMAIN proc_stats \/ task[p] # "none")

\* sched_process_exit should "clean up thread runtime tracking for all exiting
\* tasks": a thread that is gone has no baseline.
ExitedForgotten == \A t \in DOMAIN thread_runtime : task[t] \notin {"none", "dead"}

(***************************************************************************)
(* The invariants behind them, for threads that live once and have room in *)
(* the maps.                                                               *)
(***************************************************************************)
OneLife == MaxLives = 1
Room    == Cardinality(Pids) <= MaxProcs

\* What the timer has counted and not reaped is in the map, and behind it.
TimerInv ==
  /\ timer.pc = "idle" => timer = TimerIdle
  /\ timer.reaped <= timer.count
  /\ timer.count - timer.reaped <= Cardinality(DOMAIN proc_stats \ timer.todo)
  /\ timer.pc = "reap" => /\ timer.reaped < timer.count
                          /\ timer.victim \in DOMAIN proc_stats \ timer.todo

\* Who has an entry has lived; no living process of one thread is marked dead, and
\* none waits to be reaped, but for a halted one.
StateInv ==
  /\ \A p \in DOMAIN proc_stats : lives[p] > 0
  /\ \A p \in Solo \cap DOMAIN proc_stats :
       task[p] \in Alive \ Halted => ~ IsDead(proc_stats[p].state)
  /\ timer.pc = "reap" => lives[timer.victim] > 0
  /\ timer.pc = "reap" /\ timer.victim \in Solo /\ task[timer.victim] \in Alive =>
       timer.victim \in doomed

\* A living process of one thread is in the map, or the iterator is still to come to it
\* or never will, or the timer has taken it for a dead one.
EntryInv ==
  \A p \in Solo : task[p] \in Alive =>
    \/ p \in DOMAIN proc_stats \cup Unread \cup doomed
    \/ load.pc \in {"baseline", "entry"} /\ p = load.tid

\* A group no thread of which has exited has been charged no more than what came
\* before its threads' baselines; and a thread that has not lived yet has run for no time.
Group(p)  == {t \in Tids : Leader[t] = p}
Intact(p) == \A t \in Group(p) : task[t] \in Alive \/ lives[t] = 0
Baseline  == [t \in Tids |-> IF t \in DOMAIN thread_runtime THEN thread_runtime[t] ELSE 0]

RuntimeInv ==
  /\ \A t \in Tids : IF lives[t] = 0 THEN sum_exec[t] = 0 ELSE lives[Leader[t]] > 0
  /\ \A p \in Pids : ran[p] = SumFunctionOnSet(sum_exec, Group(p))
  /\ \A p \in DOMAIN proc_stats :
       Intact(p) => proc_stats[p].runtime <= SumFunctionOnSet(Baseline, Group(p))
===============================================================================

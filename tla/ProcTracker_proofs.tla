-------------------------- MODULE ProcTracker_proofs --------------------------
(***************************************************************************)
(* What holds of the process tracker for any threads, CPUs and capacities. *)
(* The header's count needs no assumption at all.  The rest is proved for  *)
(* threads that live once (OneLife).  What an entry's state says is proved *)
(* of the processes of one thread (Solo), whatever others there are: an    *)
(* entry is shared by a group's threads, and then a sleeping or exiting    *)
(* one speaks for all of them.                                             *)
(***************************************************************************)
EXTENDS ProcTracker, Sums, TLAPS

(***************************************************************************)
(* The maps.                                                               *)
(***************************************************************************)

\* bpf_map_update_elem changes the entry of its key, or nothing, and no more.
LEMMA UpdateFacts ==
  ASSUME NEW map, NEW capacity \in Nat, NEW key, NEW value, IsFiniteSet(DOMAIN map)
  PROVE  /\ DOMAIN map \subseteq DOMAIN Update(map, capacity, key, value)
         /\ DOMAIN Update(map, capacity, key, value) \subseteq DOMAIN map \cup {key}
         /\ key \in DOMAIN Update(map, capacity, key, value) =>
              Update(map, capacity, key, value)[key] = value
         /\ \A k \in DOMAIN map : k # key => Update(map, capacity, key, value)[k] = map[k]
         /\ Cardinality(DOMAIN map) <= capacity =>
              Cardinality(DOMAIN Update(map, capacity, key, value)) <= capacity
         /\ Cardinality(DOMAIN map) < capacity => key \in DOMAIN Update(map, capacity, key, value)
<1>1. Cardinality(DOMAIN map) \in Nat
  BY FS_CardinalityType
<1>2. CASE key \in DOMAIN map
  <2>1. DOMAIN map \cup {key} = DOMAIN map
    BY <1>2
  <2> QED
    BY <1>1, <1>2, <2>1 DEF Update, Put
<1>3. CASE key \notin DOMAIN map /\ Cardinality(DOMAIN map) < capacity
  <2>1. Cardinality(DOMAIN map \cup {key}) = Cardinality(DOMAIN map) + 1
    BY <1>3, FS_AddElement
  <2>2. Update(map, capacity, key, value) = Put(map, key, value)
    BY <1>3 DEF Update
  <2>3. DOMAIN Put(map, key, value) = DOMAIN map \cup {key}
    BY DEF Put
  <2>4. Put(map, key, value)[key] = value
    BY DEF Put
  <2>5. \A k \in DOMAIN map : k # key => Put(map, key, value)[k] = map[k]
    BY DEF Put
  <2> QED
    BY <1>1, <1>3, <2>1, <2>2, <2>3, <2>4, <2>5
<1>4. CASE key \notin DOMAIN map /\ ~ (Cardinality(DOMAIN map) < capacity)
  BY <1>1, <1>4 DEF Update
<1> QED
  BY <1>2, <1>3, <1>4

\* With BPF_NOEXIST it changes no entry there is.
LEMMA InsertFacts ==
  ASSUME NEW map, NEW capacity \in Nat, NEW key, NEW value, IsFiniteSet(DOMAIN map)
  PROVE  /\ DOMAIN map \subseteq DOMAIN Insert(map, capacity, key, value)
         /\ DOMAIN Insert(map, capacity, key, value) \subseteq DOMAIN map \cup {key}
         /\ key \notin DOMAIN map /\ key \in DOMAIN Insert(map, capacity, key, value) =>
              Insert(map, capacity, key, value)[key] = value
         /\ \A k \in DOMAIN map : Insert(map, capacity, key, value)[k] = map[k]
         /\ Cardinality(DOMAIN map) <= capacity =>
              Cardinality(DOMAIN Insert(map, capacity, key, value)) <= capacity
         /\ Cardinality(DOMAIN map) < capacity => key \in DOMAIN Insert(map, capacity, key, value)
<1>1. CASE key \in DOMAIN map
  BY <1>1 DEF Insert
<1>2. CASE key \notin DOMAIN map
  <2>1. Insert(map, capacity, key, value) = Update(map, capacity, key, value)
    BY <1>2 DEF Insert
  <2>2. \A k \in DOMAIN map : k # key
    BY <1>2
  <2> QED
    BY <2>1, <2>2, UpdateFacts
<1> QED
  BY <1>1, <1>2

(***************************************************************************)
(* The type invariant, part by part, each with what it needs of TypeOK.    *)
(***************************************************************************)
KernelOK ==
  /\ task \in [Tids -> KernelStates]
  /\ sum_exec \in [Tids -> 0 .. MaxRuntime]
  /\ lives \in [Tids -> 0 .. MaxLives]
  /\ \A t \in Tids : task[t] # "none" => lives[t] > 0
  /\ ran \in [Pids -> Nat]

StatsOK ==
  /\ DOMAIN proc_stats \subseteq Pids
  /\ Cardinality(DOMAIN proc_stats) <= MaxProcs
  /\ \A p \in DOMAIN proc_stats : proc_stats[p] \in Entry

BaselinesOK ==
  /\ DOMAIN thread_runtime \subseteq Tids
  /\ Cardinality(DOMAIN thread_runtime) <= MaxThreads
  /\ \A t \in DOMAIN thread_runtime : thread_runtime[t] \in 0 .. sum_exec[t]

LoadOK ==
  /\ load \in Loads
  /\ load.pc \in {"baseline", "entry"} =>
       load.tid \in Tids /\ lives[load.tid] > 0 /\ load.runtime <= sum_exec[load.tid]
  /\ load.pc = "entry" => load.tid \in Pids

TimerOK == timer \in Timers /\ nr_procs \in 0 .. Cardinality(Pids) /\ doomed \subseteq Pids

RestOK == ring \in 0 .. MaxEvents /\ due \in BOOLEAN

LEMMA TypeParts ==
  TypeOK <=> KernelOK /\ StatsOK /\ BaselinesOK /\ LoadOK /\ TimerOK /\ RestOK
BY DEF TypeOK, KernelOK, StatsOK, BaselinesOK, LoadOK, TimerOK, RestOK

LEMMA Finite ==
  /\ IsFiniteSet(Pids)
  /\ Cardinality(Pids) \in Nat /\ Cardinality(Pids) <= Cardinality(Tids)
  /\ Cardinality(Tids) \in Nat
  /\ \A S : S \subseteq Tids => IsFiniteSet(S) /\ Cardinality(S) \in Nat
  /\ \A S : S \subseteq Pids =>
       S \subseteq Tids /\ Cardinality(S) \in Nat /\ Cardinality(S) <= Cardinality(Pids)
<1>1. Pids \subseteq Tids /\ IsFiniteSet(Tids)
  BY ProcAssumption DEF Pids
<1>2. \A S : S \subseteq Tids => IsFiniteSet(S) /\ Cardinality(S) \in Nat
  BY <1>1, FS_Subset, FS_CardinalityType
<1>3. \A S : S \subseteq Pids => Cardinality(S) <= Cardinality(Pids)
  BY <1>1, <1>2, FS_Subset
<1>4. Cardinality(Pids) <= Cardinality(Tids)
  BY <1>1, FS_Subset
<1> QED
  BY <1>1, <1>2, <1>3, <1>4

\* Numbers and states that the steps below rely on.
LEMMA Bounds ==
  /\ NCpus \in Nat /\ MaxProcs \in Nat /\ MaxThreads \in Nat
  /\ MaxEvents \in Nat /\ MaxRuntime \in Nat /\ MaxLives \in Nat \ {0}
BY ProcAssumption

\* A thread that leaves the CPU has run on it, and is alive after only if it was before.
LEMMA LeavesFacts ==
  ASSUME NEW t \in Tids, NEW k \in Leaves(t)
  PROVE  /\ k \in KernelStates
         /\ k \in Alive => task[t] = "running" /\ k \in {"ready"} \cup Sleeps
BY ProcAssumption DEF Leaves, KernelStates, Alive, Halted

LEMMA SwitchStates ==
  ASSUME NEW k
  PROVE  /\ SwitchState(k) \in {Running, Sleeping, Stopped, Dead}
         /\ k \in {"ready", "sleeping", "stopped"} => ~ IsDead(SwitchState(k))
BY DEF SwitchState, Running, Sleeping, Stopped, Dead, IsDead

LEMMA EntryFields ==
  ASSUME NEW e \in Entry
  PROVE  /\ e = [state |-> e.state, age |-> e.age, runtime |-> e.runtime]
         /\ e.state \in {Running, Sleeping, 2, Stopped, Zombie, Dead}
         /\ e.age \in 0 .. MaxAge
         /\ e.runtime \in Nat
BY DEF Entry

\* sched_switch writes the entry of the group that leaves and of the one that comes.
LEMMA SwitchFacts ==
  ASSUME \A p \in DOMAIN proc_stats : proc_stats[p] \in Entry,
         NEW prev, NEW k, NEW next,
         NEW stats, stats = SwitchedIn(SwitchedOut(prev, k), next)
  PROVE  /\ DOMAIN stats = DOMAIN proc_stats
         /\ \A p \in DOMAIN proc_stats :
              /\ stats[p] = [state |-> stats[p].state, age |-> stats[p].age,
                             runtime |-> stats[p].runtime]
              /\ stats[p].runtime = IF prev # Idle /\ p = Leader[prev]
                                      THEN proc_stats[p].runtime + Delta(prev)
                                      ELSE proc_stats[p].runtime
              /\ stats[p].state = IF next # Idle /\ p = Leader[next] THEN Running
                                  ELSE IF prev # Idle /\ p = Leader[prev] THEN SwitchState(k)
                                  ELSE proc_stats[p].state
              /\ stats[p].age = IF next # Idle /\ p = Leader[next] THEN 0 ELSE proc_stats[p].age
<1> DEFINE out == SwitchedOut(prev, k)
<1>1. /\ DOMAIN out = DOMAIN proc_stats
      /\ \A p \in DOMAIN proc_stats :
           out[p] = IF prev # Idle /\ p = Leader[prev]
                      THEN [state |-> SwitchState(k), age |-> proc_stats[p].age,
                            runtime |-> proc_stats[p].runtime + Delta(prev)]
                      ELSE proc_stats[p]
  BY DEF SwitchedOut
<1>2. \A p \in DOMAIN proc_stats :
        proc_stats[p] = [state |-> proc_stats[p].state, age |-> proc_stats[p].age,
                         runtime |-> proc_stats[p].runtime]
  BY EntryFields
<1>3. \A p \in DOMAIN proc_stats :
        out[p] = [state |-> out[p].state, age |-> out[p].age, runtime |-> out[p].runtime]
  <2> SUFFICES ASSUME NEW p \in DOMAIN proc_stats
               PROVE  out[p] = [state |-> out[p].state, age |-> out[p].age,
                                runtime |-> out[p].runtime]
    OBVIOUS
  <2> HIDE DEF out
  <2>1. CASE prev # Idle /\ p = Leader[prev]
    BY <1>1, <2>1
  <2>2. CASE ~ (prev # Idle /\ p = Leader[prev])
    BY <1>1, <1>2, <2>2
  <2> QED
    BY <2>1, <2>2
<1>4. /\ DOMAIN stats = DOMAIN out
      /\ \A p \in DOMAIN out :
           stats[p] = IF next # Idle /\ p = Leader[next]
                        THEN [state |-> Running, age |-> 0, runtime |-> out[p].runtime]
                        ELSE out[p]
  <2> HIDE DEF out
  <2> stats = SwitchedIn(out, next)
    BY DEF out
  <2> QED
    BY DEF SwitchedIn
<1> HIDE DEF out
<1> SUFFICES ASSUME NEW p \in DOMAIN proc_stats
             PROVE  /\ stats[p] = [state |-> stats[p].state, age |-> stats[p].age,
                                   runtime |-> stats[p].runtime]
                    /\ stats[p].runtime = IF prev # Idle /\ p = Leader[prev]
                                            THEN proc_stats[p].runtime + Delta(prev)
                                            ELSE proc_stats[p].runtime
                    /\ stats[p].state =
                         IF next # Idle /\ p = Leader[next] THEN Running
                         ELSE IF prev # Idle /\ p = Leader[prev] THEN SwitchState(k)
                         ELSE proc_stats[p].state
                    /\ stats[p].age =
                         IF next # Idle /\ p = Leader[next] THEN 0 ELSE proc_stats[p].age
  BY <1>1, <1>4
<1>5. CASE next # Idle /\ p = Leader[next]
  BY <1>1, <1>4, <1>5
<1>6. CASE ~ (next # Idle /\ p = Leader[next])
  BY <1>1, <1>3, <1>4, <1>6
<1> QED
  BY <1>5, <1>6

(***************************************************************************)
(* Who changes what.                                                       *)
(***************************************************************************)
LEMMA StatsWriters ==
  ASSUME [Next]_vars, proc_stats' # proc_stats
  PROVE  \/ \E prev, next \in Tids \cup {Idle}, k \in KernelStates : Switch(prev, k, next)
         \/ \E t \in Tids : Fork(t) \/ Exit(t)
         \/ LoadEntry \/ Tick \/ TimerReap
<1>1. CASE \E t \in Tids : Run(t) \/ Wake(t) \/ Fork(t) \/ Exit(t)
  BY <1>1 DEF Run, Wake, maps
<1>2. CASE \E p \in Pids : Exec(p) \/ Release(p)
  BY <1>2 DEF Exec, Release, maps
<1>3. CASE LoadStep
  BY <1>3 DEF LoadStep, LoadVisit, LoadBaseline, LoadDone, maps
<1>4. CASE TimerStep
  BY <1>4 DEF TimerStep, TimerStart, TimerVisit, TimerEnd, maps
<1>5. CASE UNCHANGED vars
  BY <1>5 DEF vars, maps
<1> QED
  BY <1>1, <1>2, <1>3, <1>4, <1>5 DEF Next

LEMMA BaselineWriters ==
  ASSUME [Next]_vars, thread_runtime' # thread_runtime
  PROVE  \/ \E prev, next \in Tids \cup {Idle}, k \in KernelStates : Switch(prev, k, next)
         \/ \E t \in Tids : Fork(t) \/ Exit(t)
         \/ LoadBaseline
<1>1. CASE \E t \in Tids : Run(t) \/ Wake(t) \/ Fork(t) \/ Exit(t)
  BY <1>1 DEF Run, Wake, maps
<1>2. CASE \E p \in Pids : Exec(p) \/ Release(p)
  BY <1>2 DEF Exec, Release, maps
<1>3. CASE LoadStep
  BY <1>3 DEF LoadStep, LoadVisit, LoadEntry, LoadDone, maps
<1>4. CASE Tick
  BY <1>4 DEF Tick
<1>5. CASE TimerStep
  BY <1>5 DEF TimerStep, TimerStart, TimerVisit, TimerReap, TimerEnd, maps
<1>6. CASE UNCHANGED vars
  BY <1>6 DEF vars, maps
<1> QED
  BY <1>1, <1>2, <1>3, <1>4, <1>5, <1>6 DEF Next

LEMMA LoadWriters ==
  ASSUME [Next]_vars, load' # load
  PROVE  LoadStep
<1>1. CASE \E t \in Tids : Run(t) \/ Wake(t) \/ Fork(t) \/ Exit(t)
  BY <1>1 DEF Run, Wake, Fork, Exit
<1>2. CASE \E p \in Pids : Exec(p) \/ Release(p)
  BY <1>2 DEF Exec, Release
<1>3. CASE \E prev, next \in Tids \cup {Idle}, k \in KernelStates : Switch(prev, k, next)
  BY <1>3 DEF Switch
<1>4. CASE Tick
  BY <1>4 DEF Tick
<1>5. CASE TimerStep
  BY <1>5 DEF TimerStep, TimerStart, TimerVisit, TimerReap, TimerEnd
<1>6. CASE UNCHANGED vars
  BY <1>6 DEF vars
<1> QED
  BY <1>1, <1>2, <1>3, <1>4, <1>5, <1>6 DEF Next

LEMMA TimerWriters ==
  ASSUME [Next]_vars, ~ (UNCHANGED <<timer, nr_procs>>)
  PROVE  TimerStep
<1>1. CASE \E t \in Tids : Run(t) \/ Wake(t) \/ Fork(t) \/ Exit(t)
  BY <1>1 DEF Run, Wake, Fork, Exit
<1>2. CASE \E p \in Pids : Exec(p) \/ Release(p)
  BY <1>2 DEF Exec, Release
<1>3. CASE \E prev, next \in Tids \cup {Idle}, k \in KernelStates : Switch(prev, k, next)
  BY <1>3 DEF Switch
<1>4. CASE Tick
  BY <1>4 DEF Tick
<1>5. CASE LoadStep
  BY <1>5 DEF LoadStep, LoadVisit, LoadBaseline, LoadEntry, LoadDone
<1>6. CASE UNCHANGED vars
  BY <1>6 DEF vars
<1> QED
  BY <1>1, <1>2, <1>3, <1>4, <1>5, <1>6 DEF Next

LEMMA KernelWriters ==
  ASSUME [Next]_vars, ~ (UNCHANGED <<kernel, ran>>)
  PROVE  \/ \E t \in Tids : Run(t) \/ Wake(t) \/ Fork(t) \/ Exit(t)
         \/ \E p \in Pids : Release(p)
         \/ \E prev, next \in Tids \cup {Idle}, k \in KernelStates : Switch(prev, k, next)
<1>1. CASE \E p \in Pids : Exec(p) \/ Release(p)
  BY <1>1 DEF Exec
<1>2. CASE LoadStep
  BY <1>2 DEF LoadStep, LoadVisit, LoadBaseline, LoadEntry, LoadDone
<1>3. CASE Tick
  BY <1>3 DEF Tick
<1>4. CASE TimerStep
  BY <1>4 DEF TimerStep, TimerStart, TimerVisit, TimerReap, TimerEnd
<1>5. CASE UNCHANGED vars
  BY <1>5 DEF vars
<1> QED
  BY <1>1, <1>2, <1>3, <1>4, <1>5 DEF Next

LEMMA DoomedWriters ==
  ASSUME [Next]_vars, doomed' # doomed
  PROVE  \E p \in Pids : TimerVisit(p)
<1>1. CASE \E t \in Tids : Run(t) \/ Wake(t) \/ Fork(t) \/ Exit(t)
  BY <1>1 DEF Run, Wake, Fork, Exit
<1>2. CASE \E p \in Pids : Exec(p) \/ Release(p)
  BY <1>2 DEF Exec, Release
<1>3. CASE \E prev, next \in Tids \cup {Idle}, k \in KernelStates : Switch(prev, k, next)
  BY <1>3 DEF Switch
<1>4. CASE LoadStep
  BY <1>4 DEF LoadStep, LoadVisit, LoadBaseline, LoadEntry, LoadDone
<1>5. CASE Tick
  BY <1>5 DEF Tick
<1>6. CASE TimerStep
  BY <1>6 DEF TimerStep, TimerStart, TimerReap, TimerEnd
<1>7. CASE UNCHANGED vars
  BY <1>7 DEF vars
<1> QED
  BY <1>1, <1>2, <1>3, <1>4, <1>5, <1>6, <1>7 DEF Next

\* Only the timer dooms, and whom it visits.
LEMMA DoomedGrows ==
  ASSUME [Next]_vars, doomed \subseteq Pids
  PROVE  doomed \subseteq doomed' /\ doomed' \subseteq Pids
BY DoomedWriters DEF TimerVisit, Doom

(***************************************************************************)
(* The header, with no assumption on threads or lives: the timer's count   *)
(* is of entries that are there and behind it, and only it takes any away. *)
(***************************************************************************)
Shape ==
  /\ KernelOK
  /\ DOMAIN proc_stats \subseteq Pids
  /\ load \in Loads /\ (load.pc = "entry" => load.tid \in Pids)
  /\ timer \in Timers
  /\ TimerInv

\* A step that takes no entry away disturbs nothing the timer has counted.
LEMMA TimerInvGrows ==
  ASSUME TimerInv, timer \in Timers, DOMAIN proc_stats \subseteq Pids,
         timer' = timer, DOMAIN proc_stats' \subseteq Pids,
         DOMAIN proc_stats \subseteq DOMAIN proc_stats'
  PROVE  TimerInv'
<1> DEFINE old == DOMAIN proc_stats \ timer.todo
           new == DOMAIN proc_stats' \ timer.todo
<1>1. old \subseteq new /\ new \subseteq Pids
  OBVIOUS
<1>2. Cardinality(old) <= Cardinality(new) /\ Cardinality(old) \in Nat /\ Cardinality(new) \in Nat
  BY <1>1, Finite, FS_Subset
<1>3. timer.count \in Nat /\ timer.reaped \in Nat
  BY DEF Timers
<1> QED
  BY <1>1, <1>2, <1>3 DEF TimerInv

LEMMA KernelKept ==
  ASSUME KernelOK, [Next]_vars
  PROVE  KernelOK'
<1> USE Bounds
<1>1. ASSUME NEW t \in Tids, Run(t) PROVE KernelOK'
  <2>1. sum_exec' \in [Tids -> 0 .. MaxRuntime]
    BY <1>1 DEF KernelOK, Run
  <2>2. ran' \in [Pids -> Nat]
    <3>1. Leader[t] \in Pids
      BY ProcAssumption DEF Pids
    <3>2. ran' = [ran EXCEPT ![Leader[t]] = ran[Leader[t]] + 1] /\ ran \in [Pids -> Nat]
      BY <1>1 DEF Run, KernelOK
    <3> QED
      BY <3>1, <3>2
  <2> QED
    BY <1>1, <2>1, <2>2 DEF KernelOK, Run
<1>2. ASSUME NEW t \in Tids, Wake(t) PROVE KernelOK'
  <2>1. task[t] # "none"
    BY <1>2, ProcAssumption DEF Wake
  <2> QED
    BY <1>2, <2>1 DEF KernelOK, Wake, KernelStates, Alive, Halted
<1>3. ASSUME NEW t \in Tids, Fork(t) PROVE KernelOK'
  <2>1. lives' \in [Tids -> 0 .. MaxLives]
    BY <1>3 DEF KernelOK, Fork
  <2>2. task' \in [Tids -> KernelStates] /\ sum_exec' \in [Tids -> 0 .. MaxRuntime]
    BY <1>3 DEF KernelOK, Fork, KernelStates, Alive, Halted
  <2>3. ran' \in [Pids -> Nat]
    BY <1>3 DEF KernelOK, Fork
  <2>4. \A s \in Tids : task'[s] # "none" => lives'[s] > 0
    BY <1>3 DEF KernelOK, Fork
  <2> QED
    BY <2>1, <2>2, <2>3, <2>4 DEF KernelOK
<1>4. ASSUME NEW t \in Tids, Exit(t) PROVE KernelOK'
  BY <1>4 DEF KernelOK, Exit, KernelStates
<1>5. ASSUME NEW p \in Pids, Release(p) PROVE KernelOK'
  BY <1>5 DEF KernelOK, Release, KernelStates
<1>6. ASSUME NEW prev \in Tids \cup {Idle}, NEW next \in Tids \cup {Idle},
             NEW k \in KernelStates, Switch(prev, k, next)
      PROVE  KernelOK'
  <2>1. task' \in [Tids -> KernelStates]
    BY <1>6 DEF KernelOK, Switch, KernelStates, Alive, Halted
  <2>2. lives' = lives /\ sum_exec' = sum_exec /\ ran' = ran
    BY <1>6 DEF Switch
  <2>3. ASSUME NEW s \in Tids, task'[s] # "none" PROVE task[s] # "none"
    <3>1. CASE s = prev
      BY <1>6, <3>1, ProcAssumption DEF Switch, OnCpus, OnCpu
    <3>2. CASE s # prev /\ s = next
      BY <1>6, <3>2, ProcAssumption DEF Switch
    <3>3. CASE s # prev /\ s # next
      BY <1>6, <2>3, <3>3 DEF Switch
    <3> QED
      BY <3>1, <3>2, <3>3
  <2> QED
    BY <2>1, <2>2, <2>3 DEF KernelOK
<1>7. CASE UNCHANGED <<kernel, ran>>
  BY <1>7 DEF KernelOK, kernel
<1> QED
  BY <1>1, <1>2, <1>3, <1>4, <1>5, <1>6, <1>7, KernelWriters

\* The loader's own state, whatever becomes of the thread it visits.
LEMMA LoadShape ==
  ASSUME KernelOK, load \in Loads, load.pc = "entry" => load.tid \in Pids, [Next]_vars
  PROVE  load' \in Loads /\ (load'.pc = "entry" => load'.tid \in Pids)
<1> USE Bounds
<1>1. ASSUME NEW t \in Tids, LoadVisit(t)
      PROVE  load' \in Loads /\ load'.pc # "entry"
  <2>1. lives[t] \in 0 .. MaxLives /\ sum_exec[t] \in 0 .. MaxRuntime
    BY DEF KernelOK
  <2>2. CASE task[t] = "none"
    BY <1>1, <2>2 DEF LoadVisit, Loads
  <2>3. CASE task[t] # "none"
    BY <1>1, <2>1, <2>3 DEF LoadVisit, Loads
  <2> QED
    BY <2>2, <2>3
<1>2. CASE LoadBaseline
  <2>1. \A k : TaskState(k) \in {Running, Sleeping, Stopped}
    BY DEF TaskState
  <2>2. CASE load.tid \in Pids
    BY <1>2, <2>1, <2>2 DEF LoadBaseline, Loader, Loads
  <2>3. CASE load.tid \notin Pids
    BY <1>2, <2>3 DEF LoadBaseline, Loader, Loads
  <2> QED
    BY <2>2, <2>3
<1>3. CASE LoadEntry
  BY <1>3 DEF LoadEntry, Loader, Loads, Running
<1>4. CASE LoadDone
  BY <1>4 DEF LoadDone, Loader, Loads, Running
<1>5. CASE load' = load
  BY <1>5
<1> QED
  BY <1>1, <1>2, <1>3, <1>4, <1>5, LoadWriters DEF LoadStep

LEMMA ShapeInit == Init => Shape
<1> SUFFICES ASSUME Init PROVE Shape
  OBVIOUS
<1> USE Bounds
<1>1. KernelOK
  <2>1. lives \in [Tids -> 0 .. MaxLives]
    BY DEF Init
  <2>2. {"none", "ready"} \cup Sleeps \subseteq KernelStates
    BY ProcAssumption DEF KernelStates, Alive, Halted
  <2>3. task \in [Tids -> KernelStates]
    BY <2>2 DEF Init
  <2>4. \A t \in Tids : task[t] # "none" => lives[t] > 0
    BY DEF Init
  <2>5. sum_exec \in [Tids -> 0 .. MaxRuntime] /\ ran \in [Pids -> Nat]
    BY DEF Init
  <2> QED
    BY <2>1, <2>3, <2>4, <2>5 DEF KernelOK
<1>2. DOMAIN proc_stats = {}
  BY DEF Init
<1>3. load \in Loads /\ load.pc # "entry"
  BY DEF Init, Loader, Loads, Running
<1>4. timer \in Timers
  BY DEF Init, TimerIdle, Timers
<1>5. Cardinality(DOMAIN proc_stats \ timer.todo) = 0
  BY <1>2, FS_EmptySet
<1>6. TimerInv
  BY <1>5 DEF TimerInv, Init, TimerIdle
<1> QED
  BY <1>1, <1>2, <1>3, <1>4, <1>6 DEF Shape

\* A step of the timer.
LEMMA TimerShape ==
  ASSUME DOMAIN proc_stats \subseteq Pids, timer \in Timers, TimerInv, TimerStep
  PROVE  DOMAIN proc_stats' \subseteq Pids /\ timer' \in Timers /\ TimerInv'
<1> USE Finite
<1> DEFINE seen == DOMAIN proc_stats \ timer.todo
<1>0. /\ IsFiniteSet(seen) /\ Cardinality(seen) \in Nat
      /\ timer.count \in Nat /\ timer.reaped \in Nat
      /\ timer.reaped <= timer.count /\ timer.count - timer.reaped <= Cardinality(seen)
  BY FS_Subset DEF Timers, TimerInv
<1>1. CASE TimerStart
  <2>1. timer' = [pc |-> "walk", todo |-> Pids, victim |-> Idle, count |-> 0, reaped |-> 0]
    BY <1>1 DEF TimerStart
  <2>2. proc_stats' = proc_stats
    BY <1>1 DEF TimerStart, maps
  <2>3. timer' \in Timers
    BY <2>1 DEF Timers
  <2>4. DOMAIN proc_stats' \ timer'.todo = {}
    BY <2>1, <2>2
  <2> QED
    BY <2>1, <2>2, <2>3, <2>4, FS_EmptySet DEF TimerInv
<1>2. ASSUME NEW p \in Pids, TimerVisit(p)
      PROVE  DOMAIN proc_stats' \subseteq Pids /\ timer' \in Timers /\ TimerInv'
  <2>1. proc_stats' = proc_stats /\ p \in timer.todo /\ timer.pc = "walk"
    BY <1>2 DEF TimerVisit, maps
  <2>2. CASE p \notin DOMAIN proc_stats
    <3>1. timer' = [pc |-> timer.pc, todo |-> timer.todo \ {p}, victim |-> timer.victim,
                    count |-> timer.count, reaped |-> timer.reaped]
      BY <1>2, <2>2 DEF TimerVisit, Timers
    <3>2. DOMAIN proc_stats' \ timer'.todo = seen
      BY <2>1, <2>2, <3>1
    <3>3. timer' \in Timers
      BY <3>1 DEF Timers
    <3> QED
      BY <1>0, <2>1, <3>1, <3>2, <3>3 DEF TimerInv
  <2>3. CASE p \in DOMAIN proc_stats
    <3>1. /\ timer'.pc \in {"walk", "reap"} /\ timer'.todo = timer.todo \ {p}
          /\ timer'.count = timer.count + 1 /\ timer'.reaped = timer.reaped
          /\ timer'.pc = "reap" => timer'.victim = p
          /\ timer' \in Timers
      <4>1. CASE Expired(proc_stats[p])
        <5>1. timer' = [pc |-> "reap", todo |-> timer.todo \ {p}, victim |-> p,
                        count |-> timer.count + 1, reaped |-> timer.reaped]
          BY <1>2, <2>3, <4>1 DEF TimerVisit, Timers
        <5> QED
          BY <5>1, <1>0 DEF Timers
      <4>2. CASE ~ Expired(proc_stats[p])
        <5>1. timer' = [pc |-> timer.pc, todo |-> timer.todo \ {p}, victim |-> timer.victim,
                        count |-> timer.count + 1, reaped |-> timer.reaped]
          BY <1>2, <2>3, <4>2 DEF TimerVisit, Timers
        <5> QED
          BY <5>1, <2>1, <1>0 DEF Timers
      <4> QED
        BY <4>1, <4>2
    <3>2. DOMAIN proc_stats' \ timer'.todo = seen \cup {p} /\ p \notin seen
      BY <2>1, <2>3, <3>1
    <3>3. Cardinality(seen \cup {p}) = Cardinality(seen) + 1
      BY <1>0, <3>2, FS_AddElement
    <3> HIDE DEF seen
    <3>4. timer'.pc = "reap" => timer'.victim \in DOMAIN proc_stats' \ timer'.todo
      BY <3>1, <3>2
    <3>5. Cardinality(DOMAIN proc_stats' \ timer'.todo) = Cardinality(seen) + 1
      BY <3>2, <3>3
    <3>6. TimerInv'
      BY <1>0, <3>1, <3>4, <3>5 DEF TimerInv
    <3> QED
      BY <2>1, <3>1, <3>6
  <2> QED
    BY <2>2, <2>3
<1>3. CASE TimerReap
  <2>1. /\ timer.pc = "reap" /\ timer.victim \in seen /\ timer.reaped < timer.count
        /\ timer' = [pc |-> "walk", todo |-> timer.todo, victim |-> Idle,
                     count |-> timer.count, reaped |-> timer.reaped + 1]
    BY <1>3 DEF TimerReap, TimerInv, Timers
  <2>2. DOMAIN proc_stats' = DOMAIN proc_stats \ {timer.victim}
    BY <1>3 DEF TimerReap, Without
  <2>3. Cardinality(seen \ {timer.victim}) = Cardinality(seen) - 1
    BY <1>0, <2>1, FS_RemoveElement
  <2>4. DOMAIN proc_stats' \ timer'.todo = seen \ {timer.victim}
    BY <2>1, <2>2
  <2>5. timer' \in Timers
    BY <2>1, <1>0 DEF Timers
  <2> HIDE DEF seen
  <2> QED
    BY <1>0, <2>1, <2>2, <2>3, <2>4, <2>5 DEF TimerInv
<1>4. CASE TimerEnd
  <2>1. timer' = TimerIdle /\ proc_stats' = proc_stats
    BY <1>4 DEF TimerEnd, maps
  <2>2. timer' \in Timers /\ DOMAIN proc_stats' \subseteq Pids
    BY <2>1 DEF TimerIdle, Timers
  <2>3. Cardinality(DOMAIN proc_stats' \ timer'.todo) \in Nat
    BY <2>2, FS_Subset
  <2> QED
    BY <2>1, <2>2, <2>3 DEF TimerInv, TimerIdle
<1> QED
  BY <1>1, <1>2, <1>3, <1>4 DEF TimerStep

LEMMA ShapeKept ==
  ASSUME Shape, [Next]_vars
  PROVE  Shape'
<1>1. KernelOK'
  BY KernelKept DEF Shape
<1>2. load' \in Loads /\ (load'.pc = "entry" => load'.tid \in Pids)
  BY LoadShape DEF Shape
<1> USE Finite DEF Shape
<1>3. DOMAIN proc_stats' \subseteq Pids /\ timer' \in Timers /\ TimerInv'
  <2>1. CASE UNCHANGED <<proc_stats, timer>>
    BY <2>1 DEF TimerInv
  <2>2. ASSUME NEW prev \in Tids \cup {Idle}, NEW next \in Tids \cup {Idle},
               NEW k \in KernelStates, Switch(prev, k, next)
        PROVE  DOMAIN proc_stats' = DOMAIN proc_stats /\ timer' = timer
    BY <2>2 DEF Switch, SwitchedIn, SwitchedOut
  <2>3. ASSUME NEW t \in Tids, Fork(t)
        PROVE  /\ DOMAIN proc_stats \subseteq DOMAIN proc_stats'
               /\ DOMAIN proc_stats' \subseteq Pids /\ timer' = timer
    <3>1. timer' = timer
      BY <2>3 DEF Fork
    <3>2. CASE t \in Pids
      BY <2>3, <3>1, <3>2, Bounds, UpdateFacts DEF Fork, ForkEntry
    <3>3. CASE t \notin Pids
      BY <2>3, <3>1, <3>3 DEF Fork
    <3> QED
      BY <3>2, <3>3
  <2>4. ASSUME NEW t \in Tids, Exit(t)
        PROVE  DOMAIN proc_stats' = DOMAIN proc_stats /\ timer' = timer
    BY <2>4 DEF Exit, MarkExit
  <2>5. CASE LoadEntry
    <3>1. load.tid \in Pids /\ timer' = timer
      BY <2>5 DEF LoadEntry
    <3>2. /\ DOMAIN proc_stats \subseteq DOMAIN proc_stats'
          /\ DOMAIN proc_stats' \subseteq Pids
      BY <2>5, <3>1, Bounds, InsertFacts DEF LoadEntry
    <3> QED
      BY <3>1, <3>2, TimerInvGrows
  <2>6. CASE Tick
    <3>1. DOMAIN proc_stats' = DOMAIN proc_stats /\ timer' = timer
      BY <2>6 DEF Tick
    <3> QED
      BY <3>1, TimerInvGrows
  <2>7. ASSUME TimerStep
        PROVE  DOMAIN proc_stats' \subseteq Pids /\ timer' \in Timers /\ TimerInv'
    BY <2>7, TimerShape
  <2> QED
    <3>1. CASE \E prev, next \in Tids \cup {Idle}, k \in KernelStates : Switch(prev, k, next)
      BY <2>2, <3>1, TimerInvGrows
    <3>2. CASE \E t \in Tids : Fork(t) \/ Exit(t)
      BY <2>3, <2>4, <3>2, TimerInvGrows
    <3>3. TimerReap => TimerStep
      BY DEF TimerStep
    <3>4. CASE proc_stats' = proc_stats /\ timer' = timer
      BY <2>1, <3>4
    <3> QED
      BY <2>5, <2>6, <2>7, <3>1, <3>2, <3>3, <3>4, StatsWriters, TimerWriters
<1> QED
  BY <1>1, <1>2, <1>3

\* ShapeInv holds of every specification of the module.
THEOREM ShapeInvariant == Spec => []Shape
<1>1. Shape /\ UNCHANGED vars => Shape'
  BY ShapeKept
<1>2. Shape /\ [Next]_vars => Shape'
  BY ShapeKept
<1> QED
  BY ShapeInit, <1>2, PTL DEF Spec

\* proc_header.nr_procs is never more than the entries the map holds when
\* proc_timer_callback writes it, whatever comes and goes while it walks.
THEOREM HeaderCounted == Spec => HeaderCounts
<1>1. ASSUME Shape, [Next]_vars, timer.pc = "walk", timer'.pc = "idle"
      PROVE  nr_procs' <= Cardinality(DOMAIN proc_stats)
  <2>1. TimerStep
    BY <1>1, TimerWriters
  <2>2. TimerEnd
    BY <1>1, <2>1 DEF TimerStep, TimerStart, TimerVisit, TimerReap, Shape, Timers
  <2>3. timer.todo = {} /\ nr_procs' = timer.count - timer.reaped
    BY <2>2 DEF TimerEnd
  <2>4. DOMAIN proc_stats \ timer.todo = DOMAIN proc_stats
    BY <2>3
  <2> QED
    BY <1>1, <2>3, <2>4 DEF Shape, TimerInv
<1>2. Shape /\ [Next]_vars =>
        [timer.pc = "walk" /\ timer'.pc = "idle" => nr_procs' <= Cardinality(DOMAIN proc_stats)]_vars
  BY <1>1
<1> QED
  BY <1>2, ShapeInvariant, PTL DEF Spec, HeaderCounts

(***************************************************************************)
(* Type correctness.  A thread id that is given out again takes its old    *)
(* owner's sum_exec_runtime to 0, under the iterator's hands: hence        *)
(* OneLife.                                                                *)
(***************************************************************************)
LEMMA DeltaNat ==
  ASSUME KernelOK, BaselinesOK, NEW t \in Tids
  PROVE  Delta(t) \in Nat
<1>1. sum_exec[t] \in Nat
  BY Bounds DEF KernelOK
<1>2. CASE t \in DOMAIN thread_runtime
  BY <1>1, <1>2 DEF BaselinesOK, Delta
<1>3. CASE t \notin DOMAIN thread_runtime
  BY <1>3 DEF Delta
<1> QED
  BY <1>2, <1>3

LEMMA NewEntryOK ==
  ASSUME NEW state \in {Running, Sleeping, Stopped}
  PROVE  NewEntry(state) \in Entry /\ NewEntry(state).state = state /\ NewEntry(state).runtime = 0
BY DEF NewEntry, Entry, MaxAge

LEMMA EntryMade ==
  ASSUME NEW state \in {Running, Sleeping, Stopped, Zombie, Dead}, NEW age \in 0 .. MaxAge,
         NEW runtime \in Nat
  PROVE  [state |-> state, age |-> age, runtime |-> runtime] \in Entry
BY DEF Entry

\* What a switch does to the entries.
SwitchEffect(prev, k, next) ==
  /\ DOMAIN proc_stats' = DOMAIN proc_stats
  /\ \A p \in DOMAIN proc_stats :
       /\ proc_stats'[p] = [state |-> proc_stats'[p].state, age |-> proc_stats'[p].age,
                            runtime |-> proc_stats'[p].runtime]
       /\ proc_stats'[p].runtime = IF prev # Idle /\ p = Leader[prev]
                                     THEN proc_stats[p].runtime + Delta(prev)
                                     ELSE proc_stats[p].runtime
       /\ proc_stats'[p].state =
            IF next # Idle /\ p = Leader[next] THEN Running
            ELSE IF prev # Idle /\ p = Leader[prev] THEN SwitchState(k)
            ELSE proc_stats[p].state
       /\ proc_stats'[p].age =
            IF next # Idle /\ p = Leader[next] THEN 0 ELSE proc_stats[p].age

LEMMA SwitchStep ==
  ASSUME \A p \in DOMAIN proc_stats : proc_stats[p] \in Entry,
         NEW prev, NEW k, NEW next, Switch(prev, k, next)
  PROVE  SwitchEffect(prev, k, next)
<1>1. proc_stats' = SwitchedIn(SwitchedOut(prev, k), next)
  BY DEF Switch
<1> QED
  BY <1>1, SwitchFacts DEF SwitchEffect

\* The iterator makes an entry for the task it visits or leaves the map alone.
LEMMA LoadEntryMakes ==
  ASSUME LoadEntry, IsFiniteSet(DOMAIN proc_stats)
  PROVE  /\ DOMAIN proc_stats' \subseteq DOMAIN proc_stats \cup {load.tid}
         /\ load.tid \notin DOMAIN proc_stats /\ load.tid \in DOMAIN proc_stats' =>
              proc_stats'[load.tid] = NewEntry(load.state)
         /\ \A k \in DOMAIN proc_stats : proc_stats'[k] = proc_stats[k]
<1> DEFINE made == Insert(proc_stats, MaxProcs, load.tid, NewEntry(load.state))
<1>1. MaxProcs \in Nat
  BY Bounds
<1>2. IsFiniteSet(DOMAIN proc_stats)
  OBVIOUS
<1>3. /\ DOMAIN made \subseteq DOMAIN proc_stats \cup {load.tid}
      /\ load.tid \notin DOMAIN proc_stats /\ load.tid \in DOMAIN made =>
           made[load.tid] = NewEntry(load.state)
      /\ \A k \in DOMAIN proc_stats : made[k] = proc_stats[k]
  BY ONLY <1>1, <1>2, InsertFacts
<1>4. proc_stats' = made
  BY DEF LoadEntry
<1> QED
  BY <1>3, <1>4

LEMMA StatsKept ==
  ASSUME Shape, StatsOK, BaselinesOK, [Next]_vars
  PROVE  StatsOK'
<1>1. DOMAIN proc_stats' \subseteq Pids
  BY ShapeKept DEF Shape
<1>2. IsFiniteSet(DOMAIN proc_stats) /\ MaxProcs \in Nat /\ Cardinality(DOMAIN proc_stats) \in Nat
  BY Finite, Bounds DEF StatsOK
<1>3. ASSUME NEW prev \in Tids \cup {Idle}, NEW next \in Tids \cup {Idle},
             NEW k \in KernelStates, Switch(prev, k, next)
      PROVE  StatsOK'
  <2>1. SwitchEffect(prev, k, next)
    BY <1>3, SwitchStep DEF StatsOK
  <2>2. ASSUME NEW p \in DOMAIN proc_stats PROVE proc_stats'[p] \in Entry
    <3>1. /\ proc_stats[p].runtime \in Nat /\ proc_stats[p].age \in 0 .. MaxAge
          /\ proc_stats[p].state \in {Running, Sleeping, 2, Stopped, Zombie, Dead}
      BY EntryFields DEF StatsOK
    <3>2. prev # Idle => Delta(prev) \in Nat
      BY DeltaNat DEF Shape
    <3>3. proc_stats'[p].runtime \in Nat
      BY <2>1, <3>1, <3>2 DEF SwitchEffect
    <3>4. proc_stats'[p].state \in {Running, Sleeping, 2, Stopped, Zombie, Dead}
      BY <2>1, <3>1, SwitchStates DEF SwitchEffect
    <3>5. proc_stats'[p].age \in 0 .. MaxAge
      BY <2>1, <3>1 DEF MaxAge, SwitchEffect
    <3> QED
      BY <2>1, <3>3, <3>4, <3>5 DEF Entry, SwitchEffect
  <2> QED
    BY <1>1, <2>1, <2>2 DEF StatsOK, SwitchEffect
<1>4. ASSUME NEW t \in Tids, Fork(t)
      PROVE  StatsOK'
  <2>1. CASE t \in Pids
    <3>1. proc_stats' = Update(proc_stats, MaxProcs, t, NewEntry(Running))
      BY <1>4, <2>1 DEF Fork, ForkEntry
    <3>2. Cardinality(DOMAIN proc_stats') <= MaxProcs
      BY <1>2, <3>1, UpdateFacts DEF StatsOK
    <3>3. ASSUME NEW p \in DOMAIN proc_stats' PROVE proc_stats'[p] \in Entry
      <4>1. CASE p = t
        BY <1>2, <3>1, <4>1, UpdateFacts, NewEntryOK
      <4>2. CASE p # t
        BY <1>2, <3>1, <4>2, UpdateFacts DEF StatsOK
      <4> QED
        BY <4>1, <4>2
    <3> QED
      BY <1>1, <3>2, <3>3 DEF StatsOK
  <2>2. CASE t \notin Pids
    BY <1>4, <2>2 DEF Fork, StatsOK
  <2> QED
    BY <2>1, <2>2
<1>5. ASSUME NEW t \in Tids, Exit(t)
      PROVE  StatsOK'
  <2>1. DOMAIN proc_stats' = DOMAIN proc_stats
    BY <1>5 DEF Exit, MarkExit
  <2>2. ASSUME NEW p \in DOMAIN proc_stats PROVE proc_stats'[p] \in Entry
    <3>1. proc_stats'[p] = proc_stats[p] \/ proc_stats'[p] = [proc_stats[p] EXCEPT !.state = Zombie]
      BY <1>5 DEF Exit, MarkExit
    <3>2. proc_stats[p] \in Entry
      BY DEF StatsOK
    <3> QED
      BY <3>1, <3>2 DEF Entry
  <2> QED
    BY <1>1, <2>1, <2>2 DEF StatsOK
<1>6. CASE LoadEntry
  <2>1. load.state \in {Running, Sleeping, Stopped}
    BY DEF Shape, Loads
  <2>2. proc_stats' = Insert(proc_stats, MaxProcs, load.tid, NewEntry(load.state))
    BY <1>6 DEF LoadEntry
  <2>3. Cardinality(DOMAIN proc_stats') <= MaxProcs
    BY <1>2, <2>2, InsertFacts DEF StatsOK
  <2>5. /\ DOMAIN proc_stats' \subseteq DOMAIN proc_stats \cup {load.tid}
        /\ load.tid \notin DOMAIN proc_stats /\ load.tid \in DOMAIN proc_stats' =>
             proc_stats'[load.tid] = NewEntry(load.state)
        /\ \A k \in DOMAIN proc_stats : proc_stats'[k] = proc_stats[k]
    BY <1>2, <1>6, LoadEntryMakes
  <2>4. ASSUME NEW p \in DOMAIN proc_stats' PROVE proc_stats'[p] \in Entry
    <3>1. CASE p \in DOMAIN proc_stats
      BY <2>5, <3>1 DEF StatsOK
    <3>2. CASE p \notin DOMAIN proc_stats
      BY <2>1, <2>5, <3>2, NewEntryOK
    <3> QED
      BY <3>1, <3>2
  <2> QED
    BY <1>1, <2>3, <2>4 DEF StatsOK
<1>7. CASE Tick
  <2>1. DOMAIN proc_stats' = DOMAIN proc_stats
    BY <1>7 DEF Tick
  <2>2. ASSUME NEW p \in DOMAIN proc_stats PROVE proc_stats'[p] \in Entry
    <3>1. proc_stats[p] \in Entry
      BY DEF StatsOK
    <3>2. PICK a \in 0 .. MaxAge : proc_stats'[p] = [proc_stats[p] EXCEPT !.age = a]
      BY <1>7, <3>1, EntryFields DEF Tick, MaxAge
    <3> QED
      BY <3>1, <3>2 DEF Entry
  <2> QED
    BY <1>1, <2>1, <2>2 DEF StatsOK
<1>8. CASE TimerReap
  <2>1. /\ DOMAIN proc_stats' \subseteq DOMAIN proc_stats
        /\ \A p \in DOMAIN proc_stats' : proc_stats'[p] = proc_stats[p]
    BY <1>8 DEF TimerReap, Without
  <2>2. Cardinality(DOMAIN proc_stats') <= Cardinality(DOMAIN proc_stats)
    BY <1>2, <2>1, FS_Subset
  <2>3. Cardinality(DOMAIN proc_stats') \in Nat
    BY <1>1, Finite
  <2> QED
    BY <1>1, <1>2, <2>1, <2>2, <2>3 DEF StatsOK
<1>9. CASE proc_stats' = proc_stats
  BY <1>9 DEF StatsOK
<1> QED
  BY <1>3, <1>4, <1>5, <1>6, <1>7, <1>8, <1>9, StatsWriters

LEMMA BaselinesKept ==
  ASSUME KernelOK, BaselinesOK, LoadOK, [Next]_vars
  PROVE  BaselinesOK'
<1>0. /\ IsFiniteSet(DOMAIN thread_runtime) /\ MaxThreads \in Nat
      /\ Cardinality(DOMAIN thread_runtime) \in Nat
  BY Finite, Bounds DEF BaselinesOK
<1>1. \A t \in Tids : sum_exec[t] \in Nat /\ sum_exec'[t] \in Nat
  BY KernelKept, Bounds DEF KernelOK
\* What a successful or failed update leaves is within bounds if its value is.
<1>2. ASSUME NEW t \in Tids, NEW value \in 0 .. sum_exec'[t],
             \A s \in Tids : s # t => sum_exec'[s] = sum_exec[s],
             thread_runtime' = Update(thread_runtime, MaxThreads, t, value)
      PROVE  BaselinesOK'
  <2>1. /\ DOMAIN thread_runtime' \subseteq Tids
        /\ Cardinality(DOMAIN thread_runtime') <= MaxThreads
    BY <1>0, <1>2, UpdateFacts DEF BaselinesOK
  <2>2. ASSUME NEW s \in DOMAIN thread_runtime' PROVE thread_runtime'[s] \in 0 .. sum_exec'[s]
    <3>1. CASE s = t
      BY <1>0, <1>2, <3>1, UpdateFacts
    <3>2. CASE s # t
      BY <1>0, <1>2, <2>1, <3>2, UpdateFacts DEF BaselinesOK
    <3> QED
      BY <3>1, <3>2
  <2> QED
    BY <2>1, <2>2 DEF BaselinesOK
<1>3. ASSUME NEW prev \in Tids \cup {Idle}, NEW next \in Tids \cup {Idle},
             NEW k \in KernelStates, Switch(prev, k, next)
      PROVE  BaselinesOK'
  <2>1. sum_exec' = sum_exec
    BY <1>3 DEF Switch
  <2>2. CASE prev = Idle
    BY <1>3, <2>1, <2>2 DEF Switch, BaselinesOK
  <2>3. CASE prev # Idle
    <3>1. thread_runtime' = Update(thread_runtime, MaxThreads, prev, sum_exec[prev])
      BY <1>3, <2>3 DEF Switch, AccountRuntime
    <3>2. prev \in Tids /\ sum_exec[prev] \in 0 .. sum_exec'[prev]
      BY <1>1, <2>1, <2>3
    <3> QED
      BY <1>2, <2>1, <3>1, <3>2
  <2> QED
    BY <2>2, <2>3
<1>4. ASSUME NEW t \in Tids, Fork(t)
      PROVE  BaselinesOK'
  <2>1. /\ thread_runtime' = Update(thread_runtime, MaxThreads, t, 0)
        /\ \A s \in Tids : s # t => sum_exec'[s] = sum_exec[s]
    BY <1>4 DEF Fork, KernelOK
  <2>2. 0 \in 0 .. sum_exec'[t]
    BY <1>1
  <2> QED
    BY <1>2, <2>1, <2>2
<1>5. ASSUME NEW t \in Tids, Exit(t)
      PROVE  BaselinesOK'
  <2>1. /\ DOMAIN thread_runtime' \subseteq DOMAIN thread_runtime
        /\ \A s \in DOMAIN thread_runtime' : thread_runtime'[s] = thread_runtime[s]
        /\ sum_exec' = sum_exec
    BY <1>5 DEF Exit, Without
  <2>2. /\ Cardinality(DOMAIN thread_runtime') <= Cardinality(DOMAIN thread_runtime)
        /\ Cardinality(DOMAIN thread_runtime') \in Nat
    BY <1>0, <2>1, Finite, FS_Subset DEF BaselinesOK
  <2> QED
    BY <1>0, <2>1, <2>2 DEF BaselinesOK
<1>6. CASE LoadBaseline
  <2>1. /\ thread_runtime' = Insert(thread_runtime, MaxThreads, load.tid, load.runtime)
        /\ sum_exec' = sum_exec /\ load.pc = "baseline"
    BY <1>6 DEF LoadBaseline, LoadRuntime, kernel
  <2>2. load.tid \in Tids /\ load.runtime \in 0 .. sum_exec[load.tid]
    BY <1>1, <2>1, Bounds DEF LoadOK, Loads
  <2>3. CASE load.tid \in DOMAIN thread_runtime
    BY <2>1, <2>3 DEF Insert, BaselinesOK
  <2>4. CASE load.tid \notin DOMAIN thread_runtime
    <3>1. thread_runtime' = Update(thread_runtime, MaxThreads, load.tid, load.runtime)
      BY <2>1, <2>4 DEF Insert
    <3>2. \A s \in Tids : s # load.tid => sum_exec'[s] = sum_exec[s]
      BY <2>1
    <3> SUFFICES ASSUME NEW t, t = load.tid, NEW v, v = load.runtime PROVE BaselinesOK'
      OBVIOUS
    <3> QED
      BY <1>2, <2>1, <2>2, <3>1, <3>2
  <2> QED
    BY <2>3, <2>4
<1>7. ASSUME NEW t \in Tids, Run(t) PROVE BaselinesOK'
  <2>1. /\ thread_runtime' = thread_runtime
        /\ \A s \in Tids : sum_exec[s] <= sum_exec'[s]
    BY <1>1, <1>7 DEF Run, maps, KernelOK
  <2>2. \A s \in DOMAIN thread_runtime : thread_runtime'[s] \in 0 .. sum_exec'[s]
    BY <1>1, <2>1 DEF BaselinesOK
  <2> QED
    BY <2>1, <2>2 DEF BaselinesOK
<1>8. CASE thread_runtime' = thread_runtime /\ sum_exec' = sum_exec
  BY <1>8 DEF BaselinesOK
<1> QED
  <2>1. CASE thread_runtime' # thread_runtime
    BY <1>3, <1>4, <1>5, <1>6, <2>1, BaselineWriters
  <2>2. CASE thread_runtime' = thread_runtime
    <3>1. sum_exec' = sum_exec \/ \E t \in Tids : Run(t) \/ Fork(t)
      BY KernelWriters DEF kernel, Wake, Exit, Release, Switch
    <3> QED
      BY <1>4, <1>7, <1>8, <2>2, <3>1
  <2> QED
    BY <2>1, <2>2

LEMMA LoadKept ==
  ASSUME OneLife, KernelOK, LoadOK, [Next]_vars
  PROVE  LoadOK'
<1>1. load' \in Loads /\ (load'.pc = "entry" => load'.tid \in Pids)
  BY LoadShape DEF LoadOK
<1>2. \A t \in Tids : /\ sum_exec[t] \in Nat /\ sum_exec'[t] \in Nat
                      /\ lives[t] \in 0 .. 1 /\ lives'[t] \in 0 .. 1
  BY KernelKept, Bounds DEF KernelOK, OneLife
\* A thread id in use is not given out again, and a thread's time does not go back.
<1>3. \A t \in Tids : lives[t] > 0 => lives'[t] > 0 /\ sum_exec[t] <= sum_exec'[t]
  <2>1. ASSUME NEW t \in Tids, Run(t)
        PROVE  lives' = lives /\ \A s \in Tids : sum_exec[s] <= sum_exec'[s]
    BY <1>2, <2>1 DEF Run, KernelOK
  <2>2. ASSUME NEW t \in Tids, Fork(t)
        PROVE  /\ lives[t] = 0
               /\ \A s \in Tids : s # t => lives'[s] = lives[s] /\ sum_exec'[s] = sum_exec[s]
    BY <1>2, <2>2 DEF Fork, KernelOK, OneLife
  <2>3. UNCHANGED <<lives, sum_exec>> \/ \E t \in Tids : Run(t) \/ Fork(t)
    BY KernelWriters DEF kernel, Wake, Exit, Release, Switch
  <2>4. CASE UNCHANGED <<lives, sum_exec>>
    BY <1>2, <2>4
  <2>5. CASE \E t \in Tids : Run(t)
    BY <1>2, <2>1, <2>5
  <2>6. CASE \E t \in Tids : Fork(t)
    BY <1>2, <2>2, <2>6
  <2> QED
    BY <2>3, <2>4, <2>5, <2>6
<1>4. ASSUME load'.pc \in {"baseline", "entry"}
      PROVE  /\ load'.tid \in Tids /\ lives'[load'.tid] > 0
             /\ load'.runtime <= sum_exec'[load'.tid]
  <2>1. CASE load' = load
    <3>1. load.tid \in Tids /\ lives[load.tid] > 0 /\ load.runtime <= sum_exec[load.tid]
      BY <1>4, <2>1 DEF LoadOK
    <3>2. load.runtime \in Nat
      BY Bounds DEF LoadOK, Loads
    <3> QED
      BY <1>2, <1>3, <2>1, <3>1, <3>2
  <2>2. ASSUME NEW t \in Tids, LoadVisit(t)
        PROVE  /\ load'.tid \in Tids /\ lives'[load'.tid] > 0
               /\ load'.runtime <= sum_exec'[load'.tid]
    <3>1. load.pc = "iterate" /\ UNCHANGED kernel
      BY <2>2 DEF LoadVisit
    <3>2. CASE task[t] = "none"
      BY <1>4, <2>2, <3>1, <3>2 DEF LoadVisit, LoadOK, Loads
    <3>3. CASE task[t] # "none"
      <4>1. load'.tid = t /\ load'.runtime = sum_exec[t]
        BY <2>2, <3>3 DEF LoadVisit, LoadOK, Loads
      <4> QED
        BY <1>2, <3>1, <3>3, <4>1 DEF KernelOK, kernel
    <3> QED
      BY <3>2, <3>3
  <2>3. CASE LoadBaseline
    <3>1. load'.tid = load.tid /\ load'.runtime = load.runtime /\ load.pc = "baseline"
      BY <1>4, <2>3 DEF LoadBaseline, Loader, LoadOK, Loads
    <3>2. UNCHANGED kernel
      BY <2>3 DEF LoadBaseline
    <3> QED
      BY <3>1, <3>2 DEF LoadOK, kernel
  <2>4. CASE LoadEntry \/ LoadDone
    BY <1>4, <2>4 DEF LoadEntry, LoadDone, Loader
  <2> QED
    BY <2>1, <2>2, <2>3, <2>4, LoadWriters DEF LoadStep
<1> QED
  BY <1>1, <1>4 DEF LoadOK

LEMMA RestKept ==
  ASSUME RestOK, [Next]_vars
  PROVE  RestOK'
<1> USE Bounds
<1>1. Emit => ring' \in 0 .. MaxEvents
  BY DEF RestOK, Emit
<1>2. ring' = ring \/ Emit
  <2>1. CASE \E t \in Tids : Run(t) \/ Wake(t) \/ Fork(t) \/ Exit(t)
    BY <2>1 DEF Run, Wake, Fork, Exit, maps
  <2>2. CASE \E p \in Pids : Exec(p) \/ Release(p)
    BY <2>2 DEF Exec, Release, maps
  <2>3. CASE \E prev, next \in Tids \cup {Idle}, k \in KernelStates : Switch(prev, k, next)
    BY <2>3 DEF Switch
  <2>4. CASE LoadStep
    BY <2>4 DEF LoadStep, LoadVisit, LoadBaseline, LoadEntry, LoadDone, maps
  <2>5. CASE Tick
    BY <2>5 DEF Tick
  <2>6. CASE TimerStep
    BY <2>6 DEF TimerStep, TimerStart, TimerVisit, TimerReap, TimerEnd, maps
  <2>7. CASE UNCHANGED vars
    BY <2>7 DEF vars, maps
  <2> QED
    BY <2>1, <2>2, <2>3, <2>4, <2>5, <2>6, <2>7 DEF Next
<1>3. due' \in BOOLEAN
  <2>1. CASE \E t \in Tids : Run(t) \/ Wake(t) \/ Fork(t) \/ Exit(t)
    BY <2>1 DEF Run, Wake, Fork, Exit, RestOK
  <2>2. CASE \E p \in Pids : Exec(p) \/ Release(p)
    BY <2>2 DEF Exec, Release, RestOK
  <2>3. CASE \E prev, next \in Tids \cup {Idle}, k \in KernelStates : Switch(prev, k, next)
    BY <2>3 DEF Switch, RestOK
  <2>4. CASE LoadStep
    BY <2>4 DEF LoadStep, LoadVisit, LoadBaseline, LoadEntry, LoadDone, RestOK
  <2>5. CASE Tick
    BY <2>5 DEF Tick
  <2>6. CASE TimerStep
    BY <2>6 DEF TimerStep, TimerStart, TimerVisit, TimerReap, TimerEnd, RestOK
  <2>7. CASE UNCHANGED vars
    BY <2>7 DEF vars, RestOK
  <2> QED
    BY <2>1, <2>2, <2>3, <2>4, <2>5, <2>6, <2>7 DEF Next
<1> QED
  BY <1>1, <1>2, <1>3 DEF RestOK

\* The header's number is that of some of the processes there are ids for.
LEMMA HeaderKept ==
  ASSUME Shape, TimerOK, [Next]_vars
  PROVE  TimerOK'
<1>1. timer' \in Timers /\ doomed' \subseteq Pids
  BY ShapeKept, DoomedGrows DEF Shape, TimerOK
<1>2. CASE nr_procs' = nr_procs
  BY <1>1, <1>2 DEF TimerOK
<1>3. CASE TimerEnd
  <2>1. nr_procs' = timer.count - timer.reaped
    BY <1>3 DEF TimerEnd
  <2>2. /\ timer.count \in Nat /\ timer.reaped \in Nat /\ timer.reaped <= timer.count
        /\ timer.count - timer.reaped <= Cardinality(DOMAIN proc_stats \ timer.todo)
    BY DEF Shape, Timers, TimerInv
  <2>3. DOMAIN proc_stats \ timer.todo \subseteq Pids
    BY DEF Shape
  <2>4. nr_procs' \in 0 .. Cardinality(Pids)
    BY <2>1, <2>2, <2>3, Finite
  <2> QED
    BY <1>1, <2>4 DEF TimerOK
<1>4. nr_procs' # nr_procs => TimerEnd
  BY TimerWriters DEF TimerStep, TimerStart, TimerVisit, TimerReap
<1> QED
  BY <1>2, <1>3, <1>4

TypeInv == TypeOK /\ Shape

LEMMA TypeInit == Init => TypeInv
<1> SUFFICES ASSUME Init PROVE TypeInv
  OBVIOUS
<1>1. Shape
  BY ShapeInit
<1>2. DOMAIN proc_stats = {} /\ DOMAIN thread_runtime = {} /\ Cardinality({}) = 0
  BY FS_EmptySet DEF Init
<1>3. StatsOK /\ BaselinesOK
  BY <1>2, Bounds DEF StatsOK, BaselinesOK
<1>4. LoadOK
  BY <1>1 DEF LoadOK, Shape, Init, Loader
<1>5. TimerOK
  BY <1>1, Finite DEF TimerOK, Shape, Init
<1>6. RestOK
  BY Bounds DEF RestOK, Init
<1> QED
  BY <1>1, <1>3, <1>4, <1>5, <1>6, TypeParts DEF TypeInv, Shape

LEMMA TypeKept ==
  ASSUME OneLife, TypeInv, [Next]_vars
  PROVE  TypeInv'
<1>1. Shape' /\ KernelOK'
  BY ShapeKept DEF TypeInv, Shape
<1>2. StatsOK' /\ BaselinesOK' /\ LoadOK' /\ TimerOK' /\ RestOK'
  BY TypeParts, StatsKept, BaselinesKept, LoadKept, HeaderKept, RestKept DEF TypeInv
<1>3. KernelOK' /\ StatsOK' /\ BaselinesOK' /\ LoadOK' /\ TimerOK' /\ RestOK' => TypeOK'
  BY DEF TypeOK, KernelOK, StatsOK, BaselinesOK, LoadOK, TimerOK, RestOK
<1> QED
  BY <1>1, <1>2, <1>3 DEF TypeInv

\* Every variable keeps its type and no map outgrows its capacity, whatever the
\* iterator, the timer and the tracepoints do to the maps at once.
THEOREM TypeCorrect ==
  ASSUME OneLife
  PROVE  Spec => []TypeOK
<1>1. TypeInv /\ [Next]_vars => TypeInv'
  BY TypeKept
<1>2. TypeInv => TypeOK
  BY DEF TypeInv
<1> QED
  BY TypeInit, <1>1, <1>2, PTL DEF Spec

(***************************************************************************)
(* Processes of one thread: the state of an entry speaks for its process.  *)
(***************************************************************************)
\* A thread that has exited is never alive again, since its id is not given out.
LEMMA NoRevival ==
  ASSUME OneLife, KernelOK, [Next]_vars, NEW t \in Tids, lives[t] > 0
  PROVE  lives'[t] > 0 /\ (task'[t] \in Alive => task[t] \in Alive)
<1> USE Bounds
<1>0. lives[t] \in 0 .. 1
  BY DEF KernelOK, OneLife
<1>1. ASSUME NEW s \in Tids, Run(s)
      PROVE  lives'[t] > 0 /\ (task'[t] \in Alive => task[t] \in Alive)
  BY <1>1 DEF Run
<1>2. ASSUME NEW s \in Tids, Wake(s)
      PROVE  lives'[t] > 0 /\ (task'[t] \in Alive => task[t] \in Alive)
  <2>1. task[s] \in Alive
    BY <1>2, ProcAssumption DEF Wake, Alive, Halted
  <2> QED
    BY <1>2, <2>1 DEF Wake, KernelOK
<1>3. ASSUME NEW s \in Tids, Fork(s)
      PROVE  lives'[t] > 0 /\ (task'[t] \in Alive => task[t] \in Alive)
  <2>1. s # t
    BY <1>0, <1>3 DEF Fork, OneLife
  <2> QED
    BY <1>3, <2>1 DEF Fork, KernelOK
<1>4. ASSUME NEW s \in Tids, Exit(s)
      PROVE  lives'[t] > 0 /\ (task'[t] \in Alive => task[t] \in Alive)
  BY <1>4 DEF Exit, KernelOK, Alive, Halted
<1>5. ASSUME NEW p \in Pids, Release(p)
      PROVE  lives'[t] > 0 /\ (task'[t] \in Alive => task[t] \in Alive)
  BY <1>5 DEF Release, KernelOK, Alive, Halted, Pids
<1>6. ASSUME NEW prev \in Tids \cup {Idle}, NEW next \in Tids \cup {Idle},
             NEW k \in KernelStates, Switch(prev, k, next)
      PROVE  lives'[t] > 0 /\ (task'[t] \in Alive => task[t] \in Alive)
  <2>1. lives' = lives
    BY <1>6 DEF Switch
  <2>2. CASE t = prev
    <3>1. k \in Leaves(prev) /\ task'[t] = k
      BY <1>6, <2>2, ProcAssumption DEF Switch
    <3>2. k \in Alive => task[t] = "running"
      BY <2>2, <3>1, LeavesFacts
    <3> QED
      BY <2>1, <3>1, <3>2 DEF Alive, Halted
  <2>3. CASE t # prev /\ t = next
    <3>1. task[t] \in {"ready", "thawed", "exitready"}
      BY <1>6, <2>3, ProcAssumption DEF Switch
    <3>2. task'[t] = IF task[t] = "exitready" THEN "exiting" ELSE "running"
      BY <1>6, <2>3 DEF Switch
    <3> QED
      BY <2>1, <3>1, <3>2 DEF Alive, Halted
  <2>4. CASE t # prev /\ t # next
    BY <1>6, <2>1, <2>4 DEF Switch
  <2> QED
    BY <2>2, <2>3, <2>4
<1>7. CASE UNCHANGED <<kernel, ran>>
  BY <1>7 DEF kernel
<1> QED
  BY <1>1, <1>2, <1>3, <1>4, <1>5, <1>6, <1>7, KernelWriters

\* A thread that is no longer halted has been given a CPU.
Awake == Alive \ Halted

LEMMA NoThaw ==
  ASSUME OneLife, KernelOK, [Next]_vars, NEW t \in Tids, lives[t] > 0, task'[t] \in Awake
  PROVE  \/ task[t] \in Awake
         \/ \E prev \in Tids \cup {Idle}, k \in KernelStates : Switch(prev, k, t)
<1> USE Bounds
<1> USE DEF Awake, Alive, Halted
<1>0. lives[t] \in 0 .. 1
  BY DEF KernelOK, OneLife
<1>1. ASSUME NEW s \in Tids, Run(s) PROVE task[t] \in Awake
  BY <1>1 DEF Run
<1>2. ASSUME NEW s \in Tids, Wake(s) PROVE task[t] \in Awake
  BY <1>2, ProcAssumption DEF Wake, KernelOK
<1>3. ASSUME NEW s \in Tids, Fork(s) PROVE task[t] \in Awake
  <2>1. s # t
    BY <1>0, <1>3 DEF Fork, OneLife
  <2> QED
    BY <1>3, <2>1 DEF Fork, KernelOK
<1>4. ASSUME NEW s \in Tids, Exit(s) PROVE task[t] \in Awake
  BY <1>4 DEF Exit, KernelOK
<1>5. ASSUME NEW p \in Pids, Release(p) PROVE task[t] \in Awake
  BY <1>5 DEF Release, KernelOK, Pids
<1>6. ASSUME NEW prev \in Tids \cup {Idle}, NEW next \in Tids \cup {Idle},
             NEW k \in KernelStates, Switch(prev, k, next), t # next
      PROVE  task[t] \in Awake
  <2>1. CASE t = prev
    <3>1. k \in Leaves(prev) /\ task'[t] = k
      BY <1>6, <2>1, ProcAssumption DEF Switch
    <3>2. task[t] = "running"
      BY <2>1, <3>1, LeavesFacts
    <3> QED
      BY <3>2
  <2>2. CASE t # prev
    BY <1>6, <2>2 DEF Switch
  <2> QED
    BY <2>1, <2>2
<1>7. CASE UNCHANGED <<kernel, ran>>
  BY <1>7 DEF kernel
<1> QED
  BY <1>1, <1>2, <1>3, <1>4, <1>5, <1>6, <1>7, KernelWriters

\* Only a fork brings a thread that is not there.
LEMMA OnlyForkRevives ==
  ASSUME KernelOK, [Next]_vars, NEW t \in Tids, task[t] = "none", task'[t] \in Alive
  PROVE  Fork(t)
<1>0. "none" \notin Alive /\ "none" \notin OnCpu
  BY DEF Alive, Halted, OnCpu
<1>1. ASSUME NEW s \in Tids, Wake(s) \/ Exit(s) \/ Run(s)
      PROVE  FALSE
  <2>1. CASE Wake(s)
    <3>1. s # t
      BY <2>1, ProcAssumption DEF Wake
    <3> QED
      BY <1>0, <2>1, <3>1 DEF Wake, KernelOK
  <2>2. CASE Exit(s)
    <3>1. s # t
      BY <2>2 DEF Exit
    <3> QED
      BY <1>0, <2>2, <3>1 DEF Exit, KernelOK
  <2>3. CASE Run(s)
    BY <1>0, <2>3 DEF Run
  <2> QED
    BY <1>1, <2>1, <2>2, <2>3
<1>2. ASSUME NEW p \in Pids, Release(p) PROVE FALSE
  BY <1>0, <1>2 DEF Release, KernelOK
<1>3. ASSUME NEW prev \in Tids \cup {Idle}, NEW next \in Tids \cup {Idle},
             NEW k \in KernelStates, Switch(prev, k, next)
      PROVE  FALSE
  <2>1. t # prev
    BY <1>0, <1>3, ProcAssumption DEF Switch, OnCpus
  <2>2. t # next
    BY <1>3, ProcAssumption DEF Switch
  <2> QED
    BY <1>0, <1>3, <2>1, <2>2 DEF Switch
<1>4. ASSUME NEW s \in Tids, Fork(s), s # t PROVE FALSE
  BY <1>0, <1>4 DEF Fork, KernelOK
<1>5. CASE UNCHANGED <<kernel, ran>>
  BY <1>0, <1>5 DEF kernel
<1> QED
  BY <1>1, <1>2, <1>3, <1>4, <1>5, KernelWriters

EntryStates ==
  /\ \A p \in DOMAIN proc_stats : lives[p] > 0
  /\ \A p \in Solo \cap DOMAIN proc_stats :
       task[p] \in Awake => ~ IsDead(proc_stats[p].state)

\* What it says of one entry.
EntryRight(p) == lives[p] > 0 /\ (p \in Solo /\ task[p] \in Awake => ~ IsDead(proc_stats[p].state))

LEMMA EntryStatesKept ==
  ASSUME OneLife, TypeInv, EntryStates, [Next]_vars
  PROVE  EntryStates'
<1>0. /\ DOMAIN proc_stats \subseteq Tids /\ IsFiniteSet(DOMAIN proc_stats) /\ MaxProcs \in Nat
      /\ \A p \in DOMAIN proc_stats : proc_stats[p] \in Entry
  BY Finite, Bounds DEF TypeInv, TypeOK
<1>1. \A p \in DOMAIN proc_stats :
        lives'[p] > 0 /\ (task'[p] \in Alive => task[p] \in Alive)
  BY <1>0, NoRevival DEF EntryStates, TypeInv, Shape
<1> DEFINE Switches == \E prev, next \in Tids \cup {Idle}, k \in KernelStates : Switch(prev, k, next)
\* A step that keeps an entry's state, or makes it a living one, keeps the invariant.
<1>2. ASSUME ~ Switches, NEW p \in DOMAIN proc_stats,
             proc_stats'[p].state = proc_stats[p].state
      PROVE  EntryRight(p)'
  <2>1. task'[p] \in Awake => task[p] \in Awake
    BY <1>0, <1>2, NoThaw DEF EntryStates, TypeInv, Shape
  <2> QED
    BY <1>1, <1>2, <2>1 DEF EntryStates, EntryRight
<1>3. \A state \in {Running, Sleeping, Stopped} :
        ~ IsDead(state) /\ NewEntry(state).state = state
  BY NewEntryOK DEF Running, Sleeping, Stopped, IsDead
<1>4. ASSUME NEW prev \in Tids \cup {Idle}, NEW next \in Tids \cup {Idle},
             NEW k \in KernelStates, Switch(prev, k, next)
      PROVE  EntryStates'
  <2>1. SwitchEffect(prev, k, next)
    BY <1>0, <1>4, SwitchStep
  <2>2. ASSUME NEW p \in Solo \cap DOMAIN proc_stats, task'[p] \in Awake
        PROVE  ~ IsDead(proc_stats'[p].state)
    <3>1. prev # Idle /\ p = Leader[prev] => p = prev
      BY DEF Solo
    <3>3. proc_stats'[p].state =
            IF next # Idle /\ p = Leader[next] THEN Running
            ELSE IF prev # Idle /\ p = Leader[prev] THEN SwitchState(k)
            ELSE proc_stats[p].state
      BY <2>1 DEF SwitchEffect
    <3>4. CASE next # Idle /\ p = Leader[next]
      BY <1>3, <3>3, <3>4
    <3>5. CASE ~ (next # Idle /\ p = Leader[next]) /\ prev # Idle /\ p = Leader[prev]
      <4>1. p = prev /\ task'[p] = k /\ k \in Leaves(prev) /\ prev \in Tids
        BY <1>0, <1>4, <3>1, <3>5 DEF Switch
      <4>2. k \in {"ready"} \cup Sleeps
        BY <2>2, <4>1, LeavesFacts DEF Awake
      <4>3. k \in {"ready", "sleeping", "stopped"}
        BY <2>2, <4>1, <4>2, ProcAssumption DEF Awake, Halted
      <4> QED
        BY <3>3, <3>5, <4>3, SwitchStates
    <3>6. CASE ~ (next # Idle /\ p = Leader[next]) /\ ~ (prev # Idle /\ p = Leader[prev])
      <4>1. p \in Tids /\ p = Leader[p]
        BY <1>0 DEF Solo, Pids
      <4>2. p # prev /\ p # next
        BY <3>6, <4>1, ProcAssumption
      <4>3. task'[p] = task[p]
        BY <1>4, <4>1, <4>2 DEF Switch
      <4> QED
        BY <2>2, <3>3, <3>6, <4>3 DEF EntryStates
    <3> QED
      BY <3>4, <3>5, <3>6
  <2> QED
    BY <1>1, <2>1, <2>2 DEF EntryStates, SwitchEffect
<1>5. ASSUME ~ Switches, NEW t \in Tids, Fork(t)
      PROVE  EntryStates'
  <2>1. CASE t \notin Pids
    BY <1>2, <1>5, <2>1 DEF Fork, EntryStates, EntryRight
  <2> SUFFICES ASSUME t \in Pids PROVE EntryStates'
    BY <2>1
  <2>2. proc_stats' = Update(proc_stats, MaxProcs, t, NewEntry(Running))
    BY <1>5 DEF Fork, ForkEntry
  <2>3. lives'[t] > 0
    BY <1>5 DEF Fork, TypeInv, TypeOK
  <2>4. ASSUME NEW p \in DOMAIN proc_stats'
        PROVE  EntryRight(p)'
    <3>1. CASE p = t
      <4>1. proc_stats'[p] = NewEntry(Running)
        BY <1>0, <2>2, <3>1, UpdateFacts
      <4> QED
        BY <1>3, <2>3, <3>1, <4>1 DEF EntryRight
    <3>2. CASE p # t
      <4>1. p \in DOMAIN proc_stats /\ proc_stats'[p] = proc_stats[p]
        BY <1>0, <2>2, <3>2, UpdateFacts
      <4> QED
        BY <1>2, <1>5, <4>1
    <3> QED
      BY <3>1, <3>2
  <2> QED
    BY <2>4 DEF EntryStates, EntryRight
<1>6. ASSUME ~ Switches, NEW t \in Tids, Exit(t)
      PROVE  EntryStates'
  <2>1. DOMAIN proc_stats' = DOMAIN proc_stats
    BY <1>6 DEF Exit, MarkExit
  <2>2. ASSUME NEW p \in DOMAIN proc_stats
        PROVE  EntryRight(p)'
    <3>1. CASE p = t
      <4>1. task'[t] = "exiting"
        BY <1>6 DEF Exit, TypeInv, TypeOK
      <4> QED
        BY <1>1, <3>1, <4>1 DEF Awake, Alive, Halted, EntryRight
    <3>2. CASE p # t
      <4>1. proc_stats'[p] = proc_stats[p]
        BY <1>6, <3>2 DEF Exit, MarkExit
      <4> QED
        BY <1>2, <1>6, <4>1
    <3> QED
      BY <3>1, <3>2
  <2> QED
    BY <2>1, <2>2 DEF EntryStates, EntryRight
<1>7. CASE ~ Switches /\ LoadEntry
  <2>1. load.state \in {Running, Sleeping, Stopped} /\ load.tid \in Tids /\ lives[load.tid] > 0
    BY <1>7 DEF LoadEntry, TypeInv, TypeOK, Loads
  <2>2. proc_stats' = Insert(proc_stats, MaxProcs, load.tid, NewEntry(load.state))
        /\ lives' = lives
    BY <1>7 DEF LoadEntry, kernel
  <2>3. ASSUME NEW p \in DOMAIN proc_stats'
        PROVE  EntryRight(p)'
    <3>1. CASE p \in DOMAIN proc_stats
      <4>1. proc_stats'[p] = proc_stats[p]
        BY <1>0, <1>7, <3>1, LoadEntryMakes
      <4> QED
        BY <1>2, <1>7, <3>1, <4>1
    <3>2. CASE p \notin DOMAIN proc_stats
      <4>1. p = load.tid /\ proc_stats'[p] = NewEntry(load.state)
        BY <1>0, <1>7, <3>2, LoadEntryMakes
      <4> QED
        BY <1>3, <2>1, <2>2, <4>1 DEF EntryRight
    <3> QED
      BY <3>1, <3>2
  <2> QED
    BY <2>3 DEF EntryStates, EntryRight
<1>8. CASE ~ Switches /\ Tick
  <2>1. DOMAIN proc_stats' = DOMAIN proc_stats
    BY <1>8 DEF Tick
  <2>2. \A p \in DOMAIN proc_stats : proc_stats'[p].state = proc_stats[p].state
    BY <1>0, <1>8, EntryFields DEF Tick
  <2> QED
    BY <1>2, <1>8, <2>1, <2>2 DEF EntryStates, EntryRight
<1>9. CASE ~ Switches /\ TimerReap
  <2>1. /\ DOMAIN proc_stats' \subseteq DOMAIN proc_stats
        /\ \A p \in DOMAIN proc_stats' : proc_stats'[p] = proc_stats[p]
    BY <1>9 DEF TimerReap, Without
  <2> QED
    BY <1>2, <1>9, <2>1 DEF EntryStates, EntryRight
<1>10. CASE ~ Switches /\ proc_stats' = proc_stats
  BY <1>2, <1>10 DEF EntryStates, EntryRight
<1> QED
  BY <1>4, <1>5, <1>6, <1>7, <1>8, <1>9, <1>10, StatsWriters

VictimRight ==
  /\ lives[timer.victim] > 0
  /\ timer.victim \in Solo /\ task[timer.victim] \in Alive => timer.victim \in doomed

\* The victim of the reaper was dead when it was chosen, and stays it.
LEMMA StateKept ==
  ASSUME OneLife, TypeInv, StateInv, [Next]_vars
  PROVE  StateInv'
<1>1. EntryStates'
  BY EntryStatesKept DEF EntryStates, Awake, StateInv
<1>2. ASSUME timer'.pc = "reap"
      PROVE  VictimRight'
  <2>1. CASE timer' = timer
    <3>1. /\ timer.victim \in Tids /\ lives[timer.victim] > 0
          /\ timer.victim \in Solo /\ task[timer.victim] \in Alive => timer.victim \in doomed
      BY <1>2, <2>1 DEF StateInv, TypeInv, Shape, TimerInv, Pids
    <3>2. doomed \subseteq doomed'
      BY DoomedGrows DEF TypeInv, TypeOK
    <3> SUFFICES ASSUME NEW v, v = timer.victim
                 PROVE  lives'[v] > 0 /\ (v \in Solo /\ task'[v] \in Alive => v \in doomed')
      BY <2>1 DEF VictimRight
    <3> QED
      BY <3>1, <3>2, NoRevival DEF TypeInv, Shape
  <2>2. ASSUME NEW p \in Pids, TimerVisit(p)
        PROVE  VictimRight'
    <3>1. timer'.victim = p /\ p \in DOMAIN proc_stats /\ Expired(proc_stats[p])
      <4>1. timer.pc = "walk" /\ timer \in Timers
        BY <2>2 DEF TimerVisit, TypeInv, Shape
      <4>2. CASE p \in DOMAIN proc_stats /\ Expired(proc_stats[p])
        BY <2>2, <4>1, <4>2 DEF TimerVisit, Timers
      <4>3. CASE p \notin DOMAIN proc_stats
        BY <1>2, <2>2, <4>1, <4>3 DEF TimerVisit, Timers
      <4>4. CASE p \in DOMAIN proc_stats /\ ~ Expired(proc_stats[p])
        BY <1>2, <2>2, <4>1, <4>4 DEF TimerVisit, Timers
      <4> QED
        BY <4>2, <4>3, <4>4
    <3>2. UNCHANGED kernel /\ doomed' = Doom(p)
      BY <2>2 DEF TimerVisit
    <3>3. lives[p] > 0 /\ (p \in Solo /\ task[p] \in Alive => task[p] \in Halted)
      BY <3>1 DEF StateInv, Expired
    <3>4. task[p] \in Halted => p \in doomed'
      BY <3>1, <3>2 DEF Doom
    <3> QED
      BY <3>1, <3>2, <3>3, <3>4 DEF kernel, VictimRight
  <2>3. CASE TimerStart
    BY <1>2, <2>3 DEF TimerStart
  <2>4. CASE TimerReap
    BY <1>2, <2>4 DEF TimerReap, TypeInv, Shape, Timers
  <2>5. CASE TimerEnd
    BY <1>2, <2>5 DEF TimerEnd, TimerIdle
  <2> QED
    BY <2>1, <2>2, <2>3, <2>4, <2>5, TimerWriters DEF TimerStep
<1> QED
  BY <1>1, <1>2 DEF EntryStates, Awake, StateInv, VictimRight

LEMMA StateInit == Init => StateInv
BY DEF Init, StateInv, TimerIdle

THEOREM StateInvariant ==
  ASSUME OneLife
  PROVE  Spec => [](TypeInv /\ StateInv)
<1>1. Init => TypeInv /\ StateInv
  BY TypeInit, StateInit
<1>2. TypeInv /\ StateInv /\ [Next]_vars => TypeInv' /\ StateInv'
  BY TypeKept, StateKept
<1> QED
  BY <1>1, <1>2, PTL DEF Spec

\* What leaves the map is the reaper's victim.
LEMMA LivingEntryStays ==
  ASSUME TypeInv, StateInv, [Next]_vars,
         NEW p \in Solo \cap (DOMAIN proc_stats \ DOMAIN proc_stats'), task[p] \in Alive
  PROVE  p \in doomed
<1>1. TimerReap
  <2>0. DOMAIN proc_stats \subseteq Tids
    BY DEF TypeInv, TypeOK, Pids
  <2>1. IsFiniteSet(DOMAIN proc_stats) /\ MaxProcs \in Nat
    BY <2>0, Finite, Bounds
  <2>2. \A prev, next, k : Switch(prev, k, next) => DOMAIN proc_stats' = DOMAIN proc_stats
    BY DEF Switch, SwitchedIn, SwitchedOut
  <2>3. \A s \in Tids : Fork(s) => DOMAIN proc_stats \subseteq DOMAIN proc_stats'
    <3> SUFFICES ASSUME NEW s \in Tids, Fork(s), s \in Pids
                 PROVE  DOMAIN proc_stats \subseteq DOMAIN proc_stats'
      BY DEF Fork
    <3>1. proc_stats' = Update(proc_stats, MaxProcs, s, NewEntry(Running))
      BY DEF Fork, ForkEntry
    <3> QED
      BY <2>1, <3>1, UpdateFacts
  <2>4. \A s \in Tids : Exit(s) => DOMAIN proc_stats' = DOMAIN proc_stats
    BY DEF Exit, MarkExit
  <2>5. LoadEntry => DOMAIN proc_stats \subseteq DOMAIN proc_stats'
    BY <2>1, InsertFacts DEF LoadEntry
  <2>6. Tick => DOMAIN proc_stats' = DOMAIN proc_stats
    BY DEF Tick
  <2> QED
    BY <2>2, <2>3, <2>4, <2>5, <2>6, StatsWriters
<1>2. p = timer.victim /\ timer.pc = "reap"
  BY <1>1 DEF TimerReap, Without
<1> QED
  BY <1>2 DEF StateInv

\* The reaper takes a living process of one thread out of the list only if it found it
\* halted and booked as dead: a process that has run since is found alive, and between
\* reap_dead_procs' decision and its deletion nothing brings a dead one back.
THEOREM LivingNotReaped ==
  ASSUME OneLife
  PROVE  Spec => SoloReaped
<1>1. TypeInv /\ StateInv /\ [Next]_vars =>
        [\A p \in Solo \cap (DOMAIN proc_stats \ DOMAIN proc_stats') :
           task[p] \in Alive => p \in doomed]_proc_stats
  <2> SUFFICES ASSUME TypeInv, StateInv, [Next]_vars,
                      NEW p \in Solo \cap (DOMAIN proc_stats \ DOMAIN proc_stats'),
                      task[p] \in Alive
               PROVE  p \in doomed
    OBVIOUS
  <2> QED
    BY LivingEntryStays
<1> QED
  BY <1>1, StateInvariant, PTL DEF SoloReaped, Spec

(***************************************************************************)
(* The map is the process list.                                            *)
(***************************************************************************)

\* There is room for every process there are ids for.
LEMMA RoomForAll ==
  ASSUME Room, DOMAIN proc_stats \subseteq Pids, NEW p \in Pids, p \notin DOMAIN proc_stats
  PROVE  Cardinality(DOMAIN proc_stats) < MaxProcs
<1>1. IsFiniteSet(DOMAIN proc_stats) /\ Cardinality(DOMAIN proc_stats) \in Nat
  BY Finite
<1>2. Cardinality(DOMAIN proc_stats \cup {p}) = Cardinality(DOMAIN proc_stats) + 1
  BY <1>1, FS_AddElement
<1>3. DOMAIN proc_stats \cup {p} \subseteq Pids
  OBVIOUS
<1>4. Cardinality(DOMAIN proc_stats \cup {p}) <= Cardinality(Pids)
  BY <1>3, Finite
<1> QED
  BY <1>1, <1>2, <1>4, Finite, Bounds DEF Room

EntryFor(p) ==
  \/ p \in DOMAIN proc_stats \cup Unread \cup doomed
  \/ load.pc \in {"baseline", "entry"} /\ p = load.tid

\* A process that needs an entry and has none keeps what stands for it in the loader.
LEMMA EntryStep ==
  ASSUME Room, TypeInv, NEW p \in Pids, task[p] \in Alive, EntryFor(p), [Next]_vars,
         p \in DOMAIN proc_stats => p \in DOMAIN proc_stats' \cup doomed
  PROVE  EntryFor(p)'
<1>0. doomed \subseteq doomed'
  BY DoomedGrows DEF TypeInv, TypeOK
<1>1. CASE p \in DOMAIN proc_stats \cup doomed \/ load' = load
  BY <1>0, <1>1 DEF EntryFor, Unread
<1>2. ASSUME NEW t \in Tids, LoadVisit(t) PROVE EntryFor(p)'
  <2>1. CASE task[t] = "none"
    <3>1. p # t
      BY <2>1 DEF Alive, Halted
    <3> QED
      BY <1>1, <1>2, <2>1, <3>1 DEF LoadVisit, EntryFor, Unread, TypeInv, Shape, Loads
  <2>2. CASE task[t] # "none"
    BY <1>1, <1>2, <2>2 DEF LoadVisit, EntryFor, Unread, TypeInv, Shape, Loads
  <2> QED
    BY <2>1, <2>2
<1>3. CASE LoadBaseline
  <2>1. CASE load.tid \in Pids
    BY <1>1, <1>3, <2>1 DEF LoadBaseline, EntryFor, Unread, TypeInv, Shape, Loads
  <2>2. CASE load.tid \notin Pids
    BY <1>1, <1>3, <2>2 DEF LoadBaseline, EntryFor, Unread, Loader
  <2> QED
    BY <2>1, <2>2
<1>4. CASE LoadEntry /\ p \notin DOMAIN proc_stats
  <2>1. proc_stats' = Insert(proc_stats, MaxProcs, load.tid, NewEntry(load.state))
        /\ load' = Loader("iterate", load.todo) /\ load.pc = "entry"
    BY <1>4 DEF LoadEntry
  <2>2. CASE p = load.tid
    <3>1. Cardinality(DOMAIN proc_stats) < MaxProcs
      BY <1>4, RoomForAll DEF TypeInv, Shape
    <3>2. IsFiniteSet(DOMAIN proc_stats) /\ MaxProcs \in Nat
      BY Finite, Bounds DEF TypeInv, Shape
    <3>3. p \in DOMAIN proc_stats'
      BY <2>1, <2>2, <3>1, <3>2, InsertFacts
    <3> QED
      BY <3>3 DEF EntryFor
  <2>3. CASE p # load.tid
    BY <1>0, <1>4, <2>1, <2>3 DEF EntryFor, Unread, Loader
  <2> QED
    BY <2>2, <2>3
<1>5. CASE LoadDone
  BY <1>1, <1>5 DEF LoadDone, EntryFor, Unread, Loader, TypeInv, Shape, Loads
<1> QED
  BY <1>1, <1>2, <1>3, <1>4, <1>5, LoadWriters DEF LoadStep

\* What a forked process is given.
LEMMA ForkedEntry ==
  ASSUME Room, TypeInv, NEW p \in Pids, Fork(p)
  PROVE  p \in DOMAIN proc_stats'
<1>1. proc_stats' = Update(proc_stats, MaxProcs, p, NewEntry(Running))
  BY DEF Fork, ForkEntry
<1>2. IsFiniteSet(DOMAIN proc_stats) /\ MaxProcs \in Nat
  BY Finite, Bounds DEF TypeInv, Shape
<1>3. CASE p \in DOMAIN proc_stats
  BY <1>1, <1>2, <1>3, UpdateFacts
<1>4. CASE p \notin DOMAIN proc_stats
  BY <1>1, <1>2, <1>4, RoomForAll, UpdateFacts DEF TypeInv, Shape
<1> QED
  BY <1>3, <1>4

LEMMA EntryKept ==
  ASSUME OneLife, Room, TypeInv, StateInv, EntryInv, [Next]_vars
  PROVE  EntryInv'
<1> SUFFICES ASSUME NEW p \in Solo, task'[p] \in Alive PROVE EntryFor(p)'
  BY DEF EntryInv, EntryFor
<1>0. p \in Pids
  BY DEF Solo
<1>1. CASE task[p] \in Alive
  <2>1. EntryFor(p)
    BY <1>1 DEF EntryInv, EntryFor
  <2>2. p \in DOMAIN proc_stats => p \in DOMAIN proc_stats' \cup doomed
    BY <1>1, LivingEntryStays
  <2> QED
    BY <1>0, <1>1, <2>1, <2>2, EntryStep
<1>2. CASE task[p] \notin Alive
  <2>1. Fork(p)
    <3>1. p \in Tids
      BY <1>0 DEF Pids
    <3>2. lives[p] = 0
      BY <1>2, <3>1, NoRevival, Bounds DEF TypeInv, Shape, KernelOK
    <3>3. task[p] = "none"
      BY <3>1, <3>2 DEF TypeInv, Shape, KernelOK
    <3> QED
      BY <3>1, <3>3, OnlyForkRevives DEF TypeInv, Shape
  <2> QED
    BY <1>0, <2>1, ForkedEntry DEF EntryFor
<1> QED
  BY <1>1, <1>2

LEMMA EntryInit == Init => EntryInv
BY DEF Init, Loader, EntryInv, Unread, Alive, Halted, Solo, Pids

\* "New processes appear automatically": once the loader is done, every living process
\* of one thread has an entry, which says that it lives; but for one that is halted
\* or was when the timer decided to reap it, and one the iterator has not come to.
THEOREM LivingShown ==
  ASSUME OneLife, Room
  PROVE  Spec => []LiveShown
<1>1. Init => TypeInv /\ StateInv /\ EntryInv
  BY TypeInit, StateInit, EntryInit
<1>2. TypeInv /\ StateInv /\ EntryInv /\ [Next]_vars => TypeInv' /\ StateInv' /\ EntryInv'
  BY TypeKept, StateKept, EntryKept
<1>3. TypeInv /\ StateInv /\ EntryInv => LiveShown
  BY DEF LiveShown, StateInv, EntryInv, Halted
<1> QED
  BY <1>1, <1>2, <1>3, PTL DEF Spec

(***************************************************************************)
(* CPU time, in groups of any number of threads: all that an entry was     *)
(* charged is behind the baselines of the group's threads, while none of   *)
(* them has exited.                                                        *)
(***************************************************************************)
LEMMA GroupFinite ==
  ASSUME NEW p
  PROVE  Group(p) \subseteq Tids /\ IsFiniteSet(Group(p))
BY Finite DEF Group

LEMMA BaselineType ==
  ASSUME TypeOK
  PROVE  \A t \in Tids : Baseline[t] \in Nat /\ sum_exec[t] \in Nat /\ Baseline[t] <= sum_exec[t]
<1>1. \A t \in Tids : sum_exec[t] \in Nat
  BY Bounds DEF TypeOK
<1>2. \A t \in DOMAIN thread_runtime : thread_runtime[t] \in 0 .. sum_exec[t]
  BY DEF TypeOK
<1> QED
  BY <1>1, <1>2 DEF Baseline

LEMMA BaselineTypeNext ==
  ASSUME TypeOK'
  PROVE  \A t \in Tids : Baseline'[t] \in Nat
<1>1. \A t \in Tids : sum_exec'[t] \in Nat
  BY Bounds DEF TypeOK
<1>2. \A t \in DOMAIN thread_runtime' : thread_runtime'[t] \in 0 .. sum_exec'[t]
  BY DEF TypeOK
<1> QED
  BY <1>1, <1>2 DEF Baseline

\* A baseline that no step writes.
LEMMA SameBaseline ==
  ASSUME NEW t \in Tids, t \in DOMAIN thread_runtime' <=> t \in DOMAIN thread_runtime,
         t \in DOMAIN thread_runtime => thread_runtime'[t] = thread_runtime[t]
  PROVE  Baseline'[t] = Baseline[t]
BY DEF Baseline

\* A thread that has not lived has run for no time, and none lives before its leader.
LeadersLive ==
  \A t \in Tids : IF lives[t] = 0 THEN sum_exec[t] = 0 ELSE lives[Leader[t]] > 0

LEMMA LeadersLiveKept ==
  ASSUME KernelOK, LeadersLive, [Next]_vars
  PROVE  LeadersLive'
<1>1. \A t \in Tids : Leader[t] \in Tids /\ lives[t] \in Nat
  BY ProcAssumption, Bounds DEF KernelOK
<1>2. ASSUME NEW s \in Tids, Run(s) PROVE LeadersLive'
  <2>1. lives[s] > 0
    BY <1>2 DEF Run, OnCpu, KernelOK
  <2> QED
    BY <1>1, <1>2, <2>1 DEF Run, KernelOK, LeadersLive
<1>3. ASSUME NEW s \in Tids, Fork(s) PROVE LeadersLive'
  <2>1. lives[Leader[s]] > 0 \/ Leader[s] = s
    <3> SUFFICES ASSUME s \notin Pids PROVE lives[Leader[s]] > 0
      BY DEF Pids
    <3>1. PICK r \in Tids : Leader[r] = Leader[s] /\ task[r] = "running"
      BY <1>3 DEF Fork
    <3>2. lives[r] > 0
      BY <3>1 DEF KernelOK
    <3> QED
      BY <3>1, <3>2 DEF LeadersLive
  <2>2. lives' = [lives EXCEPT ![s] = @ + 1] /\ sum_exec' = [sum_exec EXCEPT ![s] = 0]
    BY <1>3 DEF Fork
  <2>3. \A t \in Tids : lives'[t] = IF t = s THEN lives[t] + 1 ELSE lives[t]
    BY <2>2 DEF KernelOK
  <2>4. \A t \in Tids : t # s => sum_exec'[t] = sum_exec[t]
    BY <2>2 DEF KernelOK
  <2> QED
    BY <1>1, <2>1, <2>3, <2>4 DEF LeadersLive
<1>4. UNCHANGED <<sum_exec, lives>> \/ \E t \in Tids : Run(t) \/ Fork(t)
  BY KernelWriters DEF kernel, Wake, Exit, Release, Switch
<1> QED
  BY <1>2, <1>3, <1>4 DEF LeadersLive

\* The history counts what the threads of a group have run.
Counted == \A p \in Pids : ran[p] = SumFunctionOnSet(sum_exec, Group(p))

LEMMA CountedKept ==
  ASSUME OneLife, KernelOK, LeadersLive, Counted, [Next]_vars
  PROVE  Counted'
<1>1. \A t \in Tids : sum_exec[t] \in Nat /\ lives[t] \in 0 .. 1
  BY Bounds DEF KernelOK, OneLife
<1>2. ASSUME NEW s \in Tids, Run(s), NEW p \in Pids
      PROVE  ran'[p] = SumFunctionOnSet(sum_exec', Group(p))
  <2>1. /\ sum_exec' = [sum_exec EXCEPT ![s] = sum_exec[s] + 1]
        /\ ran' = [ran EXCEPT ![Leader[s]] = ran[Leader[s]] + 1]
    BY <1>2 DEF Run
  <2>2. \A t \in Tids : t # s => sum_exec'[t] = sum_exec[t]
    BY <2>1 DEF KernelOK
  <2>3. sum_exec'[s] = sum_exec[s] + 1
    BY <2>1 DEF KernelOK
  <2>4. CASE s \in Group(p)
    <3>1. ran'[p] = ran[p] + 1
      BY <2>1, <2>4 DEF Group, KernelOK
    <3>2. SumFunctionOnSet(sum_exec', Group(p)) = SumFunctionOnSet(sum_exec, Group(p)) + 1
      BY <1>1, <2>2, <2>3, <2>4, GroupFinite, SumChanged
    <3> QED
      BY <3>1, <3>2 DEF Counted
  <2>5. CASE s \notin Group(p)
    <3>1. ran'[p] = ran[p]
      BY <2>1, <2>5 DEF Group, KernelOK
    <3>2. \A t \in Group(p) : sum_exec[t] \in Nat /\ sum_exec[t] = sum_exec'[t]
      BY <1>1, <2>2, <2>5, GroupFinite
    <3>3. SumFunctionOnSet(sum_exec, Group(p)) = SumFunctionOnSet(sum_exec', Group(p))
      BY <3>2, GroupFinite, SumSame
    <3> QED
      BY <3>1, <3>3 DEF Counted
  <2> QED
    BY <2>4, <2>5
<1>3. ASSUME NEW s \in Tids, Fork(s), NEW p \in Pids
      PROVE  ran'[p] = SumFunctionOnSet(sum_exec', Group(p))
  <2>1. lives[s] = 0 /\ sum_exec[s] = 0
    BY <1>1, <1>3 DEF Fork, OneLife, LeadersLive
  <2>2. \A t \in Tids : sum_exec'[t] = sum_exec[t]
    BY <1>3, <2>1 DEF Fork, KernelOK
  <2>3. SumFunctionOnSet(sum_exec, Group(p)) = SumFunctionOnSet(sum_exec', Group(p))
    BY <1>1, <2>2, GroupFinite, SumSame
  <2>4. CASE p # s
    <3>1. ran'[p] = ran[p]
      BY <1>3, <2>4 DEF Fork, KernelOK
    <3> QED
      BY <2>3, <3>1 DEF Counted
  <2>5. CASE p = s
    <3>1. ran'[p] = 0
      BY <1>3, <2>5 DEF Fork, KernelOK
    <3>2. \A t \in Group(p) : sum_exec[t] = 0
      BY <1>1, <2>1, <2>5 DEF Group, LeadersLive
    <3> QED
      BY <2>3, <3>1, <3>2, GroupFinite, SumOfZeroes
  <2> QED
    BY <2>4, <2>5
<1>4. UNCHANGED <<sum_exec, ran>> \/ \E t \in Tids : Run(t) \/ Fork(t)
  BY KernelWriters DEF kernel, Wake, Exit, Release, Switch
<1>5. CASE UNCHANGED <<sum_exec, ran>>
  BY <1>5 DEF Counted
<1>6. (\A p \in Pids : ran'[p] = SumFunctionOnSet(sum_exec', Group(p))) => Counted'
  BY DEF Counted, Group
<1> QED
  BY <1>2, <1>3, <1>4, <1>5, <1>6

\* Who is charged no more than what lies behind the group's baselines.
Behind(p) == SumFunctionOnSet(Baseline, Group(p))
Accounted == \A p \in DOMAIN proc_stats : Intact(p) => proc_stats[p].runtime <= Behind(p)

\* A group that is intact after a step was so before.
LEMMA IntactBefore ==
  ASSUME OneLife, KernelOK, [Next]_vars, NEW p, Intact(p)'
  PROVE  Intact(p)
<1> SUFFICES ASSUME NEW t \in Group(p), lives[t] # 0 PROVE task[t] \in Alive
  BY DEF Intact
<1>1. t \in Tids /\ lives[t] > 0 /\ lives[t] \in Nat
  BY Bounds DEF Group, KernelOK
<1>2. lives'[t] > 0 /\ (task'[t] \in Alive => task[t] \in Alive)
  BY <1>1, NoRevival
<1>3. task'[t] \in Alive \/ lives'[t] = 0
  BY DEF Intact, Group
<1> QED
  BY <1>2, <1>3

\* A step that adds no time to an entry and takes no baseline back.
LEMMA StillBehind ==
  ASSUME TypeOK, TypeOK', NEW p, \A t \in Group(p) : Baseline[t] <= Baseline'[t]
  PROVE  Behind(p) \in Nat /\ Behind(p)' \in Nat /\ Behind(p) <= Behind(p)'
<1>1. \A t \in Group(p) : Baseline[t] \in Nat /\ Baseline'[t] \in Nat
  BY BaselineType, BaselineTypeNext, GroupFinite
<1>2. IsFiniteSet(Group(p))
  BY GroupFinite
<1>3. /\ SumFunctionOnSet(Baseline, Group(p)) \in Nat
      /\ SumFunctionOnSet(Baseline', Group(p)) \in Nat
      /\ SumFunctionOnSet(Baseline, Group(p)) <= SumFunctionOnSet(Baseline', Group(p))
  BY <1>1, <1>2, SumType, SumMonotone
<1>4. Behind(p)' = SumFunctionOnSet(Baseline', Group(p))
  BY DEF Behind, Group
<1> QED
  BY <1>3, <1>4 DEF Behind

LEMMA BehindNat ==
  ASSUME TypeOK, NEW p
  PROVE  Behind(p) \in Nat
<1>1. IsFiniteSet(Group(p)) /\ \A t \in Group(p) : Baseline[t] \in Nat
  BY BaselineType, GroupFinite
<1> QED
  BY <1>1, SumType DEF Behind

\* The thread that leaves the CPU moves its baseline by what it charges its group.
LEMMA ChargedBehind ==
  ASSUME TypeOK, TypeOK', NEW prev \in Tids,
         thread_runtime' = Update(thread_runtime, MaxThreads, prev, sum_exec[prev])
  PROVE  \A p : Behind(p)' >= Behind(p) + (IF p = Leader[prev] THEN Delta(prev) ELSE 0)
<1>1. IsFiniteSet(DOMAIN thread_runtime) /\ MaxThreads \in Nat
  BY Finite, Bounds DEF TypeOK
<1>2. \A t \in Tids : t # prev => Baseline'[t] = Baseline[t]
  BY <1>1, UpdateFacts, SameBaseline
<1>3. \A t \in Tids : /\ Baseline[t] \in Nat /\ sum_exec[t] \in Nat /\ Baseline[t] <= sum_exec[t]
                      /\ Baseline'[t] \in Nat
  BY BaselineType, BaselineTypeNext
<1> SUFFICES ASSUME NEW p
             PROVE  Behind(p)' >= Behind(p) + (IF p = Leader[prev] THEN Delta(prev) ELSE 0)
  OBVIOUS
<1>4. CASE prev \in DOMAIN thread_runtime
  <2>1. prev \in DOMAIN thread_runtime' /\ thread_runtime'[prev] = sum_exec[prev]
    BY <1>1, <1>4, UpdateFacts
  <2>2. Baseline'[prev] = sum_exec[prev]
    BY <2>1 DEF Baseline
  <2>3. Delta(prev) = sum_exec[prev] - Baseline[prev] /\ Delta(prev) \in Nat
    BY <1>3, <1>4 DEF Delta, Baseline
  <2>4. Baseline'[prev] = Baseline[prev] + Delta(prev)
    BY <1>3, <2>2, <2>3
  <2>5. CASE p = Leader[prev]
    <3>1. prev \in Group(p) /\ Group(p) \subseteq Tids /\ IsFiniteSet(Group(p))
      BY <2>5, GroupFinite DEF Group
    <3>2. SumFunctionOnSet(Baseline', Group(p)) = SumFunctionOnSet(Baseline, Group(p)) + Delta(prev)
      BY <1>2, <1>3, <2>3, <2>4, <3>1, SumChanged
    <3>3. Behind(p)' = Behind(p) + Delta(prev)
      BY <3>2 DEF Behind, Group
    <3> QED
      BY <2>3, <2>5, <3>3, BehindNat
  <2>6. CASE p # Leader[prev]
    <3>1. \A t \in Group(p) : Baseline[t] <= Baseline'[t]
      BY <1>2, <1>3, <2>6 DEF Group
    <3> QED
      BY <2>6, <3>1, StillBehind
  <2> QED
    BY <2>5, <2>6
<1>5. CASE prev \notin DOMAIN thread_runtime
  <2>1. Delta(prev) = 0 /\ Baseline[prev] = 0
    BY <1>5 DEF Delta, Baseline
  <2>2. \A t \in Group(p) : Baseline[t] <= Baseline'[t]
    <3> SUFFICES ASSUME NEW t \in Tids PROVE Baseline[t] <= Baseline'[t]
      BY GroupFinite
    <3>1. CASE t = prev
      BY <1>3, <2>1, <3>1
    <3>2. CASE t # prev
      BY <1>2, <1>3, <3>2
    <3> QED
      BY <3>1, <3>2
  <2> QED
    BY <2>1, <2>2, StillBehind
<1> QED
  BY <1>4, <1>5

LEMMA AccountedKept ==
  ASSUME OneLife, TypeInv, LeadersLive, Accounted, [Next]_vars
  PROVE  Accounted'
<1>0. /\ DOMAIN proc_stats \subseteq Pids /\ IsFiniteSet(DOMAIN proc_stats) /\ MaxProcs \in Nat
      /\ IsFiniteSet(DOMAIN thread_runtime) /\ MaxThreads \in Nat
      /\ \A p \in DOMAIN proc_stats : proc_stats[p] \in Entry /\ proc_stats[p].runtime \in Nat
  <2>1. \A p \in DOMAIN proc_stats : proc_stats[p] \in Entry /\ proc_stats[p].runtime \in Nat
    BY EntryFields DEF TypeInv, TypeOK
  <2> QED
    BY <2>1, Finite, Bounds DEF TypeInv, TypeOK
<1>1. /\ TypeOK /\ TypeOK' /\ KernelOK
      /\ \A p : Behind(p) \in Nat /\ Behind(p)' \in Nat
  <2>1. TypeOK /\ TypeOK' /\ KernelOK
    BY TypeKept DEF TypeInv, Shape
  <2>2. \A p : Behind(p) \in Nat
    BY <2>1, BehindNat
  <2>3. ASSUME NEW p PROVE Behind(p)' \in Nat
    <3>1. IsFiniteSet(Group(p)) /\ \A t \in Group(p) : Baseline'[t] \in Nat
      BY <2>1, BaselineTypeNext, GroupFinite
    <3>2. Behind(p)' = SumFunctionOnSet(Baseline', Group(p))
      BY DEF Behind, Group
    <3> QED
      BY <3>1, <3>2, SumType
  <2> QED
    BY <2>1, <2>2, <2>3
<1>2. \A p \in DOMAIN proc_stats : Intact(p)' => proc_stats[p].runtime <= Behind(p)
  BY <1>1, IntactBefore DEF Accounted
<1>3. ASSUME NEW p \in DOMAIN proc_stats, Intact(p)',
             proc_stats'[p].runtime = proc_stats[p].runtime,
             \A t \in Group(p) : Baseline[t] <= Baseline'[t]
      PROVE  proc_stats'[p].runtime <= Behind(p)'
  <2>1. Behind(p) <= Behind(p)' /\ proc_stats[p].runtime <= Behind(p)
    BY <1>1, <1>2, <1>3, StillBehind
  <2> QED
    BY <1>0, <1>1, <1>3, <2>1
<1>4. \A t \in Tids : Baseline[t] \in Nat /\ Baseline'[t] \in Nat
                      /\ Baseline[t] <= sum_exec[t] /\ sum_exec[t] \in Nat
  BY <1>1, BaselineType, BaselineTypeNext
<1>5. thread_runtime' = thread_runtime =>
        \A p : \A t \in Group(p) : Baseline[t] <= Baseline'[t]
  BY <1>4, GroupFinite DEF Baseline
\* An entry just made has been charged nothing.
<1>6. ASSUME NEW p, NEW state \in {Running, Sleeping, Stopped}, proc_stats'[p] = NewEntry(state)
      PROVE  proc_stats'[p].runtime <= Behind(p)'
  BY <1>1, <1>6, NewEntryOK
<1>7. ASSUME NEW prev \in Tids \cup {Idle}, NEW next \in Tids \cup {Idle},
             NEW k \in KernelStates, Switch(prev, k, next)
      PROVE  Accounted'
  <2>1. SwitchEffect(prev, k, next)
    BY <1>0, <1>7, SwitchStep
  <2>2. ASSUME NEW p \in DOMAIN proc_stats, Intact(p)'
        PROVE  proc_stats'[p].runtime <= Behind(p)'
    <3>1. CASE prev = Idle
      <4>1. thread_runtime' = thread_runtime
        BY <1>7, <3>1 DEF Switch
      <4>2. proc_stats'[p].runtime = proc_stats[p].runtime
        BY <2>1, <3>1 DEF SwitchEffect
      <4> QED
        BY <1>3, <1>5, <2>2, <4>1, <4>2
    <3>2. CASE prev # Idle
      <4>1. prev \in Tids /\ thread_runtime' = Update(thread_runtime, MaxThreads, prev, sum_exec[prev])
        BY <1>7, <3>2 DEF Switch, AccountRuntime
      <4>2. Behind(p)' >= Behind(p) + (IF p = Leader[prev] THEN Delta(prev) ELSE 0)
        BY <1>1, <4>1, ChargedBehind
      <4>3. proc_stats'[p].runtime = IF p = Leader[prev] THEN proc_stats[p].runtime + Delta(prev)
                                                         ELSE proc_stats[p].runtime
        BY <2>1, <3>2 DEF SwitchEffect
      <4>4. Delta(prev) \in Nat
        BY <1>1, <4>1, DeltaNat, TypeParts
      <4>5. proc_stats[p].runtime <= Behind(p) /\ proc_stats[p].runtime \in Nat
        BY <1>0, <1>2, <2>2
      <4> QED
        BY <1>1, <4>2, <4>3, <4>4, <4>5
    <3> QED
      BY <3>1, <3>2
  <2> QED
    BY <2>1, <2>2 DEF Accounted, SwitchEffect
<1>8. ASSUME NEW t \in Tids, Fork(t)
      PROVE  Accounted'
  <2>1. Baseline[t] = 0
    <3>1. lives[t] = 0
      BY <1>1, <1>8, Bounds DEF Fork, OneLife, KernelOK
    <3> QED
      BY <1>4, <3>1 DEF LeadersLive
  <2>2. thread_runtime' = Update(thread_runtime, MaxThreads, t, 0)
    BY <1>8 DEF Fork
  <2>3. ASSUME NEW s \in Tids, s # t PROVE Baseline'[s] = Baseline[s]
    <3>1. IsFiniteSet(DOMAIN thread_runtime) /\ MaxThreads \in Nat
      BY <1>0
    <3>2. /\ s \in DOMAIN thread_runtime' <=> s \in DOMAIN thread_runtime
          /\ s \in DOMAIN thread_runtime => thread_runtime'[s] = thread_runtime[s]
      BY <2>2, <2>3, <3>1, UpdateFacts
    <3> QED
      BY <3>2, SameBaseline
  <2>4. ASSUME NEW s \in Tids PROVE Baseline[s] <= Baseline'[s]
    BY <1>4, <2>1, <2>3
  <2>5. ASSUME NEW p \in DOMAIN proc_stats', Intact(p)'
        PROVE  proc_stats'[p].runtime <= Behind(p)'
    <3>1. CASE p = t /\ t \in Pids
      <4>1. proc_stats' = Update(proc_stats, MaxProcs, t, NewEntry(Running))
        BY <1>8, <3>1 DEF Fork, ForkEntry
      <4>2. proc_stats'[p] = NewEntry(Running)
        BY <1>0, <2>5, <3>1, <4>1, UpdateFacts
      <4> QED
        BY <1>6, <4>2
    <3>2. CASE p # t \/ t \notin Pids
      <4>1. p \in DOMAIN proc_stats /\ proc_stats'[p] = proc_stats[p]
        <5>1. CASE t \in Pids
          <6>1. proc_stats' = Update(proc_stats, MaxProcs, t, NewEntry(Running)) /\ p # t
            BY <1>8, <3>2, <5>1 DEF Fork, ForkEntry
          <6> QED
            BY <1>0, <2>5, <6>1, UpdateFacts
        <5>2. CASE t \notin Pids
          BY <1>8, <2>5, <5>2 DEF Fork
        <5> QED
          BY <5>1, <5>2
      <4> QED
        BY <1>3, <2>4, <2>5, <4>1, GroupFinite
    <3> QED
      BY <3>1, <3>2
  <2> QED
    BY <2>5 DEF Accounted
\* The group of the thread that exits is intact no more.
<1>9. ASSUME NEW t \in Tids, Exit(t)
      PROVE  Accounted'
  <2>1. DOMAIN proc_stats' = DOMAIN proc_stats
    BY <1>9 DEF Exit, MarkExit
  <2>2. ASSUME NEW p \in DOMAIN proc_stats, Intact(p)'
        PROVE  proc_stats'[p].runtime <= Behind(p)'
    <3>1. t \notin Group(p)
      <4>1. task'[t] = "exiting" /\ lives'[t] > 0
        BY <1>1, <1>9 DEF Exit, KernelOK
      <4>2. task'[t] \notin Alive /\ lives'[t] # 0
        BY <4>1 DEF Alive, Halted
      <4> QED
        BY <2>2, <4>2 DEF Intact, Group
    <3>2. proc_stats'[p] = proc_stats[p]
      BY <1>9, <3>1, <1>0 DEF Exit, MarkExit, Group, Pids
    <3>3. \A s \in Group(p) : Baseline'[s] = Baseline[s]
      BY <1>9, <3>1, GroupFinite DEF Exit, Without, Baseline
    <3>4. \A s \in Group(p) : Baseline[s] <= Baseline'[s]
      BY <1>4, <3>3, GroupFinite
    <3> QED
      BY <1>3, <2>2, <3>2, <3>4
  <2> QED
    BY <2>1, <2>2 DEF Accounted
<1>10. CASE LoadBaseline
  <2>1. /\ thread_runtime' = Insert(thread_runtime, MaxThreads, load.tid, load.runtime)
        /\ proc_stats' = proc_stats
    BY <1>10 DEF LoadBaseline, LoadRuntime
  <2>2. ASSUME NEW t \in Tids PROVE Baseline[t] <= Baseline'[t]
    <3>1. CASE t \in DOMAIN thread_runtime
      <4>1. t \in DOMAIN thread_runtime' /\ thread_runtime'[t] = thread_runtime[t]
        <5> DEFINE made == Insert(thread_runtime, MaxThreads, load.tid, load.runtime)
        <5>1. IsFiniteSet(DOMAIN thread_runtime) /\ MaxThreads \in Nat
          BY <1>0
        <5>2. /\ DOMAIN thread_runtime \subseteq DOMAIN made
              /\ \A k \in DOMAIN thread_runtime : made[k] = thread_runtime[k]
          BY ONLY <5>1, InsertFacts
        <5>3. thread_runtime' = made
          BY <2>1
        <5> HIDE DEF made
        <5> QED
          BY ONLY <3>1, <5>2, <5>3
      <4>2. Baseline'[t] = Baseline[t]
        BY <3>1, <4>1, SameBaseline
      <4> QED
        BY <1>4, <4>2
    <3>2. CASE t \notin DOMAIN thread_runtime
      <4>1. Baseline[t] = 0
        BY <3>2 DEF Baseline
      <4> QED
        BY <1>4, <4>1
    <3> QED
      BY <3>1, <3>2
  <2> QED
    BY <1>3, <2>1, <2>2, GroupFinite DEF Accounted
<1>11. CASE LoadEntry
  <2>1. /\ proc_stats' = Insert(proc_stats, MaxProcs, load.tid, NewEntry(load.state))
        /\ thread_runtime' = thread_runtime
        /\ load.state \in {Running, Sleeping, Stopped}
    BY <1>11 DEF LoadEntry, TypeInv, TypeOK, Loads
  <2>2. ASSUME NEW p \in DOMAIN proc_stats', Intact(p)'
        PROVE  proc_stats'[p].runtime <= Behind(p)'
    <3>1. CASE p \in DOMAIN proc_stats
      <4>1. proc_stats'[p] = proc_stats[p]
        BY <1>0, <1>11, <3>1, LoadEntryMakes
      <4> QED
        BY <1>3, <1>5, <2>1, <2>2, <3>1, <4>1
    <3>2. CASE p \notin DOMAIN proc_stats
      <4>1. proc_stats'[p] = NewEntry(load.state)
        BY <1>0, <1>11, <2>2, <3>2, LoadEntryMakes
      <4> QED
        BY <1>6, <2>1, <4>1
    <3> QED
      BY <3>1, <3>2
  <2> QED
    BY <2>2 DEF Accounted
<1>12. CASE Tick \/ TimerReap
  <2>1. /\ DOMAIN proc_stats' \subseteq DOMAIN proc_stats
        /\ thread_runtime' = thread_runtime
    BY <1>12 DEF Tick, TimerReap, Without
  <2>2. \A p \in DOMAIN proc_stats' : proc_stats'[p].runtime = proc_stats[p].runtime
    <3>1. CASE Tick
      BY <1>0, <3>1, EntryFields DEF Tick
    <3>2. CASE TimerReap
      BY <3>2 DEF TimerReap, Without
    <3> QED
      BY <1>12, <3>1, <3>2
  <2> QED
    BY <1>3, <1>5, <2>1, <2>2 DEF Accounted
<1>13. CASE UNCHANGED <<proc_stats, thread_runtime>>
  BY <1>3, <1>5, <1>13 DEF Accounted
<1> QED
  BY <1>7, <1>8, <1>9, <1>10, <1>11, <1>12, <1>13, StatsWriters, BaselineWriters

LEMMA RuntimeParts == RuntimeInv <=> LeadersLive /\ Counted /\ Accounted
BY DEF RuntimeInv, LeadersLive, Counted, Accounted, Behind

LEMMA RuntimeKept ==
  ASSUME OneLife, TypeInv, RuntimeInv, [Next]_vars
  PROVE  RuntimeInv'
<1>1. LeadersLive' /\ Counted' /\ Accounted'
  BY RuntimeParts, LeadersLiveKept, CountedKept, AccountedKept DEF TypeInv, Shape
<1>2. LeadersLive' /\ Counted' /\ Accounted' => RuntimeInv'
  BY DEF RuntimeInv, LeadersLive, Counted, Accounted, Behind
<1> QED
  BY <1>1, <1>2

LEMMA RuntimeInit == Init => RuntimeInv
<1> SUFFICES ASSUME Init PROVE RuntimeInv
  OBVIOUS
<1>1. LeadersLive
  BY ProcAssumption DEF Init, LeadersLive
<1>2. Counted
  <2> SUFFICES ASSUME NEW p \in Pids PROVE ran[p] = SumFunctionOnSet(sum_exec, Group(p))
    BY DEF Counted
  <2>1. ran[p] = 0 /\ \A t \in Group(p) : sum_exec[t] = 0
    BY DEF Init, Group
  <2> QED
    BY <2>1, GroupFinite, SumOfZeroes
<1>3. Accounted
  BY DEF Init, Accounted
<1> QED
  BY <1>1, <1>2, <1>3, RuntimeParts

THEOREM RuntimeInvariant ==
  ASSUME OneLife
  PROVE  Spec => [](TypeInv /\ RuntimeInv)
<1>1. Init => TypeInv /\ RuntimeInv
  BY TypeInit, RuntimeInit
<1>2. TypeInv /\ RuntimeInv /\ [Next]_vars => TypeInv' /\ RuntimeInv'
  BY TypeKept, RuntimeKept
<1> QED
  BY <1>1, <1>2, PTL DEF Spec

\* No process is charged more CPU time than its threads have used, however many they
\* are, although the iterator and sched_switch each may write a thread's baseline and
\* every thread of the group adds to the same entry.
THEOREM NothingOvercounted ==
  ASSUME OneLife
  PROVE  Spec => []NoOvercount
<1>1. TypeInv /\ RuntimeInv => NoOvercount
  <2> SUFFICES ASSUME TypeInv, RuntimeInv, NEW p \in DOMAIN proc_stats,
                      \A t \in Tids : Leader[t] = p => task[t] \in Alive \/ lives[t] = 0
               PROVE  proc_stats[p].runtime <= ran[p]
    BY DEF NoOvercount
  <2>1. TypeOK /\ p \in Pids /\ Intact(p) /\ Accounted /\ Counted
    BY RuntimeParts DEF TypeInv, Shape, Intact, Group
  <2>2. proc_stats[p].runtime <= Behind(p) /\ ran[p] = SumFunctionOnSet(sum_exec, Group(p))
    BY <2>1 DEF Accounted, Counted
  <2>3. /\ IsFiniteSet(Group(p))
        /\ \A t \in Group(p) : Baseline[t] \in Nat /\ sum_exec[t] \in Nat /\ Baseline[t] <= sum_exec[t]
    BY <2>1, BaselineType, GroupFinite
  <2>4. Behind(p) \in Nat /\ ran[p] \in Nat /\ Behind(p) <= ran[p]
    BY <2>2, <2>3, SumType, SumMonotone DEF Behind
  <2>5. proc_stats[p].runtime \in Nat
    BY <2>1, EntryFields DEF TypeOK
  <2> QED
    BY <2>2, <2>4, <2>5
<1> QED
  BY <1>1, RuntimeInvariant, PTL
================================================================================

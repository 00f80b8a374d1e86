--------------------------- MODULE Clients_proofs ---------------------------
(***************************************************************************)
(* The daemon, the handles and the readers of its pins: for any daemons,   *)
(* collectors, maps and clients, and any order of opening.                 *)
(***************************************************************************)
EXTENDS Clients, TLAPS

(***************************************************************************)
(* The daemon.                                                             *)
(***************************************************************************)

\* The actions of one daemon, all of them: what Next quantifies over.
DaemonStep(d) ==
  \/ Start(d) \/ Check(d)
  \/ (\E m \in Maps : UnpinOne(d, m)) \/ UnpinDir(d) \/ UnpinFails(d)
  \/ MakeDir(d)
  \/ \E c \in Collectors : Open(d, c)
  \/ (\E m \in Maps : RemoveStale(d, m)) \/ PinMap(d)
  \/ Attach(d) \/ Fail(d) \/ Warn(d)
  \/ Ready(d) \/ Shutdown(d) \/ Crash(d)

\* The maps a collector pins are maps (try_build_bpf pins no others).
LEMMA MapsOfCollector == \A c \in Collectors : MapsOf[c] \subseteq Maps
  BY DEF Maps

\* cpu_data is one of them.
LEMMA CpuDataIsMap == CpuData \in Maps
  BY DaemonAssumption, MapsOfCollector DEF Collectors

\* Every variable keeps its type and pins are only in the directory: try_build_bpf,
\* unpin_maps and main keep the bpffs and each other's state in shape.
THEOREM TypeCorrect == Spec => []TypeOK
<1>1. Init => TypeOK
  <2>1. DOMAIN << >> = {}
    OBVIOUS
  <2> QED
    BY <2>1, CpuDataIsMap DEF Init, TypeOK, States, Collectors
<1>2. TypeOK /\ [Next]_vars => TypeOK'
  <2> SUFFICES ASSUME TypeOK, [Next]_vars PROVE TypeOK'
    OBVIOUS
  <2> USE MapsOfCollector, CpuDataIsMap DEF TypeOK, States, Goto, Collectors
  <2>1. CASE UNCHANGED vars
    BY <2>1 DEF vars
  <2>2. ASSUME NEW d \in Daemons, DaemonStep(d) PROVE TypeOK'
    <3>1. CASE Start(d)
      BY <3>1 DEF Start
    <3>2. CASE Check(d)
      BY <3>2 DEF Check
    <3>3. ASSUME NEW m \in Maps, UnpinOne(d, m) PROVE TypeOK'
      BY <3>3 DEF UnpinOne, Without
    <3>4. CASE UnpinDir(d)
      BY <3>4 DEF UnpinDir, AfterUnpin
    <3>5. CASE UnpinFails(d)
      BY <3>5 DEF UnpinFails, AfterUnpin
    <3>6. CASE MakeDir(d)
      BY <3>6 DEF MakeDir
    <3>7. ASSUME NEW c \in Collectors, Open(d, c) PROVE TypeOK'
      BY <3>7 DEF Open
    <3>8. ASSUME NEW m \in Maps, RemoveStale(d, m) PROVE TypeOK'
      BY <3>8 DEF RemoveStale, Without
    <3>9. CASE PinMap(d)
      BY <3>9 DEF PinMap
    <3>10. CASE Attach(d)
      BY <3>10 DEF Attach
    <3>11. CASE Fail(d) \/ Warn(d)
      BY <3>11 DEF Fail, Warn
    <3>12. CASE Ready(d) \/ Shutdown(d)
      BY <3>12 DEF Ready, Shutdown
    <3>13. CASE Crash(d)
      BY <3>13 DEF Crash
    <3> QED
      BY <2>2, <3>1, <3>2, <3>3, <3>4, <3>5, <3>6, <3>7, <3>8, <3>9, <3>10, <3>11, <3>12, <3>13
         DEF DaemonStep
  <2> QED
    BY <2>1, <2>2 DEF Next, DaemonStep
<1> QED
  BY <1>1, <1>2, PTL DEF Spec

\* The invariant behind ServedFresh is inductive: it holds at the start and every
\* step keeps it.  It needs of the others that no two daemons are alive, so that nobody
\* unpins what the running one has pinned, and that no two collectors share a map, so
\* that pin_map's remove_file takes no pin that counts.
THEOREM BuildInvariant == Spec => []BuildInv
<1>1. Init => BuildInv
  BY DEF Init, BuildInv, Dead, Building, Loading
<1>2. TypeOK /\ BuildInv /\ [Next]_vars => BuildInv'
  <2> SUFFICES ASSUME TypeOK, BuildInv, [Next]_vars PROVE BuildInv'
    OBVIOUS
  <2> USE DaemonAssumption
      DEF TypeOK, States, Goto, BuildInv, Dead, Building, Loading, Collectors, Owns
  <2>1. CASE UNCHANGED vars
    BY <2>1 DEF vars
  <2>2. ASSUME NEW d \in Daemons, DaemonStep(d) PROVE BuildInv'
    <3>1. CASE Start(d)
      BY <3>1 DEF Start
    <3>2. CASE Check(d)
      BY <3>2 DEF Check
    <3>3. ASSUME NEW m \in Maps, UnpinOne(d, m) PROVE BuildInv'
      BY <3>3 DEF UnpinOne, Without
    <3>4. CASE UnpinDir(d)
      BY <3>4 DEF UnpinDir, AfterUnpin
    <3>5. CASE UnpinFails(d)
      BY <3>5 DEF UnpinFails, AfterUnpin
    <3>6. CASE MakeDir(d)
      BY <3>6 DEF MakeDir
    <3>7. ASSUME NEW c \in Collectors, Open(d, c) PROVE BuildInv'
      BY <3>7 DEF Open
    <3>8. ASSUME NEW m \in Maps, RemoveStale(d, m) PROVE BuildInv'
      BY <3>8 DEF RemoveStale, Without
    <3>9. CASE PinMap(d)
      BY <3>9 DEF PinMap
    <3>10. CASE Attach(d)
      BY <3>10 DEF Attach
    <3>11. CASE Fail(d) \/ Warn(d)
      BY <3>11 DEF Fail, Warn
    <3>12. CASE Ready(d) \/ Shutdown(d)
      BY <3>12 DEF Ready, Shutdown
    <3>13. CASE Crash(d)
      BY <3>13 DEF Crash
    <3> QED
      BY <2>2, <3>1, <3>2, <3>3, <3>4, <3>5, <3>6, <3>7, <3>8, <3>9, <3>10, <3>11, <3>12, <3>13
         DEF DaemonStep
  <2> QED
    BY <2>1, <2>2 DEF Next, DaemonStep
<1> QED
  BY <1>1, <1>2, TypeCorrect, PTL DEF Spec

\* Whatever dead daemons have left pinned, the maps a running daemon has built are
\* the ones clients open: pin_map's remove_file before each pin is enough for that.
THEOREM FreshMapsServed == Spec => []ServedFresh
<1>1. BuildInv => ServedFresh
  BY DEF BuildInv, ServedFresh, Building, Loading
<1> QED
  BY <1>1, BuildInvariant, PTL

\* The invariant behind StalePinsCleaned is inductive beside the other one: cpu_data is
\* pinned before every other map, so that is_pinned misses nothing but what an
\* interrupted unpinning has left.
THEOREM CleanInvariant == Spec => []CleanInv
<1>1. Init => CleanInv
  <2>1. DOMAIN << >> = {}
    OBVIOUS
  <2> QED
    BY <2>1 DEF Init, CleanInv, Building, Owns
<1>2. TypeOK /\ BuildInv /\ CleanInv /\ [Next]_vars => CleanInv'
  <2> SUFFICES ASSUME TypeOK, BuildInv, CleanInv, [Next]_vars PROVE CleanInv'
    OBVIOUS
  <2> USE DaemonAssumption
      DEF TypeOK, States, Goto, BuildInv, CleanInv, Dead, Building, Loading, Collectors, Owns
  <2>1. CASE UNCHANGED vars
    BY <2>1 DEF vars
  <2>2. ASSUME NEW d \in Daemons, DaemonStep(d) PROVE CleanInv'
    <3>1. CASE Start(d)
      BY <3>1 DEF Start
    <3>2. CASE Check(d)
      BY <3>2 DEF Check, IsPinned
    <3>3. ASSUME NEW m \in Maps, UnpinOne(d, m) PROVE CleanInv'
      BY <3>3 DEF UnpinOne, Without
    <3>4. CASE UnpinDir(d)
      BY <3>4 DEF UnpinDir, AfterUnpin
    <3>5. CASE UnpinFails(d)
      BY <3>5 DEF UnpinFails, AfterUnpin
    <3>6. CASE MakeDir(d)
      BY <3>6 DEF MakeDir
    <3>7. ASSUME NEW c \in Collectors, Open(d, c) PROVE CleanInv'
      BY <3>7 DEF Open
    <3>8. ASSUME NEW m \in Maps, RemoveStale(d, m) PROVE CleanInv'
      <4>1. /\ pc[d] = "remove" /\ m \in left /\ pins' = Without(m)
            /\ pc' = [pc EXCEPT ![d] = "pin"] /\ UNCHANGED <<up, broken>>
        BY <3>8 DEF RemoveStale
      <4>2. CASE m = CpuData
        \* The CPU collector is the one that is built, so nothing else is pinned.
        <5>1. now = Cpu
          BY <4>1, <4>2
        <5>2. ~ broken => DOMAIN pins \subseteq {CpuData}
          BY <4>1, <5>1
        <5>3. ~ broken => DOMAIN pins' = {}
          BY <4>1, <4>2, <5>2 DEF Without
        <5> QED
          BY <4>1, <5>3
      <4>3. CASE m # CpuData
        <5>1. DOMAIN pins' = DOMAIN pins \ {m} /\ \A n \in DOMAIN pins' : pins'[n] = pins[n]
          BY <4>1 DEF Without
        <5> QED
          BY <4>1, <4>3, <5>1
      <4> QED
        BY <4>2, <4>3
    <3>9. CASE PinMap(d)
      <4>1. /\ pc[d] = "pin" /\ UNCHANGED <<up, broken>>
            /\ pc' = [pc EXCEPT ![d] = IF left \subseteq {map} THEN "attach" ELSE "remove"]
            /\ DOMAIN pins' = DOMAIN pins \cup {map}
            /\ \A m \in DOMAIN pins' : pins'[m] = IF m = map THEN d ELSE pins[m]
        BY <3>9 DEF PinMap
      <4>2. map \in MapsOf[now]
        BY <4>1
      <4>3. CpuData \in DOMAIN pins'
        BY <4>1, <4>2
      <4>4. Cpu \in up \/ map = CpuData
        BY <4>1, <4>2
      <4>5. ~ broken => Owns(d, DOMAIN pins) /\ (Cpu \in up \/ DOMAIN pins \subseteq {CpuData})
        BY <4>1
      <4> QED
        BY <4>1, <4>3, <4>4, <4>5
    <3>10. CASE Attach(d)
      BY <3>10 DEF Attach
    <3>11. CASE Fail(d) \/ Warn(d)
      BY <3>11 DEF Fail, Warn
    <3>12. CASE Ready(d) \/ Shutdown(d)
      BY <3>12 DEF Ready, Shutdown
    <3>13. CASE Crash(d)
      <4>1. /\ pc[d] \notin Dead /\ pc' = [pc EXCEPT ![d] = "gone"] /\ UNCHANGED <<pins, up>>
            /\ broken' = (broken \/ pc[d] \in {"clean", "unpin"})
        BY <3>13 DEF Crash
      <4>2. CASE pc[d] \in {"clean", "unpin"}
        BY <4>1, <4>2
      <4>3. CASE pc[d] \notin {"clean", "unpin"}
        BY <4>1, <4>3
      <4> QED
        BY <4>2, <4>3
    <3> QED
      BY <2>2, <3>1, <3>2, <3>3, <3>4, <3>5, <3>6, <3>7, <3>8, <3>9, <3>10, <3>11, <3>12, <3>13
         DEF DaemonStep
  <2> QED
    BY <2>1, <2>2 DEF Next, DaemonStep
<1> QED
  BY <1>1, <1>2, TypeCorrect, BuildInvariant, PTL DEF Spec

\* Unless unpinning was cut short, a running daemon has the directory for itself: the
\* cleaning at the start of main does what its comment says.
THEOREM StaleCleaned == Spec => []StalePinsCleaned
<1>1. CleanInv => StalePinsCleaned
  BY DEF CleanInv, StalePinsCleaned, Building
<1> QED
  BY <1>1, CleanInvariant, PTL

(***************************************************************************)
(* Handles and readers, composed with the daemon's life.                   *)
(***************************************************************************)

\* What the assumptions say of the two orders.
LEMMA Orders ==
  /\ Len(OpenOrder) \in Nat /\ Len(ReaderOrder) \in Nat
  /\ \A i \in 1 .. Len(OpenOrder) : OpenOrder[i] \in Wanted
  /\ \A i \in 1 .. Len(ReaderOrder) : ReaderOrder[i] \in Wanted
  /\ Wanted \subseteq Maps
BY ClientAssumption DEF Wanted

\* Clients change nothing of the daemon: with them it is still the daemon.
LEMMA DaemonUnderneath == ClientSpec => Spec
<1>1. ClientInit => Init
  BY DEF ClientInit
<1>2. [ClientNext]_<<vars, clientVars>> => [Next]_vars
  BY DEF ClientNext
<1> QED
  BY <1>1, <1>2, PTL DEF ClientSpec, Spec

\* Every variable of the clients keeps its type.
THEOREM ClientTypeCorrect == ClientSpec => []ClientTypeOK
<1> USE Orders
<1>1. ClientInit /\ TypeOK => ClientTypeOK
  BY DEF ClientInit, ClientTypeOK
<1>2. ClientTypeOK /\ TypeOK' /\ [ClientNext]_<<vars, clientVars>> => ClientTypeOK'
  <2> SUFFICES ASSUME ClientTypeOK, TypeOK', [ClientNext]_<<vars, clientVars>> PROVE ClientTypeOK'
    OBVIOUS
  <2> USE DEF ClientTypeOK
  <2>1. CASE UNCHANGED <<vars, clientVars>>
    BY <2>1 DEF clientVars
  <2>2. CASE Next /\ Observe
    BY <2>2 DEF Observe
  <2>3. ASSUME NEW h \in Handles, ClientStep(h) PROVE ClientTypeOK'
    <3>1. UNION {MapsOf[c] : c \in up} \subseteq Maps
      BY MapsOfCollector DEF TypeOK
    <3>2. ASSUME Begin(h)
          PROVE  under' \in [Handles -> Daemons \cup {Nobody}] /\ due' \in [Handles -> SUBSET Maps]
      BY <3>1, <3>2 DEF Begin
    <3>3. \A m \in DOMAIN pins : pins[m] \in Daemons
      BY DEF TypeOK
    <3>4. ASSUME Free(h)
          PROVE  /\ field' \in [Handles -> [Wanted -> Daemons \cup {Zero, Unset}]]
                 /\ at' \in [Handles -> 1 .. Len(OpenOrder) + 1]
                 /\ under' = under /\ due' = due
      BY <3>4 DEF Free
    <3>5. CASE OpenHandle(h)
      BY <3>2, <3>5 DEF OpenHandle
    <3>6. CASE TakeMap(h)
      <4>1. at[h] \in 1 .. Len(OpenOrder) /\ OpenOrder[at[h]] \in Wanted
        BY <3>6 DEF TakeMap
      <4>2. OpenOrder[at[h]] = Header => at[h] < Len(OpenOrder)
        BY <4>1, ClientAssumption
      <4>3. at' \in [Handles -> 1 .. Len(OpenOrder) + 1]
        <5>1. at[h] + 1 \in 1 .. Len(OpenOrder) + 1
          BY <4>1
        <5>2. OpenOrder[at[h]] = Header => at[h] + 2 \in 1 .. Len(OpenOrder) + 1
          BY <4>1, <4>2
        <5> QED
          BY <3>6, <5>1, <5>2 DEF TakeMap
      <4>4. /\ field' \in [Handles -> [Wanted -> Daemons \cup {Zero, Unset}]]
            /\ fds' \in [Handles -> SUBSET Wanted]
        <5> DEFINE m == OpenOrder[at[h]]
        <5>1. CASE m \in DOMAIN pins
          <6>1. /\ field' = [field EXCEPT ![h] = [field[h] EXCEPT ![m] = pins[m]]]
                /\ fds' = [fds EXCEPT ![h] = fds[h] \cup {m}]
            BY <3>6, <5>1 DEF TakeMap
          <6>2. [field[h] EXCEPT ![m] = pins[m]] \in [Wanted -> Daemons \cup {Zero, Unset}]
            BY <3>3, <4>1, <5>1
          <6> QED
            BY <4>1, <6>1, <6>2
        <5>2. CASE m \notin DOMAIN pins
          BY <3>6, <5>2 DEF TakeMap
        <5> QED
          BY <5>1, <5>2
      <4>5. UNCHANGED <<hpc, stdin, under, due>>
        BY <3>6 DEF TakeMap
      <4> QED
        BY <4>3, <4>4, <4>5
    <3>7. CASE Opened(h) \/ ReaderOpened(h)
      BY <3>7 DEF Opened, ReaderOpened
    <3>8. CASE OpenedNothing(h)
      BY <3>4, <3>8 DEF OpenedNothing
    <3>9. CASE Close(h)
      BY <3>4, <3>9 DEF Close, CloseZero
    <3>10. CASE Connect(h)
      BY <3>2, <3>10 DEF Connect
    <3>11. CASE ReaderTake(h)
      <4>1. at[h] \in 1 .. Len(ReaderOrder) /\ ReaderOrder[at[h]] \in Wanted
        BY <3>11 DEF ReaderTake
      <4>2. at' \in [Handles -> 1 .. Len(OpenOrder) + 1]
        BY <3>11, <4>1, ClientAssumption DEF ReaderTake
      <4> QED
        BY <3>3, <3>11, <4>1, <4>2 DEF ReaderTake
    <3>12. CASE ReaderDrop(h)
      BY <3>4, <3>12 DEF ReaderDrop
    <3> QED
      BY <2>3, <3>5, <3>6, <3>7, <3>8, <3>9, <3>10, <3>11, <3>12 DEF ClientStep
  <2> QED
    BY <2>1, <2>2, <2>3 DEF ClientNext
<1> QED
  BY <1>1, <1>2, DaemonUnderneath, TypeCorrect, PTL DEF ClientSpec

\* No step of any daemon leaves a daemon that is ready so: the others are dead, and
\* its own next step ends it.
LEMMA ReadyEnds ==
  ASSUME TypeOK, BuildInv, Next, NEW d \in Daemons, pc[d] = "ready"
  PROVE  pc'[d] # "ready"
<1>1. PICK e \in Daemons : DaemonStep(e)
  BY DEF Next, DaemonStep
<1>2. pc[e] \notin Dead => e = d
  BY DEF BuildInv, Dead
<1>3. ~Start(e)
  BY DEF Start, Dead
<1>4. e = d
  BY <1>1, <1>2, <1>3
     DEF DaemonStep, Check, UnpinOne, UnpinDir, UnpinFails, MakeDir, Open, RemoveStale, PinMap,
         Attach, Fail, Warn, Ready, Shutdown, Crash, Dead, Loading
<1> QED
  BY <1>1, <1>3, <1>4
     DEF DaemonStep, Check, UnpinOne, UnpinDir, UnpinFails, MakeDir, Open, RemoveStale, PinMap,
         Attach, Fail, Warn, Ready, Shutdown, Crash, Dead, Loading, Goto, TypeOK, States

\* HandleInv of one handle.
HandleInvOf(h) ==
  /\ under[h] \in Daemons =>
       /\ hpc[h] = "held" => \A m \in due[h] \cap Wanted : field[h][m] = under[h]
       /\ hpc[h] = "reader" =>
            \A i \in 1 .. Len(ReaderOrder) :
              field[h][ReaderOrder[i]] \in
                IF ReaderOrder[i] \in due[h] THEN {under[h]} ELSE Daemons
  /\ under[h] \in Daemons /\ Mapped \subseteq due[h] => stdin[h]
  /\ hpc[h] = "idle" => at[h] = 1
  /\ hpc[h] # "closed" => stdin[h]
  /\ hpc[h] \in {"idle", "closed"} => fds[h] = {}
  /\ hpc[h] \in {"open", "held"} => \A m \in fds[h] : field[h][m] \in Daemons
  /\ under[h] \in Daemons =>
       /\ hpc[h] \in Opening => pc[under[h]] = "ready" /\ due[h] = UNION {MapsOf[c] : c \in up}
       /\ hpc[h] = "open" =>
            \A i \in 1 .. Len(OpenOrder) :
              i < at[h] /\ OpenOrder[i] \in due[h] => field[h][OpenOrder[i]] = under[h]
       /\ hpc[h] = "connect" =>
            \A i \in 1 .. Len(ReaderOrder) :
              i < at[h] => field[h][ReaderOrder[i]] \in
                             IF ReaderOrder[i] \in due[h] THEN {under[h]} ELSE Daemons

\* HandleInv is about each handle for itself.
LEMMA HandleByHandle == HandleInv <=> \A h \in Handles : HandleInvOf(h)
BY DEF HandleInv, HandleInvOf, HandleFresh, ClosesOnlyItsOwn

\* A handle that is left alone, by a step that does not concern it.
LEMMA HandleUntouched ==
  ASSUME NEW h \in Handles, HandleInvOf(h),
         hpc'[h] = hpc[h], at'[h] = at[h], field'[h] = field[h], fds'[h] = fds[h],
         stdin'[h] = stdin[h], under'[h] = under[h], due'[h] = due[h],
         hpc[h] \in Opening => pc' = pc /\ up' = up
  PROVE  HandleInvOf(h)'
<1>1. CASE hpc[h] \in Opening
  BY <1>1 DEF HandleInvOf
<1>2. CASE hpc[h] \notin Opening
  BY <1>2 DEF HandleInvOf, Opening
<1> QED
  BY <1>1, <1>2

\* What is due under a daemon that is ready is pinned, and its own.
LEMMA DueIsServed ==
  ASSUME ServedFresh, NEW h \in Handles, under[h] \in Daemons, pc[under[h]] = "ready",
         due[h] = UNION {MapsOf[c] : c \in up}, NEW m \in due[h]
  PROVE  m \in DOMAIN pins /\ pins[m] = under[h]
BY DEF ServedFresh, Owns

\* The beginning of a handle or a reader.
LEMMA BeginKnown ==
  ASSUME ClientTypeOK, NEW h \in Handles, Begin(h), under'[h] \in Daemons
  PROVE  pc[under'[h]] = "ready" /\ due'[h] = UNION {MapsOf[c] : c \in up}
<1>1. /\ under'[h] = IF \E d \in Daemons : pc[d] = "ready"
                     THEN CHOOSE d \in Daemons : pc[d] = "ready" ELSE Nobody
      /\ due'[h] = UNION {MapsOf[c] : c \in up}
  BY DEF Begin, ClientTypeOK
<1>2. \E d \in Daemons : pc[d] = "ready"
  BY <1>1, ClientAssumption
<1> QED
  BY <1>1, <1>2

\* One map of procfast_open: if it is due it is there and the daemon's own; and what is
\* passed over together with a header is not due either.
LEMMA TakeMapKnown ==
  ASSUME ClientTypeOK, ServedFresh, UNCHANGED vars, NEW h \in Handles, HandleInvOf(h), TakeMap(h)
  PROVE  HandleInvOf(h)'
<1> USE Orders
<1> DEFINE m == OpenOrder[at[h]]
<1>1. /\ hpc[h] = "open" /\ hpc'[h] = "open"
      /\ at[h] \in 1 .. Len(OpenOrder) /\ m \in Wanted
      /\ under' = under /\ due' = due /\ stdin' = stdin /\ pc' = pc /\ up' = up
  BY DEF TakeMap, ClientTypeOK, vars
<1>2. \A n \in DOMAIN pins : pins[n] \in Daemons
  BY DEF ClientTypeOK, TypeOK
<1>3. /\ field \in [Handles -> [Wanted -> Daemons \cup {Zero, Unset}]]
      /\ fds \in [Handles -> SUBSET Wanted]
      /\ at \in [Handles -> 1 .. Len(OpenOrder) + 1]
  BY DEF ClientTypeOK
<1>4. CASE m \in DOMAIN pins
  <2>1. /\ field'[h][m] = pins[m] /\ \A n \in Wanted \ {m} : field'[h][n] = field[h][n]
        /\ fds'[h] = fds[h] \cup {m}
        /\ at'[h] = at[h] + 1
    BY <1>1, <1>3, <1>4 DEF TakeMap
  <2>2. \A n \in fds'[h] : field'[h][n] \in Daemons
    BY <1>1, <1>2, <1>3, <1>4, <2>1 DEF HandleInvOf
  <2>3. ASSUME under[h] \in Daemons, NEW i \in 1 .. Len(OpenOrder), i < at'[h], OpenOrder[i] \in due[h]
        PROVE  field'[h][OpenOrder[i]] = under[h]
    <3>1. CASE OpenOrder[i] = m
      <4>1. pc[under[h]] = "ready" /\ due[h] = UNION {MapsOf[c] : c \in up}
        BY <1>1, <2>3 DEF HandleInvOf, Opening
      <4>2. pins[m] = under[h]
        BY <2>3, <3>1, <4>1, DueIsServed
      <4> QED
        BY <2>1, <3>1, <4>2
    <3>2. CASE OpenOrder[i] # m
      <4>1. i < at[h] /\ OpenOrder[i] \in Wanted
        BY <1>1, <2>1, <2>3, <3>2
      <4>2. field[h][OpenOrder[i]] = under[h]
        BY <1>1, <2>3, <4>1 DEF HandleInvOf
      <4> QED
        BY <2>1, <3>2, <4>1, <4>2
    <3> QED
      BY <3>1, <3>2
  <2> QED
    BY <1>1, <2>2, <2>3 DEF HandleInvOf, Opening
<1>5. CASE m \notin DOMAIN pins
  <2>1. /\ field' = field /\ fds' = fds
        /\ at'[h] = at[h] + IF m = Header THEN 2 ELSE 1
    BY <1>1, <1>3, <1>5 DEF TakeMap
  <2>2. ASSUME under[h] \in Daemons, NEW i \in 1 .. Len(OpenOrder), i < at'[h], OpenOrder[i] \in due[h]
        PROVE  field'[h][OpenOrder[i]] = under[h]
    <3>1. pc[under[h]] = "ready" /\ due[h] = UNION {MapsOf[c] : c \in up}
      BY <1>1, <2>2 DEF HandleInvOf, Opening
    <3>2. m \notin due[h]
      BY <1>5, <2>2, <3>1, DueIsServed
    <3>3. CASE i < at[h]
      BY <1>1, <2>1, <2>2, <3>3 DEF HandleInvOf
    <3>4. CASE i = at[h]
      BY <2>2, <3>2, <3>4
    <3>5. CASE i > at[h]
      <4>1. m = Header /\ i = at[h] + 1
        BY <1>1, <2>1, <2>2, <3>5
      <4>2. PICK c \in up : OpenOrder[i] \in MapsOf[c]
        BY <2>2, <3>1
      <4>3. c \in Collectors
        BY DEF ClientTypeOK, TypeOK
      <4>4. m \in MapsOf[c]
        BY <1>1, <4>1, <4>2, <4>3, ClientAssumption
      <4> QED
        BY <3>1, <3>2, <4>2, <4>4
    <3> QED
      BY <1>1, <3>3, <3>4, <3>5
  <2> QED
    BY <1>1, <2>1, <2>2 DEF HandleInvOf, Opening
<1> QED
  BY <1>4, <1>5

\* One map of a reader.
LEMMA ReaderTakeKnown ==
  ASSUME ClientTypeOK, ServedFresh, UNCHANGED vars, NEW h \in Handles, HandleInvOf(h), ReaderTake(h)
  PROVE  HandleInvOf(h)'
<1> USE Orders
<1> DEFINE m == ReaderOrder[at[h]]
<1>1. /\ hpc[h] = "connect" /\ hpc'[h] = "connect"
      /\ at[h] \in 1 .. Len(ReaderOrder) /\ m \in Wanted /\ m \in DOMAIN pins
      /\ under' = under /\ due' = due /\ stdin' = stdin /\ pc' = pc /\ up' = up
  BY DEF ReaderTake, ClientTypeOK, vars
<1>2. /\ field'[h][m] = pins[m] /\ \A n \in Wanted \ {m} : field'[h][n] = field[h][n]
      /\ at'[h] = at[h] + 1 /\ pins[m] \in Daemons
  BY <1>1 DEF ReaderTake, ClientTypeOK, TypeOK
<1>3. ASSUME under[h] \in Daemons, NEW i \in 1 .. Len(ReaderOrder), i < at'[h]
      PROVE  field'[h][ReaderOrder[i]] \in IF ReaderOrder[i] \in due[h] THEN {under[h]} ELSE Daemons
  <2>1. pc[under[h]] = "ready" /\ due[h] = UNION {MapsOf[c] : c \in up}
    BY <1>1, <1>3 DEF HandleInvOf, Opening
  <2>2. CASE ReaderOrder[i] = m
    BY <1>2, <1>3, <2>1, <2>2, DueIsServed
  <2>3. CASE ReaderOrder[i] # m
    <3>1. i < at[h]
      BY <1>1, <1>2, <1>3, <2>3
    <3> QED
      BY <1>1, <1>2, <1>3, <2>3, <3>1 DEF HandleInvOf
  <2> QED
    BY <2>2, <2>3
<1> QED
  BY <1>1, <1>3 DEF HandleInvOf, Opening

\* The steps of a client keep its invariant, and touch no other client.
LEMMA ClientStepKnown ==
  ASSUME ClientTypeOK, ServedFresh, UNCHANGED vars, NEW h \in Handles, HandleInvOf(h), ClientStep(h)
  PROVE  HandleInvOf(h)'
<1> USE Orders DEF Opening
<1>1. pc' = pc /\ up' = up
  BY DEF vars
<1>2. CASE OpenHandle(h)
  <2>1. /\ hpc[h] = "idle" /\ hpc'[h] = "open" /\ at'[h] = 1 /\ fds'[h] = {} /\ stdin' = stdin
        /\ Begin(h)
    BY <1>2 DEF OpenHandle, ClientTypeOK, HandleInvOf
  <2>2. stdin'[h]
    BY <2>1 DEF HandleInvOf
  <2> QED
    BY <1>1, <2>1, <2>2, BeginKnown DEF HandleInvOf
<1>3. CASE TakeMap(h)
  BY <1>3, TakeMapKnown
<1>4. CASE Opened(h)
  <2>1. /\ hpc[h] = "open" /\ hpc'[h] = "held" /\ at[h] > Len(OpenOrder)
        /\ UNCHANGED <<at, field, fds, stdin, under, due>>
    BY <1>4 DEF Opened, ClientTypeOK
  <2>2. \A m \in Wanted : \E i \in 1 .. Len(OpenOrder) : OpenOrder[i] = m /\ i < at[h]
    BY <2>1 DEF Wanted, ClientTypeOK
  <2>3. ASSUME under[h] \in Daemons, NEW m \in due[h] \cap Wanted PROVE field[h][m] = under[h]
    BY <2>1, <2>2, <2>3 DEF HandleInvOf
  <2> QED
    BY <2>1, <2>3 DEF HandleInvOf
<1>5. CASE OpenedNothing(h)
  <2>1. hpc[h] = "open" /\ hpc'[h] = "null" /\ UNCHANGED <<fds, stdin, under, due>>
    BY <1>5 DEF OpenedNothing, Free, ClientTypeOK
  <2> QED
    BY <2>1 DEF HandleInvOf
<1>6. CASE Close(h)
  <2>1. /\ hpc[h] = "held" /\ hpc'[h] = "closed" /\ UNCHANGED <<under, due>>
        /\ fds'[h] = fds[h] \ {m \in Wanted : field[h][m] \in Daemons}
        /\ stdin'[h] = (stdin[h] /\ \A m \in Mapped : field[h][m] # Zero)
    BY <1>6 DEF Close, CloseZero, Free, ClientTypeOK
  <2>2. fds'[h] = {}
    BY <2>1 DEF HandleInvOf, ClientTypeOK
  <2>3. ASSUME under[h] \in Daemons, Mapped \subseteq due[h] PROVE stdin'[h]
    <3>1. \A m \in Mapped : field[h][m] = under[h]
      BY <2>1, <2>3, ClientAssumption DEF HandleInvOf
    <3> QED
      BY <2>1, <2>3, <3>1, ClientAssumption DEF HandleInvOf
  <2> QED
    BY <2>1, <2>2, <2>3 DEF HandleInvOf
<1>7. CASE Connect(h)
  <2>1. /\ hpc[h] = "idle" /\ hpc'[h] = "connect" /\ at'[h] = 1 /\ stdin' = stdin
        /\ Begin(h)
    BY <1>7 DEF Connect, ClientTypeOK, HandleInvOf
  <2>2. stdin'[h]
    BY <2>1 DEF HandleInvOf
  <2> QED
    BY <1>1, <2>1, <2>2, BeginKnown DEF HandleInvOf
<1>8. CASE ReaderTake(h)
  BY <1>8, ReaderTakeKnown
<1>9. CASE ReaderOpened(h)
  <2>1. /\ hpc[h] = "connect" /\ hpc'[h] = "reader" /\ at[h] > Len(ReaderOrder)
        /\ UNCHANGED <<at, field, fds, stdin, under, due>>
    BY <1>9 DEF ReaderOpened, ClientTypeOK
  <2>2. \A i \in 1 .. Len(ReaderOrder) : i < at[h]
    BY <2>1 DEF ClientTypeOK
  <2> QED
    BY <2>1, <2>2 DEF HandleInvOf
<1>10. CASE ReaderDrop(h)
  <2>1. hpc'[h] = "closed" /\ fds'[h] = {} /\ UNCHANGED <<stdin, under, due>>
    BY <1>10 DEF ReaderDrop, Free, ClientTypeOK
  <2> QED
    BY <2>1 DEF HandleInvOf
<1> QED
  BY <1>2, <1>3, <1>4, <1>5, <1>6, <1>7, <1>8, <1>9, <1>10 DEF ClientStep

\* The invariant of the handles is inductive over the daemon's.
THEOREM HandleInvariant == ClientSpec => []HandleInv
<1>1. ClientInit => HandleInv
  BY ClientAssumption DEF ClientInit, HandleInv, HandleFresh, ClosesOnlyItsOwn, Opening
<1>2. ClientTypeOK /\ BuildInv /\ ServedFresh /\ HandleInv /\ [ClientNext]_<<vars, clientVars>>
        => HandleInv'
  <2> SUFFICES ASSUME ClientTypeOK, BuildInv, ServedFresh, [ClientNext]_<<vars, clientVars>>,
                      \A h \in Handles : HandleInvOf(h), NEW h \in Handles
               PROVE  HandleInvOf(h)'
    BY HandleByHandle DEF HandleInv, HandleInvOf, HandleFresh, ClosesOnlyItsOwn
  <2>1. CASE UNCHANGED <<vars, clientVars>>
    BY <2>1, HandleUntouched DEF vars, clientVars
  <2>2. CASE Next /\ Observe
    <3>1. UNCHANGED <<hpc, at, field, fds, stdin, due>>
      BY <2>2 DEF Observe
    <3>2. CASE hpc[h] \in Opening
      <4>1. under'[h] \notin Daemons
        BY <2>2, <3>2, ReadyEnds, ClientAssumption DEF Observe, HandleInvOf, ClientTypeOK
      <4> QED
        BY <3>1, <4>1 DEF HandleInvOf
    <3>3. CASE hpc[h] \notin Opening
      <4>1. under'[h] = under[h]
        BY <2>2, <3>3 DEF Observe
      <4> QED
        BY <3>1, <3>3, <4>1, HandleUntouched
    <3> QED
      BY <3>2, <3>3
  <2>3. ASSUME NEW g \in Handles, ClientStep(g), UNCHANGED vars PROVE HandleInvOf(h)'
    <3>1. CASE g = h
      BY <2>3, <3>1, ClientStepKnown
    <3>2. CASE g # h
      <4>1. /\ hpc'[h] = hpc[h] /\ at'[h] = at[h] /\ field'[h] = field[h] /\ fds'[h] = fds[h]
            /\ stdin'[h] = stdin[h] /\ under'[h] = under[h] /\ due'[h] = due[h]
        BY <2>3, <3>2
           DEF ClientStep, OpenHandle, TakeMap, Opened, OpenedNothing, Close, CloseZero, Connect,
               ReaderTake, ReaderOpened, ReaderDrop, Begin, Free, ClientTypeOK
      <4>2. pc' = pc /\ up' = up /\ HandleInvOf(h)
        BY <2>3 DEF vars
      <4> QED
        BY <4>1, <4>2, HandleUntouched
    <3> QED
      BY <3>1, <3>2
  <2> QED
    BY <2>1, <2>2, <2>3 DEF ClientNext
<1> QED
  BY <1>1, <1>2, ClientTypeCorrect, DaemonUnderneath, BuildInvariant, FreshMapsServed, PTL
     DEF ClientSpec

\* A handle or a reader made under a daemon that is ready has that daemon's maps.
THEOREM HandlesAreFresh == ClientSpec => []HandleFresh
<1>1. HandleInv => HandleFresh
  BY DEF HandleInv
<1> QED
  BY <1>1, HandleInvariant, PTL

\* Nothing that was opened stays open behind procfast_close or a dropped reader.
THEOREM NothingLeftOpen == ClientSpec => []ClosedReleases
<1>1. HandleInv => ClosedReleases
  BY DEF HandleInv, ClosedReleases
<1> QED
  BY <1>1, HandleInvariant, PTL

\* Under a daemon that has all the mapped maps, closing takes nobody else's descriptor.
THEOREM NothingElseClosed == ClientSpec => []ClosesOnlyItsOwn
<1>1. HandleInv => ClosesOnlyItsOwn
  BY DEF HandleInv
<1> QED
  BY <1>1, HandleInvariant, PTL
=============================================================================

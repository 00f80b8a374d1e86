------------------------------ MODULE SlotTable ------------------------------
(***************************************************************************)
(* The per-device regions: net_data (procfast-bpf/src/net.bpf.c),          *)
(* disk_data (disk.bpf.c) and thermal_data (thermal.bpf.c).  Each has the  *)
(* same shape: a hash map from a device's key to its slot, a counter of    *)
(* the slots given away, and an mmapped array with a count of the slots    *)
(* in use.  No program of the three touches the region's sequence counter. *)
(*                                                                         *)
(* "show" is fexit_dev_get_stats, fentry_diskstats_show or                 *)
(* fexit_thermal_zone_get_temp, which differ in the fields they copy only; *)
(* "complete" is block_rq_complete, which disk.bpf.c has besides.  A       *)
(* context is whatever runs one program at a time: a CPU in process        *)
(* context, an interrupt.  A step is one access to a map or to the region. *)
(***************************************************************************)
EXTENDS Naturals, FiniteSets

CONSTANTS
  Contexts,
  Devices,    \* by their keys: ifindex, major and minor, zone id
  Nobody,     \* an empty name
  MaxSlots,   \* PROCFAST_MAX_NET_DEVS, _MAX_DISKS, _MAX_THERMAL_ZONES
  MaxVisits   \* bound: runs of the programs in a behaviour

ASSUME SlotAssumption ==
  /\ Nobody \notin Devices
  /\ MaxSlots \in Nat
  /\ MaxVisits \in Nat

Indices == 0 .. MaxSlots - 1

Programs == {"show", "complete"}

Labels == {"out", "assign", "bump", "insert", "name", "count", "add"}

\* Where a context is: in no program, or at a label of one, with its device and slot.
Places == [prog : Programs \cup {"none"}, pc : Labels, dev : Devices \cup {Nobody}, slot : Nat]

Rest == [prog |-> "none", pc |-> "out", dev |-> Nobody, slot |-> 0]

VARIABLES
  slots,     \* map: device -> slot
  next,      \* the next free slot
  name,      \* of the region: the name in each slot ...
  ios,       \* ... its read_ios + write_ios ...
  nr,        \* ... and nr_devs, nr_disks or nr_zones
  ctx,       \* where each context is
  visits,    \* programs started so far
  done       \* history: completions added for each device

vars == <<slots, next, name, ios, nr, ctx, visits, done>>

Init ==
  /\ slots = <<>>
  /\ next = 0
  /\ name = [i \in Indices |-> Nobody]
  /\ ios = [i \in Indices |-> 0]
  /\ nr = 0
  /\ ctx = [c \in Contexts |-> Rest]
  /\ visits = 0
  /\ done = [d \in Devices |-> 0]

Goto(c, label) == ctx' = [ctx EXCEPT ![c].pc = label]

GotoWith(c, label, slot) == ctx' = [ctx EXCEPT ![c].pc = label, ![c].slot = slot]

Return(c) == ctx' = [ctx EXCEPT ![c] = Rest]

\* A program starts and looks its device up.
Lookup(c, prog, d) ==
  /\ ctx[c] = Rest
  /\ visits < MaxVisits
  /\ visits' = visits + 1
  /\ ctx' = [ctx EXCEPT ![c] =
       IF d \notin DOMAIN slots
         THEN [prog |-> prog, pc |-> "assign", dev |-> d, slot |-> 0]
         ELSE [prog |-> prog, pc |-> IF prog = "show" THEN "name" ELSE "add",
               dev |-> d, slot |-> slots[d]]]
  /\ UNCHANGED <<slots, next, name, ios, nr, done>>

\* MUTANT of ReadNext: the last slot's index is compared with > for >=.
ReadNextPastEnd(c) ==
  /\ ctx[c].pc = "assign"
  /\ IF next > MaxSlots THEN Return(c) ELSE GotoWith(c, "bump", next)
  /\ UNCHANGED <<slots, next, name, ios, nr, visits, done>>

\* A device that finds no free slot is left out.
ReadNext(c) ==
  /\ ctx[c].pc = "assign"
  /\ IF next >= MaxSlots THEN Return(c) ELSE GotoWith(c, "bump", next)
  /\ UNCHANGED <<slots, next, name, ios, nr, visits, done>>

\* MUTANT of Bump: the counter is not advanced.
BumpNothing(c) ==
  /\ ctx[c].pc = "bump"
  /\ Goto(c, "insert")
  /\ UNCHANGED <<slots, next, name, ios, nr, visits, done>>

\* ( *next)++ is a plain load and a plain store; the compiler may use the value
\* loaded before.
Bump(c) ==
  /\ ctx[c].pc = "bump"
  /\ next' \in {ctx[c].slot + 1, next + 1}
  /\ Goto(c, "insert")
  /\ UNCHANGED <<slots, name, ios, nr, visits, done>>

\* MUTANT of Insert: the map is not updated.
InsertNothing(c) ==
  /\ ctx[c].pc = "insert"
  /\ Goto(c, "name")
  /\ UNCHANGED <<slots, next, name, ios, nr, visits, done>>

\* bpf_map_update_elem with BPF_ANY: the map has room for MaxSlots devices, and
\* only block_rq_complete looks whether the update has worked.
Insert(c) ==
  /\ ctx[c].pc = "insert"
  /\ LET d == ctx[c].dev
         fits == d \in DOMAIN slots \/ Cardinality(DOMAIN slots) < MaxSlots
     IN /\ slots' = IF fits
                      THEN [e \in DOMAIN slots \cup {d} |-> IF e = d THEN ctx[c].slot ELSE slots[e]]
                      ELSE slots
        /\ IF fits \/ ctx[c].prog = "show" THEN Goto(c, "name") ELSE Return(c)
  /\ UNCHANGED <<next, name, ios, nr, visits, done>>

\* The name and, for a show, the fields that come with it.
Name(c) ==
  /\ ctx[c].pc = "name"
  /\ name' = [name EXCEPT ![ctx[c].slot] = ctx[c].dev]
  /\ Goto(c, "count")
  /\ UNCHANGED <<slots, next, ios, nr, visits, done>>

\* MUTANT of CountShow: a store of slot + 1 without the comparison.
CountAlways(c) ==
  /\ ctx[c].pc = "count" /\ ctx[c].prog = "show"
  /\ nr' = ctx[c].slot + 1
  /\ Return(c)
  /\ UNCHANGED <<slots, next, name, ios, visits, done>>

\* A show raises the count to the counter of slots and returns ...
CountShow(c) ==
  /\ ctx[c].pc = "count" /\ ctx[c].prog = "show"
  /\ nr' = IF next > nr THEN next ELSE nr
  /\ Return(c)
  /\ UNCHANGED <<slots, next, name, ios, visits, done>>

\* MUTANT of CountComplete: it goes on with index 0, not with its device's slot.
CountCompleteZero(c) ==
  /\ ctx[c].pc = "count" /\ ctx[c].prog = "complete"
  /\ nr' = IF ctx[c].slot + 1 > nr THEN ctx[c].slot + 1 ELSE nr
  /\ GotoWith(c, "add", 0)
  /\ UNCHANGED <<slots, next, name, ios, visits, done>>

\* ... a completion raises it to its own slot, and reads the slot from the map.
CountComplete(c) ==
  /\ ctx[c].pc = "count" /\ ctx[c].prog = "complete"
  /\ nr' = IF ctx[c].slot + 1 > nr THEN ctx[c].slot + 1 ELSE nr
  /\ GotoWith(c, "add", slots[ctx[c].dev])
  /\ UNCHANGED <<slots, next, name, ios, visits, done>>

\* An atomic add.
Add(c) ==
  /\ ctx[c].pc = "add"
  /\ ios' = [ios EXCEPT ![ctx[c].slot] = @ + 1]
  /\ done' = [done EXCEPT ![ctx[c].dev] = @ + 1]
  /\ Return(c)
  /\ UNCHANGED <<slots, next, name, nr, visits>>

Next ==
  \E c \in Contexts :
    \/ \E prog \in Programs, d \in Devices : Lookup(c, prog, d)
    \/ ReadNext(c) \/ Bump(c) \/ Insert(c)
    \/ Name(c) \/ CountShow(c) \/ CountComplete(c)
    \/ Add(c)

Spec == Init /\ [][Next]_vars

(***************************************************************************)
(* Properties                                                              *)
(***************************************************************************)

\* Every variable has its type, and no index leaves the array.
TypeOK ==
  /\ DOMAIN slots \subseteq Devices
  /\ \A d \in DOMAIN slots : slots[d] \in Indices
  /\ next \in 0 .. MaxSlots
  /\ name \in [Indices -> Devices \cup {Nobody}]
  /\ ios \in [Indices -> Nat]
  /\ nr \in 0 .. MaxSlots
  /\ done \in [Devices -> Nat]
  /\ ctx \in [Contexts -> Places]
  /\ \A c \in Contexts : ctx[c].pc \notin {"out", "assign"} => ctx[c].slot \in Indices

\* "For updating the right slot" (net.bpf.c): no two devices have the same slot.
\* Holds with one context, fails with two.
SlotsDistinct ==
  \A d, e \in DOMAIN slots : slots[d] = slots[e] => d = e

\* What a client reads below the count is a device, the one whose slot it is, and
\* every device that has been given a slot is below the count, once its program has
\* returned.
CountMatchesNames ==
  /\ \A i \in 0 .. nr - 1 : \E d \in DOMAIN slots : slots[d] = i /\ name[i] = d
  /\ (\A c \in Contexts : ctx[c] = Rest) => \A d \in DOMAIN slots : slots[d] < nr

\* The counters of a disk are its own: with SlotsDistinct they hold what has been
\* completed on it, and none of it is lost or put to another disk's account.
IosRight ==
  \A i \in Indices :
    ios[i] = 0 \/ \E d \in DOMAIN slots : slots[d] = i /\ ios[i] = done[d]

At(labels) == {c \in Contexts : ctx[c].pc \in labels}

(***************************************************************************)
(* What is left of it when programs overlap, in any number of contexts.    *)
(***************************************************************************)

\* No program leaves the array, and the programs that have compared the counter with
\* its size together move it past by less than there are contexts.  (The count for
\* the clients follows it, who are right to look at the array's size beside it.)
OverlapInv ==
  /\ \A d \in DOMAIN slots : slots[d] \in Indices
  /\ \A c \in Contexts : ctx[c].pc \notin {"out", "assign"} => ctx[c].slot \in Indices
  /\ next + Cardinality(At({"bump"})) < MaxSlots + Cardinality(Contexts)
  /\ nr < MaxSlots + Cardinality(Contexts)

(***************************************************************************)
(* The invariant behind the properties, for one context.                   *)
(***************************************************************************)

\* Some program is at one of the labels with device d.
Handles(labels, d) == \E c \in At(labels) : ctx[c].dev = d

\* The slots that are in the map: one less than given away between the increment
\* and the insert.
Used == IF At({"insert"}) = {} THEN next ELSE next - 1

\* What a program that is under way knows of its device.
ProgramInv ==
  \A c \in Contexts :
    LET p == ctx[c] IN
    /\ p.pc # "out" => p.dev \in Devices /\ p.prog \in Programs
    /\ p.pc \in {"assign", "bump", "insert"} => p.dev \notin DOMAIN slots
    /\ p.pc = "bump" => p.slot = next
    /\ p.pc = "insert" => p.slot + 1 = next
    /\ p.pc \in {"name", "count", "add"} => p.dev \in DOMAIN slots /\ slots[p.dev] = p.slot

\* The map is a bijection between the devices it holds and the used slots.
BijectionInv ==
  /\ SlotsDistinct
  /\ \A d \in DOMAIN slots : slots[d] < Used
  /\ \A i \in Indices : i < Used => \E d \in DOMAIN slots : slots[d] = i
  /\ IsFiniteSet(DOMAIN slots) /\ Cardinality(DOMAIN slots) = Used

\* Names and the count follow the map, but for the program still at work.
CountInv ==
  /\ nr <= Used
  /\ \A d \in DOMAIN slots :
       /\ name[slots[d]] = d \/ (slots[d] >= nr /\ Handles({"name"}, d))
       /\ slots[d] < nr \/ Handles({"name", "count"}, d)

\* Each disk's counter is its own and a slot not in use has none.
IosInv ==
  /\ \A d \in DOMAIN slots : ios[slots[d]] = done[d]
  /\ \A d \in Devices \ DOMAIN slots : done[d] = 0
  /\ \A i \in Indices : i >= Used => ios[i] = 0

\* What each program relies on between its accesses: the map is a bijection onto the
\* slots given away, names, count and counters follow it.  With one context it is
\* inductive (SlotTable_proofs) and implies the three properties above.
SlotInv == ProgramInv /\ BijectionInv /\ CountInv /\ IosInv
=============================================================================

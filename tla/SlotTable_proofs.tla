-------------------------- MODULE SlotTable_proofs --------------------------
(***************************************************************************)
(* The slot tables of net, disk and thermal where no program interrupts    *)
(* another: each device has a slot of its own and is counted, for any      *)
(* number of devices and slots.                                            *)
(***************************************************************************)
EXTENDS SlotTable, FiniteSetTheorems, TLAPS

\* At most one program runs at a time.
Alone == \A a, b \in Contexts : a = b

\* All that is known of a state, and the steps that keep it.
Known == TypeOK /\ SlotInv

\* What the moves of a context leave of its place.
LEMMA GotoType ==
  ASSUME ctx \in [Contexts -> Places], NEW c \in Contexts, NEW label \in Labels, NEW slot \in Nat
  PROVE  /\ Goto(c, label) => /\ ctx' \in [Contexts -> Places]
                              /\ ctx'[c].pc = label /\ ctx'[c].slot = ctx[c].slot
                              /\ ctx'[c].dev = ctx[c].dev /\ ctx'[c].prog = ctx[c].prog
         /\ GotoWith(c, label, slot) => /\ ctx' \in [Contexts -> Places]
                                        /\ ctx'[c].pc = label /\ ctx'[c].slot = slot
                                        /\ ctx'[c].dev = ctx[c].dev /\ ctx'[c].prog = ctx[c].prog
         /\ Return(c) => ctx' \in [Contexts -> Places] /\ ctx'[c] = Rest
<1>1. ctx[c] \in Places
  OBVIOUS
<1>2. [ctx[c] EXCEPT !.pc = label] \in Places /\ [ctx[c] EXCEPT !.pc = label, !.slot = slot] \in Places
  BY <1>1 DEF Places
<1>3. ASSUME Goto(c, label) PROVE ctx' = [ctx EXCEPT ![c] = [ctx[c] EXCEPT !.pc = label]]
  BY <1>3 DEF Goto
<1>4. ASSUME GotoWith(c, label, slot)
      PROVE  ctx' = [ctx EXCEPT ![c] = [ctx[c] EXCEPT !.pc = label, !.slot = slot]]
  BY <1>4 DEF GotoWith
<1>5. Return(c) => ctx' \in [Contexts -> Places] /\ ctx'[c] = Rest
  BY DEF Return, Rest, Places, Labels
<1>6. ASSUME Goto(c, label)
      PROVE  /\ ctx' \in [Contexts -> Places]
             /\ ctx'[c].pc = label /\ ctx'[c].slot = ctx[c].slot
             /\ ctx'[c].dev = ctx[c].dev /\ ctx'[c].prog = ctx[c].prog
  <2>1. ctx' \in [Contexts -> Places]
    BY <1>2, <1>3, <1>6
  <2> QED
    BY <1>1, <1>3, <1>6, <2>1 DEF Places
<1>7. ASSUME GotoWith(c, label, slot)
      PROVE  /\ ctx' \in [Contexts -> Places]
             /\ ctx'[c].pc = label /\ ctx'[c].slot = slot
             /\ ctx'[c].dev = ctx[c].dev /\ ctx'[c].prog = ctx[c].prog
  <2>1. ctx' \in [Contexts -> Places]
    BY <1>2, <1>4, <1>7
  <2>2. ctx'[c] = [ctx[c] EXCEPT !.pc = label, !.slot = slot]
    BY <1>4, <1>7
  <2> QED
    BY <1>1, <2>1, <2>2 DEF Places
<1> QED
  BY <1>5, <1>6, <1>7

\* At the start nothing is known of any device.
LEMMA InitKnown == Init => Known
<1> SUFFICES ASSUME Init PROVE Known
  OBVIOUS
<1> USE SlotAssumption DEF Init
<1>1. DOMAIN slots = {}
  <2>1. DOMAIN << >> = {}
    OBVIOUS
  <2> QED
    BY <2>1
<1>2. TypeOK
  BY <1>1 DEF TypeOK, Places, Rest, Labels, Indices
<1>3. Used = 0
  BY DEF Used, At, Rest
<1>4. ProgramInv
  BY DEF ProgramInv, Rest
<1>5. BijectionInv
  BY <1>1, <1>3, FS_EmptySet DEF BijectionInv, SlotsDistinct, Indices
<1>6. CountInv /\ IosInv
  BY <1>1, <1>3 DEF CountInv, IosInv
<1> QED
  BY <1>2, <1>4, <1>5, <1>6 DEF Known, SlotInv

\* A program starts: it knows whether its device has a slot.
LEMMA LookupKnown ==
  ASSUME Alone, Known, NEW c \in Contexts, NEW prog \in Programs, NEW d \in Devices,
         Lookup(c, prog, d)
  PROVE  Known'
<1> USE SlotAssumption DEF Known, SlotInv, Lookup
<1>1. \A a \in Contexts : a = c
  BY DEF Alone
<1>2. ctx[c].pc = "out" /\ ctx'[c].pc \in {"assign", "name", "add"} /\ ctx'[c].dev = d
  BY <1>1 DEF TypeOK, Rest
<1>3. TypeOK'
  BY <1>1 DEF TypeOK, Places, Labels, Indices, Programs
<1>4. ProgramInv'
  BY <1>1 DEF ProgramInv, TypeOK, Programs
<1>5. Used' = Used
  BY <1>1, <1>2 DEF Used, At
<1>6. BijectionInv'
  BY <1>5 DEF BijectionInv, SlotsDistinct
<1>7. CountInv'
  BY <1>1, <1>2, <1>5 DEF CountInv, Handles, At
<1>8. IosInv'
  BY <1>5 DEF IosInv
<1> QED
  BY <1>3, <1>4, <1>6, <1>7, <1>8

\* Reading the next free slot: it is below MaxSlots, or the device is left out.
LEMMA ReadNextKnown ==
  ASSUME Alone, Known, NEW c \in Contexts, ReadNext(c)
  PROVE  Known'
<1> USE SlotAssumption DEF Known, SlotInv, ReadNext
<1>1. \A a \in Contexts : a = c
  BY DEF Alone
<1>2. /\ ctx[c].pc = "assign" /\ next \in Nat
      /\ ctx' \in [Contexts -> Places]
      /\ \/ ctx'[c] = Rest
         \/ /\ next < MaxSlots /\ ctx'[c].pc = "bump" /\ ctx'[c].slot = next
            /\ ctx'[c].dev = ctx[c].dev /\ ctx'[c].prog = ctx[c].prog
  BY GotoType DEF TypeOK, Labels
<1>3. TypeOK'
  BY <1>1, <1>2 DEF TypeOK, Indices, Rest
<1>4. ProgramInv'
  BY <1>1, <1>2 DEF ProgramInv, TypeOK, Rest
<1>5. Used' = Used
  BY <1>1, <1>2 DEF Used, At, Rest
<1>6. BijectionInv'
  BY <1>5 DEF BijectionInv, SlotsDistinct
<1>7. CountInv'
  BY <1>1, <1>2, <1>5 DEF CountInv, Handles, At, Rest
<1>8. IosInv'
  BY <1>5 DEF IosInv
<1> QED
  BY <1>3, <1>4, <1>6, <1>7, <1>8

\* Storing the successor: the slot is given away, and not in the map yet.
LEMMA BumpKnown ==
  ASSUME Alone, Known, NEW c \in Contexts, Bump(c)
  PROVE  Known'
<1> USE SlotAssumption DEF Known, SlotInv, Bump
<1>1. \A a \in Contexts : a = c
  BY DEF Alone
<1>2. /\ ctx[c].pc = "bump" /\ next \in Nat
      /\ ctx' \in [Contexts -> Places]
      /\ ctx'[c].pc = "insert" /\ ctx'[c].slot = ctx[c].slot
      /\ ctx'[c].dev = ctx[c].dev /\ ctx'[c].prog = ctx[c].prog
  BY GotoType DEF TypeOK, Labels
<1>3. ctx[c].slot = next /\ next \in Indices /\ next' = next + 1
  BY <1>2 DEF ProgramInv, TypeOK, Indices
<1>4. TypeOK'
  BY <1>1, <1>2, <1>3 DEF TypeOK, Indices
<1>5. ProgramInv'
  BY <1>1, <1>2, <1>3 DEF ProgramInv, TypeOK
<1>6. Used' = Used
  BY <1>1, <1>2, <1>3 DEF Used, At
<1>7. BijectionInv'
  BY <1>6 DEF BijectionInv, SlotsDistinct
<1>8. CountInv'
  BY <1>1, <1>2, <1>6 DEF CountInv, Handles, At
<1>9. IosInv'
  BY <1>6 DEF IosInv
<1> QED
  BY <1>4, <1>5, <1>7, <1>8, <1>9

\* The insert always fits: the map holds as many devices as there are used slots,
\* one fewer than have been given away.
LEMMA InsertKnown ==
  ASSUME Alone, Known, NEW c \in Contexts, Insert(c)
  PROVE  Known'
<1> USE SlotAssumption DEF Known, SlotInv
<1> SUFFICES ASSUME NEW dev, NEW slot, dev = ctx[c].dev, slot = ctx[c].slot
             PROVE  Known'
  OBVIOUS
<1>1. \A a \in Contexts : a = c
  BY DEF Alone
<1>2. ctx[c].pc = "insert" /\ slot \in Indices /\ next \in Nat /\ slot + 1 = next
      /\ dev \in Devices /\ dev \notin DOMAIN slots
  BY DEF TypeOK, Insert, ProgramInv
<1>3. Used = slot
  BY <1>1, <1>2 DEF Used, At, Indices
<1>4. Cardinality(DOMAIN slots) < MaxSlots
  BY <1>2, <1>3 DEF BijectionInv, Indices
<1>5. /\ slots' = [e \in DOMAIN slots \cup {dev} |-> IF e = dev THEN slot ELSE slots[e]]
      /\ ctx' = [ctx EXCEPT ![c].pc = "name"]
      /\ UNCHANGED <<next, name, ios, nr, visits, done>>
  BY <1>4 DEF Insert, Goto
<1>6. DOMAIN slots' = DOMAIN slots \cup {dev} /\ slots'[dev] = slot
      /\ \A e \in DOMAIN slots : slots'[e] = slots[e]
  BY <1>2, <1>5
<1>7. /\ ctx \in [Contexts -> Places]
      /\ ctx'[c].pc = "name" /\ ctx'[c].dev = dev /\ ctx'[c].slot = slot
      /\ ctx'[c].prog = ctx[c].prog
  BY <1>5 DEF TypeOK
<1>8. TypeOK'
  <2>1. ctx' \in [Contexts -> Places]
    BY <1>5, <1>7, GotoType DEF Goto, Labels
  <2>2. DOMAIN slots' \subseteq Devices /\ \A d \in DOMAIN slots' : slots'[d] \in Indices
    BY <1>2, <1>6 DEF TypeOK
  <2> QED
    BY <1>1, <1>2, <1>5, <1>7, <2>1, <2>2 DEF TypeOK
<1>9. ProgramInv'
  BY <1>1, <1>2, <1>6, <1>7 DEF ProgramInv
<1>10. Used' = slot + 1
  BY <1>1, <1>2, <1>5, <1>7 DEF Used, At
<1>11. BijectionInv'
  <2>1. \A d \in DOMAIN slots : slots[d] \in Nat /\ slots[d] < slot
    BY <1>3 DEF BijectionInv, TypeOK, Indices
  <2>2. SlotsDistinct'
    BY <1>2, <1>6, <2>1 DEF BijectionInv, SlotsDistinct, Indices
  <2>3. \A d \in DOMAIN slots' : slots'[d] < slot + 1
    BY <1>2, <1>6, <2>1 DEF Indices
  <2>4. \A i \in Indices : i < slot + 1 => \E d \in DOMAIN slots' : slots'[d] = i
    <3> SUFFICES ASSUME NEW i \in Indices, i < slot + 1 PROVE \E d \in DOMAIN slots' : slots'[d] = i
      OBVIOUS
    <3>1. CASE i = slot
      BY <1>6, <3>1
    <3>2. CASE i < slot
      <4>1. PICK d \in DOMAIN slots : slots[d] = i
        BY <1>3, <3>2 DEF BijectionInv
      <4> QED
        BY <4>1, <1>6
    <3> QED
      BY <1>2, <3>1, <3>2 DEF Indices
  <2>5. IsFiniteSet(DOMAIN slots') /\ Cardinality(DOMAIN slots') = slot + 1
    BY <1>2, <1>3, <1>6, FS_AddElement DEF BijectionInv
  <2> QED
    BY <1>10, <2>2, <2>3, <2>4, <2>5 DEF BijectionInv
<1>12. CountInv'
  <2>1. nr' <= Used' /\ slot >= nr
    BY <1>2, <1>3, <1>5, <1>10 DEF CountInv, TypeOK, Indices
  <2>2. Handles({"name"}, dev)' /\ Handles({"name", "count"}, dev)'
    BY <1>7 DEF Handles, At
  <2>3. \A d \in DOMAIN slots : name[slots[d]] = d /\ slots[d] < nr
    BY <1>1, <1>2 DEF CountInv, Handles, At
  <2> QED
    BY <1>5, <1>6, <2>1, <2>2, <2>3 DEF CountInv
<1>13. IosInv'
  <2>1. ios[slot] = 0 /\ done[dev] = 0
    BY <1>2, <1>3 DEF IosInv, Indices
  <2>2. \A i \in Indices : i >= slot + 1 => ios[i] = 0
    BY <1>2, <1>3 DEF IosInv, Indices
  <2> QED
    BY <1>5, <1>6, <1>10, <2>1, <2>2 DEF IosInv
<1> QED
  BY <1>8, <1>9, <1>11, <1>12, <1>13

\* The name goes to the device's own slot, so no other device loses its name.
LEMMA NameKnown ==
  ASSUME Alone, Known, NEW c \in Contexts, Name(c)
  PROVE  Known'
<1> USE SlotAssumption DEF Known, SlotInv
<1> SUFFICES ASSUME NEW dev, NEW slot, dev = ctx[c].dev, slot = ctx[c].slot
             PROVE  Known'
  OBVIOUS
<1>1. \A a \in Contexts : a = c
  BY DEF Alone
<1>2. /\ ctx[c].pc = "name" /\ slot \in Indices /\ dev \in DOMAIN slots /\ slots[dev] = slot
      /\ name' = [name EXCEPT ![slot] = dev]
      /\ UNCHANGED <<slots, next, ios, nr, visits, done>>
  BY DEF Name, TypeOK, ProgramInv
<1>3. /\ ctx' \in [Contexts -> Places]
      /\ ctx'[c].pc = "count" /\ ctx'[c].slot = slot
      /\ ctx'[c].dev = dev /\ ctx'[c].prog = ctx[c].prog
  BY <1>2, GotoType DEF Name, TypeOK, Labels, Indices
<1>4. TypeOK'
  BY <1>1, <1>2, <1>3 DEF TypeOK
<1>5. ProgramInv'
  BY <1>1, <1>2, <1>3 DEF ProgramInv
<1>6. Used' = Used
  BY <1>1, <1>2, <1>3 DEF Used, At
<1>7. BijectionInv'
  BY <1>2, <1>6 DEF BijectionInv, SlotsDistinct
<1>8. CountInv'
  <2>1. name'[slot] = dev /\ \A d \in DOMAIN slots : d # dev => name'[slots[d]] = name[slots[d]]
    BY <1>2 DEF TypeOK, BijectionInv, SlotsDistinct
  <2>2. \A d \in DOMAIN slots : d # dev => name[slots[d]] = d /\ slots[d] < nr
    BY <1>1, <1>2 DEF CountInv, Handles, At
  <2>3. Handles({"name", "count"}, dev)'
    BY <1>3 DEF Handles, At
  <2> QED
    BY <1>2, <1>6, <2>1, <2>2, <2>3 DEF CountInv
<1>9. IosInv'
  BY <1>2, <1>6 DEF IosInv
<1> QED
  BY <1>4, <1>5, <1>7, <1>8, <1>9

\* Raising the count to the slots given away, or past the device's own slot, takes in
\* slots that have their names, and all of them.
LEMMA CountKnown ==
  ASSUME Alone, Known, NEW c \in Contexts, CountShow(c) \/ CountComplete(c)
  PROVE  Known'
<1> USE SlotAssumption DEF Known, SlotInv
<1> SUFFICES ASSUME NEW dev, NEW slot, dev = ctx[c].dev, slot = ctx[c].slot
             PROVE  Known'
  OBVIOUS
<1>1. \A a \in Contexts : a = c
  BY DEF Alone
<1>2. /\ ctx[c].pc = "count" /\ slot \in Indices /\ dev \in DOMAIN slots /\ slots[dev] = slot
      /\ UNCHANGED <<slots, next, name, ios, visits, done>>
  BY DEF CountShow, CountComplete, TypeOK, ProgramInv
<1>3. /\ ctx' \in [Contexts -> Places]
      /\ \/ ctx'[c] = Rest
         \/ /\ ctx'[c].pc = "add" /\ ctx'[c].slot = slot
            /\ ctx'[c].dev = dev /\ ctx'[c].prog = ctx[c].prog
  BY <1>2, GotoType DEF CountShow, CountComplete, TypeOK, Labels, Indices
<1>4. Used = next /\ Used' = next /\ next \in 0 .. MaxSlots /\ nr \in 0 .. MaxSlots /\ slot < next
  BY <1>1, <1>2, <1>3 DEF Used, At, Rest, TypeOK, BijectionInv
<1>5. nr' \in 0 .. MaxSlots /\ nr' <= next /\ nr <= nr' /\ slot < nr'
  BY <1>2, <1>4 DEF CountShow, CountComplete, CountInv, Indices
<1>6. TypeOK'
  BY <1>1, <1>2, <1>3, <1>5 DEF TypeOK, Rest
<1>7. ProgramInv'
  BY <1>1, <1>2, <1>3 DEF ProgramInv, Rest
<1>8. BijectionInv'
  BY <1>2, <1>4 DEF BijectionInv, SlotsDistinct
<1>9. CountInv'
  <2>1. \A d \in DOMAIN slots : name[slots[d]] = d
    BY <1>1, <1>2 DEF CountInv, Handles, At
  <2>2. \A d \in DOMAIN slots : slots[d] < nr \/ d = dev
    BY <1>1 DEF CountInv, Handles, At
  <2>3. ASSUME NEW d \in DOMAIN slots PROVE slots[d] < nr'
    <3>1. slots[d] \in Nat
      BY DEF TypeOK, Indices
    <3>2. CASE d = dev
      BY <1>2, <1>5, <3>2
    <3>3. CASE slots[d] < nr
      <4> HIDE DEF Known, SlotInv
      <4> QED
        BY <1>4, <1>5, <3>1, <3>3
    <3> QED
      BY <2>2, <3>2, <3>3
  <2> QED
    BY <1>2, <1>4, <1>5, <2>1, <2>3 DEF CountInv
<1>10. IosInv'
  BY <1>2, <1>4 DEF IosInv
<1> QED
  BY <1>6, <1>7, <1>8, <1>9, <1>10

\* A completion is added to the counter of its own device's slot.
LEMMA AddKnown ==
  ASSUME Alone, Known, NEW c \in Contexts, Add(c)
  PROVE  Known'
<1> USE SlotAssumption DEF Known, SlotInv
<1> SUFFICES ASSUME NEW dev, NEW slot, dev = ctx[c].dev, slot = ctx[c].slot
             PROVE  Known'
  OBVIOUS
<1>1. \A a \in Contexts : a = c
  BY DEF Alone
<1>2. /\ ctx[c].pc = "add" /\ slot \in Indices /\ dev \in DOMAIN slots /\ slots[dev] = slot
      /\ dev \in Devices
      /\ ios' = [ios EXCEPT ![slot] = @ + 1] /\ done' = [done EXCEPT ![dev] = @ + 1]
      /\ UNCHANGED <<slots, next, name, nr, visits>>
  BY DEF Add, TypeOK, ProgramInv
<1>3. ctx' \in [Contexts -> Places] /\ ctx'[c] = Rest
  BY <1>2, GotoType DEF Add, TypeOK, Labels, Indices
<1>4. TypeOK'
  BY <1>1, <1>2, <1>3 DEF TypeOK, Rest
<1>5. ProgramInv'
  BY <1>1, <1>2, <1>3 DEF ProgramInv, Rest
<1>6. Used' = Used /\ Used = next
  BY <1>1, <1>2, <1>3 DEF Used, At, Rest
<1>7. BijectionInv'
  BY <1>2, <1>6 DEF BijectionInv, SlotsDistinct
<1>8. CountInv'
  BY <1>1, <1>2, <1>3, <1>6 DEF CountInv, Handles, At, Rest
<1>9. IosInv'
  <2>1. \A d \in DOMAIN slots : slots[d] \in Indices /\ d \in Devices /\ slots[d] < next
    BY <1>6 DEF TypeOK, BijectionInv
  <2>2. \A d \in DOMAIN slots : ios'[slots[d]] = done'[d]
    BY <1>2, <2>1 DEF TypeOK, IosInv, BijectionInv, SlotsDistinct
  <2>3. \A d \in Devices \ DOMAIN slots : done'[d] = 0
    BY <1>2 DEF TypeOK, IosInv
  <2>4. \A i \in Indices : i >= next => ios'[i] = 0
    <3>1. slot < next /\ slot \in Nat /\ next \in Nat
      BY <1>2, <2>1 DEF Indices, TypeOK
    <3> QED
      BY <1>2, <1>6, <3>1 DEF TypeOK, IosInv, Indices
  <2> QED
    BY <1>2, <1>6, <2>2, <2>3, <2>4 DEF IosInv
<1> QED
  BY <1>4, <1>5, <1>7, <1>8, <1>9

(***************************************************************************)
(* The theorems.                                                           *)
(***************************************************************************)

\* Where programs do not overlap, the types and the invariant hold in every state.
THEOREM SlotInvariant ==
  ASSUME Alone
  PROVE  Spec => [](TypeOK /\ SlotInv)
<1>1. Init => Known
  BY InitKnown
<1>2. Known /\ [Next]_vars => Known'
  <2>1. Known /\ UNCHANGED vars => Known'
    BY DEF Known, vars, TypeOK, SlotInv, ProgramInv, BijectionInv, SlotsDistinct, CountInv, IosInv,
           Used, At, Handles
  <2>2. Known /\ Next => Known'
    BY LookupKnown, ReadNextKnown, BumpKnown, InsertKnown, NameKnown, CountKnown, AddKnown DEF Next
  <2> QED
    BY <2>1, <2>2
<1> QED
  BY <1>1, <1>2, PTL DEF Spec, Known

\* No index leaves the array, whatever the number of devices.
THEOREM TypeCorrect ==
  ASSUME Alone
  PROVE  Spec => []TypeOK
BY SlotInvariant, PTL

\* "For updating the right slot": no two devices share one.
THEOREM Distinct ==
  ASSUME Alone
  PROVE  Spec => []SlotsDistinct
<1>1. SlotInv => SlotsDistinct
  BY DEF SlotInv, BijectionInv
<1> QED
  BY <1>1, SlotInvariant, PTL

\* What is below the count has its device's name, and in the end every device that
\* has a slot is below it.
THEOREM Counted ==
  ASSUME Alone
  PROVE  Spec => []CountMatchesNames
<1>1. TypeOK /\ SlotInv => CountMatchesNames
  <2> SUFFICES ASSUME TypeOK, SlotInv PROVE CountMatchesNames
    OBVIOUS
  <2> USE SlotAssumption DEF SlotInv
  <2>1. \A i \in 0 .. nr - 1 : i \in Indices /\ i < Used
    BY DEF TypeOK, CountInv, Indices, Used
  <2>2. \A i \in 0 .. nr - 1 : \E d \in DOMAIN slots : slots[d] = i /\ name[i] = d
    <3> SUFFICES ASSUME NEW i \in 0 .. nr - 1
                 PROVE  \E d \in DOMAIN slots : slots[d] = i /\ name[i] = d
      OBVIOUS
    <3>1. PICK d \in DOMAIN slots : slots[d] = i
      BY <2>1 DEF BijectionInv
    <3>2. name[i] = d
      BY <3>1 DEF CountInv, TypeOK
    <3> QED
      BY <3>1, <3>2
  <2>3. (\A c \in Contexts : ctx[c] = Rest) => \A d \in DOMAIN slots : slots[d] < nr
    BY DEF CountInv, Handles, At, Rest
  <2> QED
    BY <2>2, <2>3 DEF CountMatchesNames
<1> QED
  BY <1>1, SlotInvariant, PTL

\* A disk's counter holds what was completed on it.
THEOREM Booked ==
  ASSUME Alone
  PROVE  Spec => []IosRight
<1>1. TypeOK /\ SlotInv => IosRight
  <2> SUFFICES ASSUME TypeOK, SlotInv, NEW i \in Indices, ios[i] # 0
               PROVE  \E d \in DOMAIN slots : slots[d] = i /\ ios[i] = done[d]
    BY DEF IosRight
  <2> USE SlotAssumption DEF SlotInv
  <2>1. i < Used
    BY DEF TypeOK, IosInv, Indices, Used
  <2>2. PICK d \in DOMAIN slots : slots[d] = i
    BY <2>1 DEF BijectionInv
  <2> QED
    BY <2>2 DEF IosInv
<1> QED
  BY <1>1, SlotInvariant, PTL

(***************************************************************************)
(* Programs that overlap.                                                  *)
(***************************************************************************)

\* The part of the types that holds then, and who may be about to add to a counter.
OverlapTyped ==
  /\ DOMAIN slots \subseteq Devices
  /\ ctx \in [Contexts -> Places]
  /\ next \in Nat /\ nr \in Nat
  /\ \A c \in Contexts : ctx[c].pc # "out" => ctx[c].dev \in Devices /\ ctx[c].prog \in Programs
  /\ \A c \in Contexts :
       ctx[c].pc \in {"name", "count"} /\ ctx[c].prog = "complete" => ctx[c].dev \in DOMAIN slots

Overlap == OverlapTyped /\ OverlapInv

\* Contexts at the increment: no more than there are.
LEMMA AtBump ==
  ASSUME IsFiniteSet(Contexts), NEW S \in SUBSET Contexts
  PROVE  /\ IsFiniteSet(S) /\ Cardinality(S) \in Nat /\ Cardinality(Contexts) \in Nat
         /\ Cardinality(S) <= Cardinality(Contexts)
         /\ \A c \in S : Cardinality(S \ {c}) = Cardinality(S) - 1
<1>1. IsFiniteSet(S) /\ Cardinality(S) <= Cardinality(Contexts)
  BY FS_Subset
<1>2. Cardinality(S) \in Nat /\ Cardinality(Contexts) \in Nat
  BY <1>1, FS_CardinalityType
<1>3. \A c \in S : Cardinality(S \ {c}) = Cardinality(S) - 1
  BY <1>1, FS_RemoveElement
<1> QED
  BY <1>1, <1>2, <1>3

LEMMA OverlapInit ==
  ASSUME IsFiniteSet(Contexts), Contexts # {}, Init
  PROVE  Overlap
<1>1. At({"bump"}) = {} /\ Cardinality({}) = 0
  BY FS_EmptySet DEF Init, At, Rest
<1>2. Cardinality(Contexts) \in Nat /\ Cardinality(Contexts) # 0
  BY FS_EmptySet, FS_CardinalityType
<1>3. OverlapTyped
  BY DEF Init, OverlapTyped, Places, Rest, Labels
<1>4. \A a \in Contexts : ctx[a].pc = "out"
  BY DEF Init, Rest
<1>5. DOMAIN slots = {} /\ next = 0 /\ nr = 0
  BY DEF Init
<1>6. Cardinality(At({"bump"})) = 0
  BY <1>1
<1> QED
  BY <1>2, <1>3, <1>4, <1>5, <1>6, SlotAssumption DEF OverlapInv, Overlap

\* A step that moves one context and leaves it outside the increment.
LEMMA BumpersKept ==
  ASSUME IsFiniteSet(Contexts), NEW c \in Contexts, \A a \in Contexts \ {c} : ctx'[a] = ctx[a],
         ctx'[c].pc # "bump"
  PROVE  /\ Cardinality(At({"bump"})') \in Nat /\ Cardinality(At({"bump"})) \in Nat
         /\ Cardinality(At({"bump"})') <= Cardinality(At({"bump"}))
         /\ ctx[c].pc = "bump" => Cardinality(At({"bump"})') = Cardinality(At({"bump"})) - 1
<1> DEFINE B == At({"bump"})
<1>1. B \in SUBSET Contexts /\ B \ {c} \in SUBSET Contexts
  BY DEF At
<1>2. At({"bump"})' = B \ {c}
  BY DEF At
<1>3. ctx[c].pc = "bump" <=> c \in B
  BY DEF At
<1>4. At({"bump"}) = B
  OBVIOUS
<1> HIDE DEF B
<1>5. Cardinality(B) \in Nat /\ Cardinality(B \ {c}) \in Nat
  BY <1>1, AtBump
<1>6. c \in B => Cardinality(B \ {c}) = Cardinality(B) - 1
  BY <1>1, AtBump
<1>7. c \notin B => B \ {c} = B
  OBVIOUS
<1>8. Cardinality(B \ {c}) <= Cardinality(B)
  BY <1>5, <1>6, <1>7
<1> QED
  BY <1>2, <1>3, <1>4, <1>5, <1>6, <1>8

\* Where a step may move a context.
LEMMA OverlapMove ==
  ASSUME Overlap, NEW c \in Contexts, NEW place \in Places,
         ctx' = [ctx EXCEPT ![c] = place],
         DOMAIN slots \subseteq DOMAIN slots', DOMAIN slots' \subseteq Devices,
         \A d \in DOMAIN slots' : slots'[d] \in Indices,
         next' \in Nat, nr' \in Nat,
         place.pc # "out" => place.dev \in Devices /\ place.prog \in Programs,
         place.pc \in {"name", "count"} /\ place.prog = "complete" => place.dev \in DOMAIN slots',
         place.pc \notin {"out", "assign"} => place.slot \in Indices,
         next' + Cardinality(At({"bump"})') < MaxSlots + Cardinality(Contexts),
         nr' < MaxSlots + Cardinality(Contexts)
  PROVE  Overlap'
<1>1. ctx' \in [Contexts -> Places] /\ ctx'[c] = place /\ \A a \in Contexts \ {c} : ctx'[a] = ctx[a]
  BY DEF Overlap, OverlapTyped
<1>2. OverlapTyped'
  BY <1>1 DEF Overlap, OverlapTyped
<1>3. \A a \in Contexts : ctx'[a].pc \notin {"out", "assign"} => ctx'[a].slot \in Indices
  BY <1>1 DEF Overlap, OverlapInv
<1> QED
  BY <1>2, <1>3 DEF Overlap, OverlapInv

\* Each program's step, whoever else is under way.
LEMMA OverlapStep ==
  ASSUME IsFiniteSet(Contexts), Overlap, NEW c \in Contexts,
         \/ \E prog \in Programs, d \in Devices : Lookup(c, prog, d)
         \/ ReadNext(c) \/ Bump(c) \/ Insert(c)
         \/ Name(c) \/ CountShow(c) \/ CountComplete(c)
         \/ Add(c)
  PROVE  Overlap'
<1> SUFFICES ASSUME NEW limit, limit = MaxSlots + Cardinality(Contexts),
                    NEW B, B = Cardinality(At({"bump"})), NEW q, q = ctx[c]
             PROVE  Overlap'
  OBVIOUS
<1> USE SlotAssumption
<1>1. /\ limit \in Nat /\ next \in Nat /\ nr \in Nat /\ MaxSlots < limit
      /\ next + B < limit /\ nr < limit /\ B \in Nat /\ B <= Cardinality(Contexts)
  <2>1. At({"bump"}) \in SUBSET Contexts
    BY DEF At
  <2>2. B \in Nat /\ Cardinality(Contexts) \in Nat /\ B <= Cardinality(Contexts)
    BY <2>1, AtBump
  <2>3. Cardinality(Contexts) # 0
    BY FS_EmptySet
  <2> QED
    BY <2>2, <2>3 DEF Overlap, OverlapTyped, OverlapInv
<1>2. /\ q \in Places /\ q.pc \in Labels /\ q.slot \in Nat
      /\ q.dev \in Devices \cup {Nobody} /\ q.prog \in Programs \cup {"none"}
      /\ q = [prog |-> q.prog, pc |-> q.pc, dev |-> q.dev, slot |-> q.slot]
      /\ q.pc # "out" => q.dev \in Devices /\ q.prog \in Programs
      /\ q.pc \in {"name", "count"} /\ q.prog = "complete" => q.dev \in DOMAIN slots
      /\ q.pc \notin {"out", "assign"} => q.slot \in Indices
      /\ ctx \in [Contexts -> Places]
      /\ DOMAIN slots \subseteq Devices /\ \A d \in DOMAIN slots : slots[d] \in Indices
  BY DEF Overlap, OverlapTyped, OverlapInv, Places
\* Who does not go to the increment leaves the counter where it may be.
<1>3. ASSUME NEW place \in Places, ctx' = [ctx EXCEPT ![c] = place], place.pc # "bump",
             next' \in Nat, next' <= next \/ (q.pc = "bump" /\ next' <= next + 1)
      PROVE  next' + Cardinality(At({"bump"})') < MaxSlots + Cardinality(Contexts)
  <2>1. \A a \in Contexts \ {c} : ctx'[a] = ctx[a]
    BY <1>3
  <2>2. ctx'[c].pc # "bump"
    BY <1>2, <1>3
  <2>3. /\ Cardinality(At({"bump"})') \in Nat /\ Cardinality(At({"bump"})') <= B
        /\ q.pc = "bump" => Cardinality(At({"bump"})') = B - 1
    BY <2>1, <2>2, BumpersKept
  <2>4. next' + Cardinality(At({"bump"})') < limit
    BY <1>1, <1>3, <2>3
  <2> QED
    BY <2>4
\* A step that touches neither the map nor the counter.
<1>12. ASSUME NEW place \in Places, ctx' = [ctx EXCEPT ![c] = place], slots' = slots, next' = next,
              nr' \in Nat, nr' < limit, place.pc # "bump",
              place.pc # "out" => place.dev \in Devices /\ place.prog \in Programs,
              place.pc \in {"name", "count"} /\ place.prog = "complete" => place.dev \in DOMAIN slots,
              place.pc \notin {"out", "assign"} => place.slot \in Indices
       PROVE  Overlap'
  <2>0. next' \in Nat /\ next' <= next
    BY <1>1, <1>12
  <2>1. next' + Cardinality(At({"bump"})') < MaxSlots + Cardinality(Contexts)
    BY <1>3, <1>12, <2>0
  <2>2. nr' < MaxSlots + Cardinality(Contexts)
    BY <1>12
  <2>3. /\ DOMAIN slots \subseteq DOMAIN slots' /\ DOMAIN slots' \subseteq Devices
        /\ \A d \in DOMAIN slots' : slots'[d] \in Indices
        /\ next' \in Nat
    BY <1>1, <1>2, <1>12
  <2>4. place.pc \in {"name", "count"} /\ place.prog = "complete" => place.dev \in DOMAIN slots'
    BY <1>12
  <2> QED
    BY <1>12, <2>1, <2>2, <2>3, <2>4, OverlapMove
<1>13. Rest \in Places /\ Rest.pc = "out"
  BY DEF Rest, Places, Labels
<1>4. ASSUME NEW prog \in Programs, NEW d \in Devices, Lookup(c, prog, d)
      PROVE  Overlap'
  <2> DEFINE place == IF d \notin DOMAIN slots
                        THEN [prog |-> prog, pc |-> "assign", dev |-> d, slot |-> 0]
                        ELSE [prog |-> prog, pc |-> IF prog = "show" THEN "name" ELSE "add",
                              dev |-> d, slot |-> slots[d]]
  <2>1. place \in Places
    BY <1>2 DEF Places, Labels, Indices
  <2>2. /\ place.pc \notin {"bump", "out"} /\ place.dev = d /\ place.prog = prog
        /\ place.pc # "assign" => place.slot \in Indices
        /\ place.pc \in {"name", "count"} => d \in DOMAIN slots
    BY <1>2
  <2>3. ctx' = [ctx EXCEPT ![c] = place] /\ UNCHANGED <<slots, next, nr>>
    BY <1>4 DEF Lookup
  <2> HIDE DEF place
  <2> QED
    BY <1>1, <1>12, <2>1, <2>2, <2>3
<1>5. CASE ReadNext(c)
  <2>1. CASE next >= MaxSlots
    <3>1. ctx' = [ctx EXCEPT ![c] = Rest] /\ UNCHANGED <<slots, next, nr>>
      BY <1>5, <2>1 DEF ReadNext, Return
    <3> QED
      BY <1>1, <1>12, <1>13, <3>1
  <2>2. CASE ~ (next >= MaxSlots)
    <3> DEFINE place == [q EXCEPT !.pc = "bump", !.slot = next]
    <3>1. ctx' = [ctx EXCEPT ![c] = place] /\ UNCHANGED <<slots, next, nr>>
      BY <1>5, <2>2 DEF ReadNext, GotoWith
    <3>2. /\ place \in Places /\ place.pc = "bump" /\ place.slot = next
          /\ place.dev = q.dev /\ place.prog = q.prog /\ q.pc = "assign"
      BY <1>1, <1>2, <1>5 DEF Places, Labels, ReadNext
    <3>3. next \in Indices /\ next < MaxSlots
      BY <1>1, <2>2 DEF Indices
    <3>4. At({"bump"})' \in SUBSET Contexts
      BY DEF At
    <3>5. Cardinality(At({"bump"})') \in Nat /\ Cardinality(At({"bump"})') <= Cardinality(Contexts)
          /\ Cardinality(Contexts) \in Nat
      BY <3>4, AtBump
    <3>7. next' + Cardinality(At({"bump"})') < MaxSlots + Cardinality(Contexts)
      BY <1>1, <3>1, <3>3, <3>5
    <3>8. nr' < MaxSlots + Cardinality(Contexts)
      BY <1>1, <3>1
    <3> HIDE DEF place
    <3>9. /\ DOMAIN slots \subseteq DOMAIN slots' /\ DOMAIN slots' \subseteq Devices
          /\ \A d \in DOMAIN slots' : slots'[d] \in Indices
          /\ next' \in Nat /\ nr' \in Nat
      BY <1>1, <1>2, <3>1
    <3> QED
      BY <1>2, <3>1, <3>2, <3>3, <3>7, <3>8, <3>9, OverlapMove
  <2> QED
    BY <2>1, <2>2
<1>6. CASE Bump(c)
  <2> DEFINE place == [q EXCEPT !.pc = "insert"]
  <2>1. ctx' = [ctx EXCEPT ![c] = place] /\ UNCHANGED <<slots, nr>>
    BY <1>6 DEF Bump, Goto
  <2>2. /\ place \in Places /\ place.pc = "insert" /\ place.slot = q.slot
        /\ place.dev = q.dev /\ place.prog = q.prog /\ q.pc = "bump"
    BY <1>2, <1>6 DEF Places, Labels, Bump
  <2>3. next' \in {q.slot + 1, next + 1} /\ next' \in Nat
    BY <1>1, <1>2, <1>6 DEF Bump
  <2> HIDE DEF place
  <2>4. next' + Cardinality(At({"bump"})') < MaxSlots + Cardinality(Contexts)
    <3>1. CASE next' = next + 1
      <4>1. q.pc = "bump" /\ next' <= next + 1
        BY <1>1, <2>2, <3>1
      <4> QED
        BY <1>3, <2>1, <2>2, <2>3, <4>1
    <3>2. CASE next' = q.slot + 1
      <4>1. next' <= MaxSlots
        BY <1>2, <2>2, <3>2 DEF Indices
      <4>2. \A a \in Contexts \ {c} : ctx'[a] = ctx[a]
        BY <2>1
      <4>3. ctx'[c].pc # "bump"
        BY <1>2, <2>1, <2>2
      <4>4. Cardinality(At({"bump"})') = B - 1
        BY <2>2, <4>2, <4>3, BumpersKept
      <4>5. next' + Cardinality(At({"bump"})') < limit
        <5>1. Cardinality(Contexts) \in Nat
          BY AtBump
        <5> QED
          BY <1>1, <2>3, <4>1, <4>4, <5>1
      <4> QED
        BY <4>5
    <3> QED
      BY <2>3, <3>1, <3>2
  <2>5. nr' < MaxSlots + Cardinality(Contexts)
    BY <1>1, <2>1
  <2>6. /\ DOMAIN slots \subseteq DOMAIN slots' /\ DOMAIN slots' \subseteq Devices
        /\ \A d \in DOMAIN slots' : slots'[d] \in Indices
        /\ next' \in Nat /\ nr' \in Nat
    BY <1>1, <1>2, <2>1, <2>3
  <2> QED
    BY <1>2, <2>1, <2>2, <2>4, <2>5, <2>6, OverlapMove
<1>7. CASE Insert(c)
  <2> DEFINE d == q.dev
             fits == d \in DOMAIN slots \/ Cardinality(DOMAIN slots) < MaxSlots
  <2>1. d \in Devices /\ q.slot \in Indices /\ q.pc = "insert" /\ q.prog \in Programs
    BY <1>2, <1>7 DEF Insert
  <2>2. /\ DOMAIN slots \subseteq DOMAIN slots' /\ DOMAIN slots' \subseteq Devices
        /\ \A e \in DOMAIN slots' : slots'[e] \in Indices
        /\ fits => d \in DOMAIN slots'
    BY <1>2, <1>7, <2>1 DEF Insert
  <2>3. UNCHANGED <<next, nr>> /\ IF fits \/ q.prog = "show" THEN Goto(c, "name") ELSE Return(c)
    BY <1>7 DEF Insert
  <2> HIDE DEF fits, d
  <2>6. /\ nr' < MaxSlots + Cardinality(Contexts)
        /\ next' \in Nat /\ nr' \in Nat /\ next' <= next
    BY <1>1, <2>3
  <2>4. CASE fits \/ q.prog = "show"
    <3> DEFINE place == [q EXCEPT !.pc = "name"]
    <3>1. ctx' = [ctx EXCEPT ![c] = place]
      BY <2>3, <2>4 DEF Goto
    <3>2. /\ place \in Places /\ place.pc = "name" /\ place.slot = q.slot
          /\ place.dev = q.dev /\ place.prog = q.prog
      BY <1>2 DEF Places, Labels
    <3> HIDE DEF place
    <3>3. place.prog = "complete" => place.dev \in DOMAIN slots'
      BY <2>2, <2>4, <3>2 DEF d
    <3>4. next' + Cardinality(At({"bump"})') < MaxSlots + Cardinality(Contexts)
      BY <1>3, <2>6, <3>1, <3>2
    <3> QED
      BY <1>2, <2>1, <2>2, <2>6, <3>1, <3>2, <3>3, <3>4, OverlapMove
  <2>5. CASE ~ (fits \/ q.prog = "show")
    <3>1. ctx' = [ctx EXCEPT ![c] = Rest]
      BY <2>3, <2>5 DEF Return
    <3>4. next' + Cardinality(At({"bump"})') < MaxSlots + Cardinality(Contexts)
      BY <1>3, <1>13, <2>6, <3>1
    <3> QED
      BY <1>13, <2>2, <2>6, <3>1, <3>4, OverlapMove
  <2> QED
    BY <2>4, <2>5
<1>8. CASE Name(c)
  <2> DEFINE place == [q EXCEPT !.pc = "count"]
  <2>1. ctx' = [ctx EXCEPT ![c] = place] /\ UNCHANGED <<slots, next, nr>>
    BY <1>8 DEF Name, Goto
  <2>2. /\ place \in Places /\ place.pc = "count" /\ place.slot = q.slot
        /\ place.dev = q.dev /\ place.prog = q.prog /\ q.pc = "name"
    BY <1>2, <1>8 DEF Places, Labels, Name
  <2> HIDE DEF place
  <2> QED
    BY <1>1, <1>2, <1>12, <2>1, <2>2
<1>9. CASE CountShow(c)
  <2>1. ctx' = [ctx EXCEPT ![c] = Rest] /\ UNCHANGED <<slots, next>>
    BY <1>9 DEF CountShow, Return
  <2>3. nr' \in {next, nr} /\ nr' < limit /\ nr' \in Nat
    BY <1>1, <1>9 DEF CountShow
  <2> QED
    BY <1>12, <1>13, <2>1, <2>3
<1>10. CASE CountComplete(c)
  <2> DEFINE place == [q EXCEPT !.pc = "add", !.slot = slots[q.dev]]
  <2>0. q.pc = "count" /\ q.prog = "complete" /\ q.dev \in DOMAIN slots /\ slots[q.dev] \in Indices
    BY <1>2, <1>10 DEF CountComplete
  <2>1. ctx' = [ctx EXCEPT ![c] = place] /\ UNCHANGED <<slots, next>>
    BY <1>10 DEF CountComplete, GotoWith
  <2>2. /\ place \in Places /\ place.pc = "add" /\ place.slot = slots[q.dev]
        /\ place.dev = q.dev /\ place.prog = q.prog
    <3>1. slots[q.dev] \in Nat
      BY <2>0 DEF Indices
    <3> QED
      BY <1>2, <3>1 DEF Places, Labels
  <2>3. nr' \in {q.slot + 1, nr} /\ q.slot + 1 <= MaxSlots
    BY <1>2, <1>10, <2>0 DEF CountComplete, Indices
  <2>4. nr' < limit /\ nr' \in Nat
    BY <1>1, <1>2, <2>3
  <2> HIDE DEF place
  <2> QED
    BY <1>2, <1>12, <2>0, <2>1, <2>2, <2>4
<1>11. CASE Add(c)
  <2>1. ctx' = [ctx EXCEPT ![c] = Rest] /\ UNCHANGED <<slots, next, nr>>
    BY <1>11 DEF Add, Return
  <2> QED
    BY <1>1, <1>12, <1>13, <2>1
<1> QED
  BY <1>4, <1>5, <1>6, <1>7, <1>8, <1>9, <1>10, <1>11

\* In any number of contexts the programs stay inside of the array, and a count beyond
\* it is beyond by less than that number.
THEOREM OverlapInvariant ==
  ASSUME IsFiniteSet(Contexts), Contexts # {}
  PROVE  Spec => []OverlapInv
<1>1. Init => Overlap
  BY OverlapInit
<1>2. Overlap /\ [Next]_vars => Overlap'
  <2>1. Overlap /\ UNCHANGED vars => Overlap'
    BY DEF vars, Overlap, OverlapTyped, OverlapInv, At
  <2>2. Overlap /\ Next => Overlap'
    BY OverlapStep DEF Next
  <2> QED
    BY <2>1, <2>2
<1>3. Overlap => OverlapInv
  BY DEF Overlap
<1> QED
  BY <1>1, <1>2, <1>3, PTL DEF Spec
=============================================================================

------------------------------ MODULE Snapshot ------------------------------
(***************************************************************************)
(* What the mmapped maps of procfast promise their readers, with the       *)
(* seqlock abstracted away: a region that changes in one step, and a read  *)
(* that returns, in one step, the whole region as it is at that moment.    *)
(***************************************************************************)
EXTENDS Naturals

CONSTANTS
  Readers,   \* the processes that call snapshot()
  Words      \* the 8-byte words of the region, the sequence counter excluded

VARIABLES
  current,   \* the region as it was last published
  got        \* what each reader's last snapshot() returned

vars == <<current, got>>

Regions == [Words -> Nat]
Zeroed  == [w \in Words |-> 0]

Init ==
  /\ current = Zeroed
  /\ got = [r \in Readers |-> Zeroed]

Publish ==
  /\ current' \in Regions
  /\ UNCHANGED got

Read(r) ==
  /\ got' = [got EXCEPT ![r] = current]
  /\ UNCHANGED current

Next == Publish \/ \E r \in Readers : Read(r)

Spec == Init /\ [][Next]_vars
=============================================================================

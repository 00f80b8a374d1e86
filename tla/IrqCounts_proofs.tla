-------------------------- MODULE IrqCounts_proofs --------------------------
(***************************************************************************)
(* The interrupt counters, for any CPUs, keys and capacity: what the       *)
(* programs have seen is counted but for one interrupt per key and CPU,    *)
(* and what is counted has a name.                                         *)
(***************************************************************************)
EXTENDS IrqCounts, Sums, TLAPS

\* The CPUs with a column are CPUs, and None is no key.
LEMMA Constants ==
  /\ Online \subseteq Cpus
  /\ NrCpus \in Nat /\ None \notin Keys
  /\ \A i \in Nat : i < Len(Columns) => Columns[i + 1] \in Online
<1>1. Columns \in Seq(Cpus) /\ Len(Columns) \in Nat
  BY IrqAssumption
<1> QED
  BY <1>1, IrqAssumption DEF Online

\* A context is a CPU and a level.
LEMMA ContextParts ==
  ASSUME NEW x \in Contexts
  PROVE  x[1] \in Online /\ x[1] \in Cpus /\ x[2] \in Levels /\ x = <<x[1], x[2]>>
BY Constants DEF Contexts

\* A program that is under way has a key of its level.
LEMMA KeyOfProgram ==
  ASSUME TypeOK, NEW x \in Contexts, ctx[x].pc # "idle"
  PROVE  Key(x) \in Keys /\ Key(x) \in KeysOf(Level(x))
BY DEF TypeOK, Keys, KeysOf

\* The file, once read, gives each CPU of the array a number.
LEMMA FromFileType ==
  ASSUME TypeOK, NEW k \in Hard, SeedCounts(k)
  PROVE  FromFile(k) \in [Cpus -> Nat]
<1>1. DOMAIN file = Hard \X Online /\ file \in [DOMAIN file -> Nat]
  BY DEF SeedCounts, TypeOK
<1>2. ASSUME NEW i \in Cpus, i < Len(Columns)
      PROVE  file[<<k, Columns[i + 1]>>] \in Nat
  <2>1. Columns[i + 1] \in Online
    BY <1>2, Constants DEF Cpus
  <2> QED
    BY <1>1, <2>1
<1> QED
  BY <1>2 DEF FromFile

\* Every variable keeps its type.
THEOREM TypeCorrect == Spec => []TypeOK
<1> USE Constants
<1>1. Init => TypeOK
  <2> SUFFICES ASSUME Init PROVE TypeOK
    OBVIOUS
  <2>1. DOMAIN counts = {} /\ DOMAIN file = {}
    BY DEF Init
  <2>2. kstat \in [Keys -> [Cpus -> Nat]]
    BY DEF Init
  <2>3. Zeroes \in [Cpus -> Nat]
    BY DEF Zeroes
  <2> QED
    BY <2>1, <2>2, <2>3 DEF Init, TypeOK, Idle, Labels
<1>2. TypeOK /\ [Next]_vars => TypeOK'
  <2> SUFFICES ASSUME TypeOK, [Next]_vars PROVE TypeOK'
    OBVIOUS
  <2>1. CASE UNCHANGED vars
    BY <2>1 DEF vars, kernelVars, mapVars, loaderVars, readerVars, TypeOK, Key
  <2>2. ASSUME NEW c \in Online, NEW level \in Levels, NEW k \in KeysOf(level), Raise(c, level, k)
        PROVE  TypeOK'
    <3>1. k \in Keys /\ c \in Cpus /\ <<c, level>> \in Contexts
      BY DEF KeysOf, Keys, Contexts
    <3>2. kstat' \in [Keys -> [Cpus -> Nat]]
      <4>1. kstat \in [Keys -> [Cpus -> Nat]] /\ kstat[k][c] + 1 \in Nat
        BY <3>1 DEF TypeOK
      <4>2. kstat' = [kstat EXCEPT ![k][c] = kstat[k][c] + 1]
        BY <2>2 DEF Raise
      <4> QED
        BY <3>1, <4>1, <4>2
    <3>3. /\ ctx' \in [Contexts -> [pc : Labels, key : Keys \cup {None}]]
          /\ \A x \in Contexts :
               /\ ctx'[x].pc = "idle" \/ ctx'[x].key \in KeysOf(x[2])
               /\ ctx'[x].pc = "meta" => x[2] = "hard"
      BY <2>2, <3>1 DEF Raise, TypeOK, Labels, Key, Level
    <3> QED
      BY <2>2, <3>2, <3>3 DEF Raise, TypeOK, mapVars, loaderVars, readerVars, Key, Level
  <2>3. ASSUME NEW x \in Contexts, Program(x) PROVE TypeOK'
    <3> DEFINE c == x[1]  k == Key(x)
    <3>1. c \in Cpus /\ k \in Keys /\ k \in KeysOf(Level(x)) /\ Level(x) \in Levels
      BY <2>3, KeyOfProgram, ContextParts
         DEF Program, NotHooked, Found, Missing, Seen, InsertCount, LookupMeta, InsertMeta, At, Level
    <3>2. ASSUME NEW label \in Labels, Goto(x, label), label = "meta" => Level(x) = "hard"
          PROVE  /\ ctx' \in [Contexts -> [pc : Labels, key : Keys \cup {None}]]
                 /\ \A y \in Contexts :
                      /\ ctx'[y].pc = "idle" \/ ctx'[y].key \in KeysOf(y[2])
                      /\ ctx'[y].pc = "meta" => y[2] = "hard"
      <4> DEFINE next == [ctx[x] EXCEPT !.pc = label]
      <4>1. ctx \in [Contexts -> [pc : Labels, key : Keys \cup {None}]]
        BY DEF TypeOK
      <4>2. next \in [pc : Labels, key : Keys \cup {None}] /\ next.pc = label /\ next.key = k
        BY <4>1 DEF Key
      <4>3. ctx' = [ctx EXCEPT ![x] = next]
        BY <3>2 DEF Goto
      <4> HIDE DEF next
      <4>4. ctx' \in [Contexts -> [pc : Labels, key : Keys \cup {None}]]
        BY <4>1, <4>2, <4>3
      <4>5. ctx'[x] = next /\ \A y \in Contexts \ {x} : ctx'[y] = ctx[y]
        BY <4>1, <4>3
      <4> QED
        BY <3>1, <3>2, <4>2, <4>4, <4>5 DEF TypeOK, Key, Level
    <3>3. ASSUME Return(x)
          PROVE  /\ ctx' \in [Contexts -> [pc : Labels, key : Keys \cup {None}]]
                 /\ \A y \in Contexts :
                      /\ ctx'[y].pc = "idle" \/ ctx'[y].key \in KeysOf(y[2])
                      /\ ctx'[y].pc = "meta" => y[2] = "hard"
      BY <3>3 DEF TypeOK, Return, Idle, Labels, Key, Level
    <3>4. CASE NotHooked(x)
      BY <3>3, <3>4 DEF NotHooked, TypeOK, mapVars, loaderVars, readerVars, Key, Level
    <3>5. ASSUME Seen(x) PROVE hits' \in [Keys -> [Cpus -> Nat]]
      BY <3>1, <3>5 DEF Seen, TypeOK
    <3>6. CASE Found(x)
      <4>1. counts' \in [DOMAIN counts -> [Cpus -> Nat]]
        BY <3>1, <3>6 DEF Found, TypeOK
      <4>2. DOMAIN counts' = DOMAIN counts
        BY <3>6 DEF Found
      <4>3. /\ ctx' \in [Contexts -> [pc : Labels, key : Keys \cup {None}]]
            /\ \A y \in Contexts :
                 /\ ctx'[y].pc = "idle" \/ ctx'[y].key \in KeysOf(y[2])
                 /\ ctx'[y].pc = "meta" => y[2] = "hard"
        BY <3>2, <3>3, <3>6 DEF Found, Labels
      <4> QED
        BY <3>5, <3>6, <4>1, <4>2, <4>3 DEF Found, TypeOK, loaderVars, readerVars, Key, Level
    <3>7. CASE Missing(x)
      BY <3>2, <3>5, <3>7 DEF Missing, TypeOK, mapVars, loaderVars, readerVars, Key, Level, Labels
    <3>8. CASE InsertCount(x)
      <4>1. [Zeroes EXCEPT ![c] = 1] \in [Cpus -> Nat]
        BY <3>1 DEF Zeroes
      <4>2. /\ counts' \in [DOMAIN counts' -> [Cpus -> Nat]]
            /\ DOMAIN counts \subseteq DOMAIN counts' /\ DOMAIN counts' \subseteq Keys
        BY <3>1, <3>8, <4>1 DEF InsertCount, With, TypeOK
      <4>3. /\ ctx' \in [Contexts -> [pc : Labels, key : Keys \cup {None}]]
            /\ \A y \in Contexts :
                 /\ ctx'[y].pc = "idle" \/ ctx'[y].key \in KeysOf(y[2])
                 /\ ctx'[y].pc = "meta" => y[2] = "hard"
        BY <3>2, <3>8 DEF InsertCount, Labels
      <4> QED
        BY <3>8, <4>2, <4>3 DEF InsertCount, TypeOK, loaderVars, readerVars, Key, Level
    <3>9. CASE LookupMeta(x)
      <4>1. Level(x) = "hard"
        BY <3>9 DEF LookupMeta, At, TypeOK
      <4>2. /\ ctx' \in [Contexts -> [pc : Labels, key : Keys \cup {None}]]
            /\ \A y \in Contexts :
                 /\ ctx'[y].pc = "idle" \/ ctx'[y].key \in KeysOf(y[2])
                 /\ ctx'[y].pc = "meta" => y[2] = "hard"
        BY <3>2, <3>3, <3>9 DEF LookupMeta, Labels
      <4> QED
        BY <3>9, <4>2 DEF LookupMeta, TypeOK, mapVars, loaderVars, readerVars, Key, Level
    <3>10. CASE InsertMeta(x)
      BY <3>1, <3>3, <3>10 DEF InsertMeta, PutName, TypeOK, loaderVars, readerVars, Key, Level
    <3> QED
      BY <2>3, <3>4, <3>6, <3>7, <3>8, <3>9, <3>10 DEF Program
  <2>4. CASE AttachHard \/ AttachSoft
    BY <2>4 DEF AttachHard, AttachSoft, TypeOK, Levels, kernelVars, mapVars, readerVars, Key
  <2>5. ASSUME NEW k \in Hard, NEW c \in Online, ReadCell(k, c) PROVE TypeOK'
    <3>1. DOMAIN file' = DOMAIN file \cup {<<k, c>>} /\ kstat[k][c] \in Nat
      BY <2>5 DEF ReadCell, TypeOK, Keys
    <3>2. file' \in [DOMAIN file' -> Nat] /\ DOMAIN file' \subseteq Hard \X Online
      BY <2>5, <3>1 DEF ReadCell, TypeOK
    <3> QED
      BY <2>5, <3>2 DEF ReadCell, TypeOK, kernelVars, mapVars, readerVars, Key
  <2>6. CASE FileRead \/ FileFails
    BY <2>6 DEF FileRead, FileFails, TypeOK, kernelVars, mapVars, readerVars, Key
  <2>7. ASSUME NEW k \in Hard, SeedCounts(k) PROVE TypeOK'
    <3>1. FromFile(k) \in [Cpus -> Nat]
      BY <2>7, FromFileType
    <3>2. /\ counts' \in [DOMAIN counts' -> [Cpus -> Nat]]
          /\ DOMAIN counts \subseteq DOMAIN counts' /\ DOMAIN counts' \subseteq Keys
          /\ seeded' \in [Keys -> [Cpus -> Nat]]
      <4>1. k \in Keys
        BY DEF Keys
      <4>2. CASE Admits(k)
        <5>1. counts' = With(k, FromFile(k)) /\ seeded' = [seeded EXCEPT ![k] = FromFile(k)]
          BY <2>7, <4>2 DEF SeedCounts
        <5> QED
          BY <3>1, <4>1, <5>1 DEF With, TypeOK
      <4>3. CASE ~Admits(k)
        BY <2>7, <4>3 DEF SeedCounts, TypeOK
      <4> QED
        BY <4>2, <4>3
    <3> QED
      BY <2>7, <3>2 DEF SeedCounts, TypeOK, kernelVars, readerVars, Key
  <2>8. CASE SeedMeta
    BY <2>8 DEF SeedMeta, PutName, TypeOK, kernelVars, readerVars, Key, Keys
  <2>9. ASSUME NEW k \in Keys, ReaderTake(k) PROVE TypeOK'
    BY <2>9 DEF ReaderTake, TypeOK, kernelVars, mapVars, loaderVars, Key
  <2>10. CASE ReaderAdd
    <3>1. counts[rkey][rcpu] \in Nat
      BY <2>10 DEF ReaderAdd, TypeOK, Cpus
    <3>2. racc' \in Nat /\ rcpu' \in 0 .. NrCpus
      BY <2>10, <3>1 DEF ReaderAdd, TypeOK
    <3> QED
      BY <2>10, <3>2 DEF ReaderAdd, TypeOK, kernelVars, mapVars, loaderVars, Key
  <2>11. CASE ReaderShow
    BY <2>11 DEF ReaderShow, TypeOK, kernelVars, mapVars, loaderVars, Key
  <2> QED
    BY <2>1, <2>2, <2>3, <2>4, <2>5, <2>6, <2>7, <2>8, <2>9, <2>10, <2>11 DEF Next, Loader, Reader
<1> QED
  BY <1>1, <1>2, PTL DEF Spec

\* What a program's move leaves of its own place and of all others.
LEMMA MoveOfProgram ==
  ASSUME TypeOK, NEW x \in Contexts
  PROVE  /\ \A label : Goto(x, label) =>
              /\ ctx'[x].pc = label /\ ctx'[x].key = ctx[x].key
              /\ \A y \in Contexts \ {x} : ctx'[y] = ctx[y]
         /\ Return(x) => /\ ctx'[x] = Idle
                         /\ \A y \in Contexts \ {x} : ctx'[y] = ctx[y]
<1>1. ctx \in [Contexts -> [pc : Labels, key : Keys \cup {None}]]
  BY DEF TypeOK
<1>2. ASSUME NEW label, Goto(x, label)
      PROVE  /\ ctx'[x].pc = label /\ ctx'[x].key = ctx[x].key
             /\ \A y \in Contexts \ {x} : ctx'[y] = ctx[y]
  <2>1. ctx' = [ctx EXCEPT ![x] = [ctx[x] EXCEPT !.pc = label]]
    BY <1>2 DEF Goto
  <2> QED
    BY <1>1, <2>1
<1>3. ASSUME Return(x)
      PROVE  ctx'[x] = Idle /\ \A y \in Contexts \ {x} : ctx'[y] = ctx[y]
  BY <1>1, <1>3 DEF Return
<1> QED
  BY <1>2, <1>3

\* One context of a CPU can handle a given key.
LEMMA OneHandler ==
  ASSUME TypeOK, NEW x \in Contexts, NEW y \in Contexts, x[1] = y[1],
         ctx[x].pc # "idle", ctx[y].pc # "idle", Key(x) = Key(y)
  PROVE  x = y
<1>1. x[2] = y[2]
  BY KeyOfProgram, ContextParts, IrqAssumption DEF Levels, KeysOf, Level
<1> QED
  BY <1>1, ContextParts

\* A program that neither was nor is about to insert changes nothing of who is.
LEMMA InsertingKept ==
  ASSUME NEW x \in Contexts, \A y \in Contexts \ {x} : ctx'[y] = ctx[y],
         ctx[x].pc # "insert", ctx'[x].pc # "insert"
  PROVE  \A k, c : Inserting(k, c)' <=> Inserting(k, c)
BY DEF Inserting, Key

\* An entry made for a key that was not there, of the map with room.
LEMMA EntryMade ==
  ASSUME TypeOK, NEW k \in Keys, NEW values \in [Cpus -> Nat], Admits(k), counts' = With(k, values)
  PROVE  /\ DOMAIN counts' = DOMAIN counts \cup {k} /\ k \notin DOMAIN counts /\ ~CountsFull
         /\ counts'[k] = values /\ \A e \in DOMAIN counts : counts'[e] = counts[e]
BY DEF Admits, With, CountsFull

\* CountInv says the same of two states that agree on what it speaks of.
LEMMA CountInvKept ==
  ASSUME CountInv, UNCHANGED <<counts, hits, seeded>>,
         \A k, c : Inserting(k, c)' <=> Inserting(k, c)
  PROVE  CountInv'
BY DEF CountInv, CountsEveryHit, CountsFull

\* The lookup finds the key: one seen, one counted.
LEMMA FoundCounts ==
  ASSUME TypeOK, CountInv, NEW x \in Contexts, Found(x)
  PROVE  CountInv'
<1> DEFINE c == x[1]
<1> SUFFICES ASSUME NEW k, k = Key(x) PROVE CountInv'
  OBVIOUS
<1>1. c \in Cpus /\ k \in Keys /\ ctx[x].pc = "raised"
  BY KeyOfProgram, ContextParts DEF Found, Seen, At
<1>2. \A e, i : Inserting(e, i)' <=> Inserting(e, i)
  <2>1. ctx'[x].pc # "insert" /\ \A y \in Contexts \ {x} : ctx'[y] = ctx[y]
    BY MoveOfProgram DEF Found, Idle
  <2> QED
    BY <1>1, <2>1, InsertingKept
<1>3. /\ DOMAIN counts' = DOMAIN counts /\ k \in DOMAIN counts
      /\ \A e \in DOMAIN counts, i \in Cpus :
           counts'[e][i] = IF e = k /\ i = c THEN counts[e][i] + 1 ELSE counts[e][i]
      /\ \A e \in Keys, i \in Cpus :
           hits'[e][i] = IF e = k /\ i = c THEN hits[e][i] + 1 ELSE hits[e][i]
      /\ seeded' = seeded
  BY <1>1 DEF Found, Seen, TypeOK
<1>4. \A e \in Keys, i \in Cpus :
        hits[e][i] \in Nat /\ seeded[e][i] \in Nat /\ (e \in DOMAIN counts => counts[e][i] \in Nat)
  BY DEF TypeOK
<1>5. DOMAIN counts \subseteq Keys /\ CountsFull' = CountsFull
  BY <1>3 DEF TypeOK, CountsFull
<1>6. ASSUME NEW e \in Keys, NEW i \in Cpus, e \in DOMAIN counts
      PROVE  /\ hits'[e][i] + seeded'[e][i] \in {counts'[e][i], counts'[e][i] + 1}
             /\ Inserting(e, i)' => hits'[e][i] + seeded'[e][i] = counts'[e][i] + 1
  <2>1. /\ hits[e][i] + seeded[e][i] \in {counts[e][i], counts[e][i] + 1}
        /\ Inserting(e, i) => hits[e][i] + seeded[e][i] = counts[e][i] + 1
    BY <1>6 DEF CountInv, CountsEveryHit
  <2> QED
    BY <1>2, <1>3, <1>4, <1>6, <2>1
<1>7. ASSUME NEW e \in Keys, NEW i \in Cpus, e \notin DOMAIN counts
      PROVE  hits'[e][i] = hits[e][i] /\ seeded'[e][i] = seeded[e][i]
  BY <1>3, <1>7
<1> QED
  BY <1>2, <1>3, <1>5, <1>6, <1>7 DEF CountInv, CountsEveryHit

\* The lookup misses: this program, and no other of its CPU, is about to insert.
LEMMA MissingCounts ==
  ASSUME TypeOK, CountInv, NEW x \in Contexts, Missing(x)
  PROVE  CountInv'
<1> DEFINE c == x[1]
<1> SUFFICES ASSUME NEW k, k = Key(x) PROVE CountInv'
  OBVIOUS
<1>1. c \in Cpus /\ k \in Keys /\ ctx[x].pc = "raised" /\ k \notin DOMAIN counts
  BY KeyOfProgram, ContextParts DEF Missing, Seen, At
<1>2. /\ ctx'[x].pc = "insert" /\ ctx'[x].key = k
      /\ \A y \in Contexts \ {x} : ctx'[y] = ctx[y]
  BY MoveOfProgram DEF Missing, Key
<1>3. ~Inserting(k, c)
  BY <1>1, OneHandler DEF Inserting
<1>4. Inserting(k, c)'
  BY <1>2 DEF Inserting, Key
<1>5. \A e, i : e # k \/ i # c => (Inserting(e, i)' <=> Inserting(e, i))
  BY <1>1, <1>2 DEF Inserting, Key
<1>6. /\ counts' = counts /\ seeded' = seeded
      /\ \A e \in Keys, i \in Cpus :
           hits'[e][i] = IF e = k /\ i = c THEN hits[e][i] + 1 ELSE hits[e][i]
  BY <1>1 DEF Missing, Seen, TypeOK, mapVars
<1>7. hits[k][c] \in Nat /\ seeded[k][c] = 0 /\ (CountsFull \/ hits[k][c] = 0)
  BY <1>1, <1>3 DEF TypeOK, CountInv
<1>8. DOMAIN counts \subseteq Keys /\ CountsFull' = CountsFull
  BY <1>6 DEF TypeOK, CountsFull
<1>9. ASSUME NEW e \in Keys, NEW i \in Cpus
      PROVE  /\ e \in DOMAIN counts =>
                  /\ hits'[e][i] + seeded'[e][i] \in {counts'[e][i], counts'[e][i] + 1}
                  /\ Inserting(e, i)' => hits'[e][i] + seeded'[e][i] = counts'[e][i] + 1
             /\ e \notin DOMAIN counts =>
                  /\ hits'[e][i] = 0 \/ Inserting(e, i)' \/ CountsFull'
                  /\ seeded'[e][i] = 0
                  /\ CountsFull' \/ hits'[e][i] = IF Inserting(e, i)' THEN 1 ELSE 0
  <2>1. CASE e = k /\ i = c
    BY <1>1, <1>4, <1>6, <1>7, <1>8, <2>1
  <2>2. CASE ~(e = k /\ i = c)
    <3>1. hits'[e][i] = hits[e][i] /\ (Inserting(e, i)' <=> Inserting(e, i))
      BY <1>5, <1>6, <2>2
    <3> QED
      BY <1>6, <1>8, <3>1 DEF CountInv, CountsEveryHit
  <2> QED
    BY <2>1, <2>2
<1> QED
  BY <1>6, <1>8, <1>9 DEF CountInv, CountsEveryHit

\* The insert: it makes the entry, or the interrupt is the one lost here.
LEMMA InsertCounts ==
  ASSUME TypeOK, CountInv, NEW x \in Contexts, InsertCount(x)
  PROVE  CountInv'
<1> DEFINE c == x[1]
<1> SUFFICES ASSUME NEW k, k = Key(x) PROVE CountInv'
  OBVIOUS
<1>1. c \in Cpus /\ k \in Keys /\ ctx[x].pc = "insert"
  BY KeyOfProgram, ContextParts DEF InsertCount, At
<1>2. /\ ctx'[x].pc # "insert" /\ ctx'[x].key = k
      /\ \A y \in Contexts \ {x} : ctx'[y] = ctx[y]
  BY MoveOfProgram DEF InsertCount, Key
<1>3. Inserting(k, c) /\ ~Inserting(k, c)'
  <2>1. Inserting(k, c)
    BY <1>1 DEF Inserting
  <2>2. ASSUME NEW y \in Contexts, y # x, y[1] = c, ctx[y].pc = "insert" PROVE Key(y) # k
    BY <1>1, <2>2, OneHandler
  <2> QED
    BY <1>2, <2>1, <2>2 DEF Inserting, Key
<1>4. \A e, i : e # k \/ i # c => (Inserting(e, i)' <=> Inserting(e, i))
  BY <1>2 DEF Inserting, Key
<1>5. hits' = hits /\ seeded' = seeded
  BY DEF InsertCount
<1>6. \A e \in Keys, i \in Cpus :
        hits[e][i] \in Nat /\ seeded[e][i] \in Nat /\ (e \in DOMAIN counts => counts[e][i] \in Nat)
  BY DEF TypeOK
<1>7. DOMAIN counts \subseteq Keys
  BY DEF TypeOK
<1>8. CASE Admits(k)
  <2> DEFINE one == [Zeroes EXCEPT ![c] = 1]
  <2>1. one \in [Cpus -> Nat] /\ \A i \in Cpus : one[i] = IF i = c THEN 1 ELSE 0
    BY <1>1 DEF Zeroes
  <2>2. counts' = With(k, one)
    BY <1>8 DEF InsertCount
  <2> HIDE DEF one
  <2>3. /\ DOMAIN counts' = DOMAIN counts \cup {k} /\ k \notin DOMAIN counts /\ ~CountsFull
        /\ counts'[k] = one /\ \A e \in DOMAIN counts : counts'[e] = counts[e]
    BY <1>1, <1>8, <2>1, <2>2, EntryMade
  <2>4. ASSUME NEW i \in Cpus
        PROVE  /\ hits'[k][i] + seeded'[k][i] \in {counts'[k][i], counts'[k][i] + 1}
               /\ Inserting(k, i)' => hits'[k][i] + seeded'[k][i] = counts'[k][i] + 1
    <3>1. seeded[k][i] = 0 /\ hits[k][i] = IF Inserting(k, i) THEN 1 ELSE 0
      BY <1>1, <2>3 DEF CountInv
    <3> QED
      BY <1>3, <1>4, <1>5, <2>1, <2>3, <3>1
  <2>5. ASSUME NEW e \in Keys, NEW i \in Cpus, e # k
        PROVE  /\ e \in DOMAIN counts' =>
                    /\ hits'[e][i] + seeded'[e][i] \in {counts'[e][i], counts'[e][i] + 1}
                    /\ Inserting(e, i)' => hits'[e][i] + seeded'[e][i] = counts'[e][i] + 1
               /\ e \notin DOMAIN counts' =>
                    /\ hits'[e][i] = 0 \/ Inserting(e, i)'
                    /\ seeded'[e][i] = 0
                    /\ hits'[e][i] = IF Inserting(e, i)' THEN 1 ELSE 0
    BY <1>4, <1>5, <2>3, <2>5 DEF CountInv, CountsEveryHit
  <2> QED
    BY <1>1, <1>7, <2>3, <2>4, <2>5 DEF CountInv, CountsEveryHit
<1>9. CASE ~Admits(k)
  <2>1. counts' = counts /\ CountsFull' = CountsFull
    BY <1>9 DEF InsertCount, CountsFull
  <2>2. k \in DOMAIN counts \/ CountsFull
    BY <1>9 DEF Admits, CountsFull
  <2>3. ASSUME NEW e \in Keys, NEW i \in Cpus
        PROVE  /\ e \in DOMAIN counts =>
                    /\ hits'[e][i] + seeded'[e][i] \in {counts'[e][i], counts'[e][i] + 1}
                    /\ Inserting(e, i)' => hits'[e][i] + seeded'[e][i] = counts'[e][i] + 1
               /\ e \notin DOMAIN counts =>
                    /\ hits'[e][i] = 0 \/ Inserting(e, i)' \/ CountsFull'
                    /\ seeded'[e][i] = 0
                    /\ CountsFull' \/ hits'[e][i] = IF Inserting(e, i)' THEN 1 ELSE 0
    <3>1. CASE e = k /\ i = c
      BY <1>3, <1>5, <2>1, <2>2, <3>1 DEF CountInv, CountsEveryHit
    <3>2. CASE ~(e = k /\ i = c)
      <4>1. Inserting(e, i)' <=> Inserting(e, i)
        BY <1>4, <3>2
      <4> QED
        BY <1>5, <2>1, <4>1 DEF CountInv, CountsEveryHit
    <3> QED
      BY <3>1, <3>2
  <2> QED
    BY <1>7, <2>1, <2>3 DEF CountInv, CountsEveryHit
<1> QED
  BY <1>8, <1>9

\* The seeding makes an entry: a program on its way to insert the key comes too late.
LEMMA SeedCountsKnown ==
  ASSUME TypeOK, CountInv, NEW k \in Hard, SeedCounts(k)
  PROVE  CountInv'
<1>1. k \in Keys /\ DOMAIN counts \subseteq Keys /\ ctx' = ctx /\ hits' = hits
  BY DEF SeedCounts, TypeOK, Keys, kernelVars
<1>2. \A e, i : Inserting(e, i)' <=> Inserting(e, i)
  BY <1>1 DEF Inserting, Key
<1>3. CASE ~Admits(k)
  BY <1>1, <1>2, <1>3, CountInvKept DEF SeedCounts
<1>4. CASE Admits(k)
  <2>1. FromFile(k) \in [Cpus -> Nat]
    BY FromFileType
  <2>2. counts' = With(k, FromFile(k)) /\ seeded' = [seeded EXCEPT ![k] = FromFile(k)]
    BY <1>4 DEF SeedCounts
  <2>3. /\ DOMAIN counts' = DOMAIN counts \cup {k} /\ k \notin DOMAIN counts /\ ~CountsFull
        /\ counts'[k] = FromFile(k) /\ \A e \in DOMAIN counts : counts'[e] = counts[e]
    BY <1>1, <1>4, <2>1, <2>2, EntryMade
  <2>4. seeded'[k] = FromFile(k) /\ \A e \in Keys \ {k} : seeded'[e] = seeded[e]
    BY <1>1, <2>2 DEF TypeOK
  <2>5. ASSUME NEW i \in Cpus
        PROVE  /\ hits'[k][i] + seeded'[k][i] \in {counts'[k][i], counts'[k][i] + 1}
               /\ Inserting(k, i)' => hits'[k][i] + seeded'[k][i] = counts'[k][i] + 1
    <3>1. hits[k][i] = (IF Inserting(k, i) THEN 1 ELSE 0) /\ FromFile(k)[i] \in Nat
      BY <1>1, <2>1, <2>3 DEF CountInv
    <3> QED
      BY <1>1, <1>2, <2>3, <2>4, <3>1
  <2>6. ASSUME NEW e \in Keys, NEW i \in Cpus, e # k
        PROVE  /\ e \in DOMAIN counts' =>
                    /\ hits'[e][i] + seeded'[e][i] \in {counts'[e][i], counts'[e][i] + 1}
                    /\ Inserting(e, i)' => hits'[e][i] + seeded'[e][i] = counts'[e][i] + 1
               /\ e \notin DOMAIN counts' =>
                    /\ hits'[e][i] = 0 \/ Inserting(e, i)'
                    /\ seeded'[e][i] = 0
                    /\ hits'[e][i] = IF Inserting(e, i)' THEN 1 ELSE 0
    BY <1>1, <1>2, <2>3, <2>4, <2>6 DEF CountInv, CountsEveryHit
  <2> QED
    BY <1>1, <2>3, <2>5, <2>6 DEF CountInv, CountsEveryHit
<1> QED
  BY <1>3, <1>4

\* The invariant of the counts.
THEOREM CountInvariant == Spec => []CountInv
<1>1. Init => CountInv
  <2> SUFFICES ASSUME Init PROVE CountInv
    OBVIOUS
  <2>1. DOMAIN counts = {} /\ \A k, c : ~Inserting(k, c)
    BY DEF Init, Inserting, Idle
  <2>2. \A k \in Keys, c \in Cpus : hits[k][c] = 0 /\ seeded[k][c] = 0
    BY DEF Init, Zeroes
  <2> QED
    BY <2>1, <2>2 DEF CountInv, CountsEveryHit
<1>2. TypeOK /\ CountInv /\ [Next]_vars => CountInv'
  <2> SUFFICES ASSUME TypeOK, CountInv, [Next]_vars PROVE CountInv'
    OBVIOUS
  <2>1. ASSUME UNCHANGED <<ctx, counts, hits, seeded>> PROVE CountInv'
    BY <2>1, CountInvKept DEF Inserting, Key
  <2>2. CASE UNCHANGED vars
    BY <2>1, <2>2 DEF vars, kernelVars, mapVars
  <2>3. ASSUME NEW c \in Online, NEW level \in Levels, NEW k \in KeysOf(level), Raise(c, level, k)
        PROVE  CountInv'
    <3> DEFINE x == <<c, level>>
    <3>1. /\ x \in Contexts /\ ctx[x].pc = "idle" /\ ctx'[x].pc = "raised"
          /\ \A y \in Contexts \ {x} : ctx'[y] = ctx[y]
      BY <2>3 DEF Raise, Contexts, TypeOK, Idle
    <3>2. \A e, i : Inserting(e, i)' <=> Inserting(e, i)
      BY <3>1, InsertingKept
    <3> QED
      BY <2>3, <3>2, CountInvKept DEF Raise, mapVars
  <2>4. ASSUME NEW x \in Contexts, NotHooked(x) \/ LookupMeta(x) \/ InsertMeta(x) PROVE CountInv'
    <3>1. /\ ctx[x].pc # "insert" /\ ctx'[x].pc # "insert"
          /\ \A y \in Contexts \ {x} : ctx'[y] = ctx[y]
      BY <2>4, MoveOfProgram DEF NotHooked, LookupMeta, InsertMeta, At, Idle
    <3>2. \A e, i : Inserting(e, i)' <=> Inserting(e, i)
      BY <3>1, InsertingKept
    <3> QED
      BY <2>4, <3>2, CountInvKept DEF NotHooked, LookupMeta, InsertMeta, mapVars
  <2>5. ASSUME NEW x \in Contexts, Program(x) PROVE CountInv'
    BY <2>4, <2>5, FoundCounts, MissingCounts, InsertCounts DEF Program
  <2>6. CASE Loader
    <3>1. ASSUME NEW k \in Hard, NEW c \in Online, ReadCell(k, c) PROVE CountInv'
      BY <2>1, <3>1 DEF ReadCell, kernelVars, mapVars
    <3>2. CASE AttachHard \/ AttachSoft \/ FileRead \/ FileFails \/ SeedMeta
      BY <2>1, <3>2 DEF AttachHard, AttachSoft, FileRead, FileFails, SeedMeta, kernelVars, mapVars
    <3> QED
      BY <2>6, <3>1, <3>2, SeedCountsKnown DEF Loader
  <2>7. CASE Reader
    BY <2>1, <2>7 DEF Reader, ReaderTake, ReaderAdd, ReaderShow, kernelVars, mapVars
  <2> QED
    BY <2>2, <2>3, <2>5, <2>6, <2>7 DEF Next
<1> QED
  BY <1>1, <1>2, TypeCorrect, PTL DEF Spec

\* What the programs have seen is counted, but for at most one interrupt of each
\* key on each CPU.
THEOREM EveryHitCounted == Spec => []CountsEveryHit
<1>1. CountInv => CountsEveryHit
  BY DEF CountInv
<1> QED
  BY <1>1, CountInvariant, PTL

\* What is counted has a name, or is about to get one, or there is no room for it.
THEOREM CountedIsNamed == Spec => []NamedIfCounted
<1>1. Init => NamedIfCounted
  <2>1. DOMAIN [k \in {} |-> Zeroes] = {}
    OBVIOUS
  <2> QED
    BY <2>1 DEF Init, NamedIfCounted
<1>2. TypeOK /\ NamedIfCounted /\ [Next]_vars => NamedIfCounted'
  <2> SUFFICES ASSUME TypeOK, NamedIfCounted, [Next]_vars, NEW k \in DOMAIN counts'
               PROVE  \/ k \in metadata'
                      \/ \E x \in Contexts : ctx'[x].pc \in {"meta", "name"} /\ ctx'[x].key = k
                      \/ naming' = k
                      \/ NamesFull'
    BY DEF NamedIfCounted, Key
  <2> DEFINE Coming == \E x \in Contexts : ctx[x].pc \in {"meta", "name"} /\ ctx[x].key = k
             ComingNext == \E x \in Contexts : ctx'[x].pc \in {"meta", "name"} /\ ctx'[x].key = k
  <2>1. k \in DOMAIN counts => k \in metadata \/ Coming \/ naming = k \/ NamesFull
    BY DEF NamedIfCounted, Key
  <2>2. ASSUME UNCHANGED <<counts, metadata, ctx, naming>>
        PROVE  k \in metadata' \/ ComingNext \/ naming' = k \/ NamesFull'
    BY <2>1, <2>2 DEF NamesFull
  <2>3. CASE UNCHANGED vars
    BY <2>2, <2>3 DEF vars, kernelVars, mapVars, loaderVars
  <2>4. ASSUME NEW c \in Online, NEW level \in Levels, NEW e \in KeysOf(level), Raise(c, level, e)
        PROVE  k \in metadata' \/ ComingNext \/ naming' = k \/ NamesFull'
    <3> DEFINE x == <<c, level>>
    <3>1. /\ x \in Contexts /\ ctx[x].pc = "idle"
          /\ \A y \in Contexts \ {x} : ctx'[y] = ctx[y]
      BY <2>4 DEF Raise, Contexts, TypeOK, Idle
    <3>2. Coming => ComingNext
      BY <3>1
    <3> QED
      BY <2>1, <2>4, <3>2 DEF Raise, mapVars, loaderVars, NamesFull
  <2>5. ASSUME NEW x \in Contexts, Program(x)
        PROVE  k \in metadata' \/ ComingNext \/ naming' = k \/ NamesFull'
    <3>1. CASE NotHooked(x)
      <4>1. Coming => ComingNext
        BY <3>1, MoveOfProgram DEF NotHooked, At
      <4> QED
        BY <2>1, <3>1, <4>1 DEF NotHooked, mapVars, loaderVars, NamesFull
    <3>2. CASE Found(x) \/ Missing(x)
      <4>1. Coming => ComingNext
        BY <3>2, MoveOfProgram DEF Found, Missing, Seen, At
      <4>2. k \in DOMAIN counts
        BY <3>2 DEF Found, Missing, mapVars
      <4> QED
        BY <2>1, <3>2, <4>1, <4>2 DEF Found, Missing, mapVars, loaderVars, NamesFull
    <3>3. CASE InsertCount(x)
      <4>1. /\ ctx[x].pc = "insert" /\ ctx'[x].pc \in {"meta", "name"} /\ ctx'[x].key = Key(x)
            /\ \A y \in Contexts \ {x} : ctx'[y] = ctx[y]
        BY <3>3, MoveOfProgram DEF InsertCount, At, Key
      <4>2. CASE k = Key(x)
        BY <4>1, <4>2
      <4>3. CASE k # Key(x)
        <5>1. k \in DOMAIN counts
          BY <3>3, <4>3 DEF InsertCount, With
        <5>2. Coming => ComingNext
          BY <4>1
        <5> QED
          BY <2>1, <3>3, <5>1, <5>2 DEF InsertCount, loaderVars, NamesFull
      <4> QED
        BY <4>2, <4>3
    <3>4. CASE LookupMeta(x)
      <4>1. k \in metadata \/ (Coming => ComingNext)
        <5>1. CASE Key(x) \in metadata /\ Key(x) = k
          BY <5>1
        <5>2. CASE Key(x) \in metadata /\ Key(x) # k
          BY <3>4, <5>2, MoveOfProgram DEF LookupMeta, Key
        <5>3. CASE Key(x) \notin metadata
          BY <3>4, <5>3, MoveOfProgram DEF LookupMeta, Key
        <5> QED
          BY <5>1, <5>2, <5>3
      <4> QED
        BY <2>1, <3>4, <4>1 DEF LookupMeta, mapVars, loaderVars, NamesFull
    <3>5. CASE InsertMeta(x)
      <4>1. metadata' = IF NamesFull THEN metadata ELSE metadata \cup {Key(x)}
        BY <3>5 DEF InsertMeta, PutName, NamesFull
      <4>2. Key(x) # k /\ Coming => ComingNext
        BY <3>5, MoveOfProgram DEF InsertMeta, Key
      <4>3. NamesFull => NamesFull'
        BY <4>1 DEF NamesFull
      <4> QED
        BY <2>1, <3>5, <4>1, <4>2, <4>3 DEF InsertMeta, loaderVars
    <3> QED
      BY <2>5, <3>1, <3>2, <3>3, <3>4, <3>5 DEF Program
  <2>6. CASE Loader
    <3>1. ASSUME NEW e \in Hard, NEW c \in Online, ReadCell(e, c)
          PROVE  k \in metadata' \/ ComingNext \/ naming' = k \/ NamesFull'
      BY <2>2, <3>1 DEF ReadCell, kernelVars, mapVars
    <3>2. CASE AttachHard \/ AttachSoft \/ FileRead \/ FileFails
      BY <2>2, <3>2 DEF AttachHard, AttachSoft, FileRead, FileFails, kernelVars, mapVars
    <3>3. ASSUME NEW e \in Hard, SeedCounts(e)
          PROVE  k \in metadata' \/ ComingNext \/ naming' = k \/ NamesFull'
      <4>1. naming' = e /\ naming = None /\ ctx' = ctx /\ metadata' = metadata
        BY <3>3 DEF SeedCounts, kernelVars
      <4>2. k = e \/ k \in DOMAIN counts
        BY <3>3 DEF SeedCounts, With
      <4>3. k # None
        <5>1. k \in Keys
          BY <4>2 DEF TypeOK, Keys
        <5> QED
          BY <5>1, Constants
      <4> QED
        BY <2>1, <4>1, <4>2, <4>3 DEF NamesFull
    <3>4. CASE SeedMeta
      <4>1. metadata' = IF NamesFull THEN metadata ELSE metadata \cup {naming}
        BY <3>4 DEF SeedMeta, PutName, NamesFull
      <4>2. NamesFull => NamesFull'
        BY <4>1 DEF NamesFull
      <4> QED
        BY <2>1, <3>4, <4>1, <4>2 DEF SeedMeta, kernelVars
    <3> QED
      BY <2>6, <3>1, <3>2, <3>3, <3>4 DEF Loader
  <2>7. CASE Reader
    BY <2>2, <2>7 DEF Reader, ReaderTake, ReaderAdd, ReaderShow, kernelVars, mapVars, loaderVars
  <2> QED
    BY <2>3, <2>4, <2>5, <2>6, <2>7 DEF Next
<1> QED
  BY <1>1, <1>2, TypeCorrect, PTL DEF Spec

(***************************************************************************)
(* Totals.                                                                 *)
(***************************************************************************)

\* CPUs from one to another are finitely many.
LEMMA SomeCpus ==
  /\ IsFiniteSet(Cpus)
  /\ \A i \in Nat : /\ IsFiniteSet(i .. NrCpus - 1)
                    /\ i <= NrCpus => IsFiniteSet(0 .. i - 1) /\ 0 .. i - 1 \subseteq Cpus
                    /\ i .. NrCpus - 1 \subseteq Cpus
BY Constants, FS_Interval DEF Cpus

\* A total is a number.
LEMMA TotalType == ASSUME NEW f \in [Cpus -> Nat] PROVE Total(f) \in Nat
BY SomeCpus, SumType DEF Total

\* A total of more is more.
LEMMA TotalGrows ==
  ASSUME NEW f \in [Cpus -> Nat], NEW g \in [Cpus -> Nat], \A c \in Cpus : f[c] <= g[c]
  PROVE  Total(f) <= Total(g)
BY SomeCpus, SumMonotone DEF Total

\* One more on one CPU is one more in all.
LEMMA TotalCounts ==
  ASSUME NEW f \in [Cpus -> Nat], NEW c \in Cpus
  PROVE  Total([f EXCEPT ![c] = @ + 1]) = Total(f) + 1
<1> DEFINE g == [f EXCEPT ![c] = @ + 1]
<1>1. g[c] = f[c] + 1 /\ \A d \in Cpus \ {c} : g[d] = f[d]
  OBVIOUS
<1> HIDE DEF g
<1>2. SumFunctionOnSet(g, Cpus) = SumFunctionOnSet(f, Cpus) + 1
  BY <1>1, SomeCpus, SumChanged
<1> QED
  BY <1>2 DEF g, Total

\* An entry stays, and no count of it goes back.
LEMMA CountsGrow ==
  ASSUME TypeOK, TypeOK', [Next]_vars
  PROVE  \A k \in DOMAIN counts : /\ k \in DOMAIN counts'
                                  /\ \A c \in Cpus : counts[k][c] <= counts'[k][c]
<1>1. DOMAIN counts \subseteq Keys /\ \A k \in DOMAIN counts : counts[k] \in [Cpus -> Nat]
  BY DEF TypeOK
<1>2. ASSUME NEW k, NEW values, Admits(k), counts' = With(k, values)
      PROVE  \A e \in DOMAIN counts : e \in DOMAIN counts' /\ counts'[e] = counts[e]
  BY <1>2 DEF Admits, With
<1>3. ASSUME NEW x \in Contexts, Found(x)
      PROVE  \A k \in DOMAIN counts : k \in DOMAIN counts' /\ \A c \in Cpus : counts[k][c] <= counts'[k][c]
  <2>1. counts' = [counts EXCEPT ![Key(x)][x[1]] = @ + 1]
    BY <1>3 DEF Found
  <2> QED
    BY <1>1, <2>1
<1>4. ASSUME NEW x \in Contexts, InsertCount(x)
      PROVE  \A k \in DOMAIN counts : k \in DOMAIN counts' /\ counts'[k] = counts[k]
  BY <1>2, <1>4 DEF InsertCount
<1>5. ASSUME NEW e \in Hard, SeedCounts(e)
      PROVE  \A k \in DOMAIN counts : k \in DOMAIN counts' /\ counts'[k] = counts[k]
  BY <1>2, <1>5 DEF SeedCounts
<1>6. \/ UNCHANGED counts
      \/ \E x \in Contexts : Found(x) \/ InsertCount(x)
      \/ \E e \in Hard : SeedCounts(e)
  BY DEF Next, Program, Loader, Reader, Raise, NotHooked, Missing, LookupMeta, InsertMeta,
         AttachHard, AttachSoft, ReadCell, FileRead, FileFails, SeedMeta,
         ReaderTake, ReaderAdd, ReaderShow, vars, mapVars
<1> QED
  BY <1>1, <1>3, <1>4, <1>5, <1>6

(***************************************************************************)
(* Totals shown never go back.                                             *)
(***************************************************************************)

\* Counting leaves room for what was shown.
LEMMA ShownKept ==
  ASSUME TypeOK, TypeOK', ShownInv, [Next]_vars, UNCHANGED readerVars
  PROVE  ShownInv'
<1> USE DEF readerVars
<1>1. DOMAIN counts \subseteq DOMAIN counts' /\ DOMAIN counts' \subseteq Keys
  BY CountsGrow DEF TypeOK
<1>2. \A k \in DOMAIN counts :
        /\ counts[k] \in [Cpus -> Nat] /\ counts'[k] \in [Cpus -> Nat]
        /\ \A c \in Cpus : counts[k][c] <= counts'[k][c]
  BY <1>1, CountsGrow DEF TypeOK
<1>3. ASSUME NEW k \in Keys
      PROVE  shown'[k] <= IF k \in DOMAIN counts' THEN Total(counts'[k]) ELSE 0
  <2>1. shown'[k] = shown[k] /\ shown[k] \in Nat /\ shown[k] <= IF k \in DOMAIN counts THEN Total(counts[k]) ELSE 0
    BY DEF ShownInv, TypeOK
  <2>2. CASE k \in DOMAIN counts
    <3>1. Total(counts[k]) <= Total(counts'[k]) /\ Total(counts[k]) \in Nat /\ Total(counts'[k]) \in Nat
      BY <1>2, <2>2, TotalGrows, TotalType
    <3> QED
      BY <1>1, <2>1, <2>2, <3>1
  <2>3. CASE k \notin DOMAIN counts
    <3>1. k \in DOMAIN counts' => Total(counts'[k]) \in Nat
      BY TotalType DEF TypeOK
    <3> QED
      BY <2>1, <2>3, <3>1
  <2> QED
    BY <2>2, <2>3
<1>4. ASSUME rkey # None
      PROVE  /\ shown[rkey] <= racc + SumFunctionOnSet(counts'[rkey], rcpu .. NrCpus - 1)
             /\ racc <= SumFunctionOnSet(counts'[rkey], 0 .. rcpu - 1)
  <2>1. /\ rkey \in DOMAIN counts /\ rkey \in Keys /\ rcpu \in 0 .. NrCpus /\ rcpu \in Nat
        /\ rcpu <= NrCpus /\ racc \in Nat /\ shown[rkey] \in Nat
    BY <1>4, Constants DEF TypeOK
  <2> DEFINE f == counts[rkey]
             g == counts'[rkey]
             Ahead == rcpu .. NrCpus - 1
             Behind == 0 .. rcpu - 1
  <2>2. /\ Ahead \subseteq Cpus /\ Behind \subseteq Cpus /\ IsFiniteSet(Ahead) /\ IsFiniteSet(Behind)
    BY <2>1, SomeCpus
  <2>3. \A c \in Cpus : f[c] \in Nat /\ g[c] \in Nat /\ f[c] <= g[c]
    BY <1>2, <2>1
  <2>4. /\ shown[rkey] <= racc + SumFunctionOnSet(f, Ahead)
        /\ racc <= SumFunctionOnSet(f, Behind)
    BY <1>4 DEF ShownInv
  <2> HIDE DEF f, g, Ahead, Behind
  <2>5. /\ SumFunctionOnSet(f, Ahead) <= SumFunctionOnSet(g, Ahead)
        /\ SumFunctionOnSet(f, Behind) <= SumFunctionOnSet(g, Behind)
    BY <2>2, <2>3, SumMonotone
  <2>6. /\ SumFunctionOnSet(f, Ahead) \in Nat /\ SumFunctionOnSet(g, Ahead) \in Nat
        /\ SumFunctionOnSet(f, Behind) \in Nat /\ SumFunctionOnSet(g, Behind) \in Nat
    BY <2>2, <2>3, SumType
  <2>7. /\ shown[rkey] <= racc + SumFunctionOnSet(g, Ahead)
        /\ racc <= SumFunctionOnSet(g, Behind)
    BY <2>1, <2>4, <2>5, <2>6
  <2> QED
    BY <2>7 DEF g, Ahead, Behind
<1>5. rkey' = rkey /\ rcpu' = rcpu /\ racc' = racc /\ shown' = shown
  OBVIOUS
<1> QED
  BY <1>3, <1>4, <1>5 DEF ShownInv

\* The reader begins with all of the key's counts ahead of it.
LEMMA TakeShown ==
  ASSUME TypeOK, ShownInv, NEW k \in Keys, ReaderTake(k)
  PROVE  ShownInv'
<1>1. /\ k \in DOMAIN counts /\ rkey' = k /\ rcpu' = 0 /\ racc' = 0 /\ UNCHANGED <<counts, shown>>
      /\ Cpus = 0 .. NrCpus - 1
  BY DEF ReaderTake, mapVars, Cpus
<1>2. shown[k] <= 0 + SumFunctionOnSet(counts[k], 0 .. NrCpus - 1)
  <2>1. Total(counts[k]) \in Nat /\ shown[k] <= Total(counts[k]) /\ shown[k] \in Nat
    BY <1>1, TotalType DEF ShownInv, TypeOK
  <2> QED
    BY <1>1, <2>1 DEF Total
<1>3. 0 <= SumFunctionOnSet(counts[k], 0 .. 0 - 1)
  <2>1. 0 .. 0 - 1 = {}
    OBVIOUS
  <2> QED
    BY <2>1, SumOfNone
<1> QED
  BY <1>1, <1>2, <1>3 DEF ShownInv

\* It takes one count from those ahead.
LEMMA AddShown ==
  ASSUME TypeOK, ShownInv, ReaderAdd
  PROVE  ShownInv'
<1>1. /\ rkey # None /\ rkey \in DOMAIN counts /\ rcpu \in Nat /\ rcpu < NrCpus /\ rcpu \in Cpus
      /\ racc \in Nat /\ shown[rkey] \in Nat /\ counts[rkey] \in [Cpus -> Nat]
      /\ racc' = racc + counts[rkey][rcpu] /\ rcpu' = rcpu + 1 /\ UNCHANGED <<rkey, counts, shown>>
  BY Constants DEF ReaderAdd, TypeOK, mapVars, Cpus
<1> DEFINE f == counts[rkey]
           Ahead == rcpu .. NrCpus - 1
           AheadNext == rcpu + 1 .. NrCpus - 1
           Behind == 0 .. rcpu - 1
           BehindNext == 0 .. (rcpu + 1) - 1
<1>2. /\ IsFiniteSet(Ahead) /\ IsFiniteSet(AheadNext) /\ IsFiniteSet(Behind) /\ IsFiniteSet(BehindNext)
      /\ Ahead \subseteq Cpus /\ AheadNext \subseteq Cpus /\ Behind \subseteq Cpus
      /\ BehindNext \subseteq Cpus
  <2>1. rcpu + 1 \in Nat /\ rcpu <= NrCpus /\ rcpu + 1 <= NrCpus
    BY <1>1, Constants
  <2>2. IsFiniteSet(Ahead) /\ IsFiniteSet(Behind) /\ Ahead \subseteq Cpus /\ Behind \subseteq Cpus
    BY <1>1, <2>1, SomeCpus
  <2>3. /\ IsFiniteSet(AheadNext) /\ IsFiniteSet(BehindNext)
        /\ AheadNext \subseteq Cpus /\ BehindNext \subseteq Cpus
    BY <2>1, SomeCpus
  <2> QED
    BY <2>2, <2>3
<1>3. rcpu \in Ahead /\ Ahead \ {rcpu} = AheadNext /\ rcpu \in BehindNext /\ BehindNext \ {rcpu} = Behind
  BY <1>1, Constants
<1>4. /\ shown[rkey] <= racc + SumFunctionOnSet(f, Ahead)
      /\ racc <= SumFunctionOnSet(f, Behind)
  BY <1>1 DEF ShownInv
<1>5. \A c \in Cpus : f[c] \in Nat
  BY <1>1
<1>6. racc' = racc + f[rcpu] /\ f[rcpu] \in Nat
  BY <1>1
<1> HIDE DEF f, Ahead, AheadNext, Behind, BehindNext
<1>7. /\ SumFunctionOnSet(f, Ahead) = f[rcpu] + SumFunctionOnSet(f, AheadNext)
      /\ SumFunctionOnSet(f, BehindNext) = f[rcpu] + SumFunctionOnSet(f, Behind)
  <2>1. (\A c \in Ahead : f[c] \in Nat) /\ (\A c \in BehindNext : f[c] \in Nat)
    BY <1>2, <1>5
  <2>2. SumFunctionOnSet(f, Ahead) = f[rcpu] + SumFunctionOnSet(f, Ahead \ {rcpu})
    BY <1>2, <1>3, <2>1, SumSplit
  <2>3. SumFunctionOnSet(f, BehindNext) = f[rcpu] + SumFunctionOnSet(f, BehindNext \ {rcpu})
    BY <1>2, <1>3, <2>1, SumSplit
  <2> QED
    BY <1>3, <2>2, <2>3
<1>8. SumFunctionOnSet(f, AheadNext) \in Nat /\ SumFunctionOnSet(f, Behind) \in Nat
  BY <1>2, <1>5, SumType
<1>9. /\ shown[rkey] <= racc' + SumFunctionOnSet(f, AheadNext)
      /\ racc' <= SumFunctionOnSet(f, BehindNext)
  BY <1>1, <1>4, <1>6, <1>7, <1>8
<1>10. \A k \in Keys : shown[k] <= IF k \in DOMAIN counts THEN Total(counts[k]) ELSE 0
  BY DEF ShownInv
<1> QED
  BY <1>1, <1>9, <1>10 DEF ShownInv, f, AheadNext, BehindNext

\* With no CPU ahead, the sum is no less than what was shown and no more than the total.
LEMMA ShowShown ==
  ASSUME TypeOK, ShownInv, ReaderShow
  PROVE  ShownInv' /\ rkey \in Keys /\ racc >= shown[rkey] /\ shown' = [shown EXCEPT ![rkey] = racc]
<1>1. /\ rkey # None /\ rkey \in DOMAIN counts /\ rkey \in Keys /\ rcpu = NrCpus /\ NrCpus \in Nat
      /\ racc \in Nat /\ shown[rkey] \in Nat /\ counts[rkey] \in [Cpus -> Nat]
      /\ rkey' = None /\ counts' = counts /\ shown' = [shown EXCEPT ![rkey] = racc]
  BY Constants DEF ReaderShow, TypeOK, mapVars
<1>2. rcpu .. NrCpus - 1 = {} /\ 0 .. rcpu - 1 = Cpus
  BY <1>1 DEF Cpus
<1>3. shown[rkey] <= racc + 0 /\ racc <= Total(counts[rkey])
  <2>1. /\ shown[rkey] <= racc + SumFunctionOnSet(counts[rkey], rcpu .. NrCpus - 1)
        /\ racc <= SumFunctionOnSet(counts[rkey], 0 .. rcpu - 1)
    BY <1>1 DEF ShownInv
  <2>2. SumFunctionOnSet(counts[rkey], rcpu .. NrCpus - 1) = 0
    BY <1>2, SumOfNone
  <2> QED
    BY <1>2, <2>1, <2>2 DEF Total
<1>4. \A k \in Keys : shown'[k] <= IF k \in DOMAIN counts THEN Total(counts[k]) ELSE 0
  BY <1>1, <1>3 DEF ShownInv, TypeOK
<1> QED
  BY <1>1, <1>3, <1>4 DEF ShownInv

\* The invariant of the reader's sum.
THEOREM ShownInvariant == Spec => []ShownInv
<1>1. Init => ShownInv
  <2> SUFFICES ASSUME Init PROVE ShownInv
    OBVIOUS
  <2>1. DOMAIN counts = {} /\ rkey = None /\ \A k \in Keys : shown[k] = 0
    BY DEF Init
  <2> QED
    BY <2>1 DEF ShownInv
<1>2. TypeOK /\ TypeOK' /\ ShownInv /\ [Next]_vars => ShownInv'
  <2> SUFFICES ASSUME TypeOK, TypeOK', ShownInv, [Next]_vars PROVE ShownInv'
    OBVIOUS
  <2>1. CASE Reader
    BY <2>1, TakeShown, AddShown, ShowShown DEF Reader
  <2>2. CASE ~Reader
    <3>1. UNCHANGED readerVars
      <4>1. ASSUME NEW c \in Online, NEW level \in Levels, NEW k \in KeysOf(level), Raise(c, level, k)
            PROVE  UNCHANGED readerVars
        BY <4>1 DEF Raise
      <4>2. ASSUME NEW x \in Contexts, Program(x) PROVE UNCHANGED readerVars
        BY <4>2 DEF Program, NotHooked, Found, Missing, InsertCount, LookupMeta, InsertMeta
      <4>3. CASE Loader
        BY <4>3 DEF Loader, AttachHard, AttachSoft, ReadCell, FileRead, FileFails, SeedCounts, SeedMeta
      <4>4. CASE UNCHANGED vars
        BY <4>4 DEF vars
      <4> QED
        BY <2>2, <4>1, <4>2, <4>3, <4>4 DEF Next
    <3> QED
      BY <3>1, ShownKept
  <2> QED
    BY <2>1, <2>2
<1> QED
  BY <1>1, <1>2, TypeCorrect, PTL DEF Spec

\* The total of a key never goes back from one snapshot to the next, although it is
\* added up CPU by CPU while the programs count.
THEOREM TotalsNeverGoBack == Spec => SnapshotsMonotone
<1> DEFINE Monotone == \A k \in Keys : shown'[k] >= shown[k]
<1>1. TypeOK /\ TypeOK' /\ ShownInv /\ [Next]_vars => [Monotone]_vars
  <2> SUFFICES ASSUME TypeOK, TypeOK', ShownInv, [Next]_vars PROVE [Monotone]_vars
    OBVIOUS
  <2>1. shown \in [Keys -> Nat] /\ racc \in Nat
    BY DEF TypeOK
  <2>2. CASE ReaderShow
    <3>1. rkey \in Keys /\ racc >= shown[rkey] /\ shown' = [shown EXCEPT ![rkey] = racc]
      BY <2>2, ShowShown
    <3>2. Monotone
      BY <2>1, <3>1
    <3> QED
      BY <3>2
  <2>3. CASE ~ReaderShow
    <3>1. shown' = shown
      BY <2>3 DEF Next, Program, Loader, Reader, Raise, NotHooked, Found, Missing, InsertCount,
                  LookupMeta, InsertMeta, AttachHard, AttachSoft, ReadCell, FileRead, FileFails,
                  SeedCounts, SeedMeta, ReaderTake, ReaderAdd, vars, readerVars
    <3> QED
      BY <2>1, <3>1
  <2> QED
    BY <2>2, <2>3
<1> QED
  BY <1>1, TypeCorrect, ShownInvariant, PTL DEF Spec, SnapshotsMonotone

(***************************************************************************)
(* Nothing is counted twice, but for one interrupt of a number.            *)
(***************************************************************************)

\* A program that moves on is not raised any more, and nobody else becomes it.
LEMMA RaisedLess ==
  ASSUME NEW x \in Contexts, \A y \in Contexts \ {x} : ctx'[y] = ctx[y], ctx'[x].pc # "raised"
  PROVE  \A k, c : Raised(k, c)' => Raised(k, c)
BY DEF Raised, Key

\* A program that has been through its lookup changes nothing of who is raised.
LEMMA RaisedKept ==
  ASSUME NEW x \in Contexts, \A y \in Contexts \ {x} : ctx'[y] = ctx[y],
         ctx[x].pc # "raised", ctx'[x].pc # "raised"
  PROVE  \A k, c : Raised(k, c)' <=> Raised(k, c)
BY DEF Raised, Key

\* The step of a program that sees its interrupt.
LEMMA SeenStep ==
  ASSUME TypeOK, NEW x \in Contexts, Found(x) \/ Missing(x), NEW k, k = Key(x)
  PROVE  /\ x[1] \in Cpus /\ x[1] \in Online /\ k \in Keys /\ k \in KeysOf(Level(x))
         /\ ctx[x].pc = "raised" /\ ctx'[x].pc # "raised"
         /\ \A y \in Contexts \ {x} : ctx'[y] = ctx[y]
         /\ Raised(k, x[1]) /\ ~ Raised(k, x[1])'
         /\ \A e \in Keys, c \in Cpus :
              hits'[e][c] = IF e = k /\ c = x[1] THEN hits[e][c] + 1 ELSE hits[e][c]
<1>1. ctx[x].pc = "raised" /\ Seen(x)
  BY DEF Found, Missing, Seen, At
<1>2. x[1] \in Cpus /\ x[1] \in Online /\ k \in Keys /\ k \in KeysOf(Level(x))
  BY <1>1, KeyOfProgram, ContextParts
<1>3. ctx'[x].pc # "raised" /\ \A y \in Contexts \ {x} : ctx'[y] = ctx[y]
  BY MoveOfProgram DEF Found, Missing, Idle
<1>4. Raised(k, x[1])
  BY <1>1 DEF Raised
<1>5. ASSUME NEW y \in Contexts, y[1] = x[1], ctx'[y].pc = "raised", ctx'[y].key = k
      PROVE  FALSE
  <2>1. y # x /\ ctx'[y] = ctx[y]
    BY <1>3, <1>5
  <2>2. y = x
    BY <1>1, <1>5, <2>1, OneHandler DEF Key
  <2> QED
    BY <2>1, <2>2
<1>6. ~ Raised(k, x[1])'
  BY <1>5 DEF Raised, Key
<1>7. \A e \in Keys, c \in Cpus :
        hits'[e][c] = IF e = k /\ c = x[1] THEN hits[e][c] + 1 ELSE hits[e][c]
  BY <1>1, <1>2 DEF Seen, TypeOK
<1> QED
  BY <1>1, <1>2, <1>3, <1>4, <1>6, <1>7

\* What the kernel's step does.
LEMMA RaiseStep ==
  ASSUME TypeOK, NEW c \in Online, NEW level \in Levels, NEW k \in KeysOf(level), Raise(c, level, k)
  PROVE  /\ k \in Keys /\ c \in Cpus /\ <<c, level>> \in Contexts
         /\ ctx[<<c, level>>] = Idle /\ ctx'[<<c, level>>].key = k
         /\ \A y \in Contexts \ {<<c, level>>} : ctx'[y] = ctx[y]
         /\ \A e, i : (e # k \/ i # c) => (Raised(e, i)' <=> Raised(e, i))
         /\ kstat' = [kstat EXCEPT ![k][c] = @ + 1]
         /\ UNCHANGED <<counts, file, hits, seeded>>
<1>1. k \in Keys /\ c \in Cpus /\ <<c, level>> \in Contexts
  BY Constants DEF KeysOf, Keys, Contexts
<1>2. /\ ctx[<<c, level>>] = Idle /\ ctx'[<<c, level>>] = [pc |-> "raised", key |-> k]
      /\ \A y \in Contexts \ {<<c, level>>} : ctx'[y] = ctx[y]
  BY <1>1 DEF Raise, TypeOK
<1>3. \A e, i : (e # k \/ i # c) => (Raised(e, i)' <=> Raised(e, i))
  BY <1>1, <1>2 DEF Raised, Key, Idle
<1> QED
  BY <1>1, <1>2, <1>3 DEF Raise, mapVars, loaderVars

\* The steps that neither raise an interrupt nor see one.
Quiet == /\ UNCHANGED <<kstat, hits>>
         /\ \A k, c : Raised(k, c)' => Raised(k, c)

\* Every step is the kernel's, or a program's that sees an interrupt, or quiet.
LEMMA StepKinds ==
  ASSUME TypeOK, [Next]_vars
  PROVE  \/ \E c \in Online, level \in Levels : \E k \in KeysOf(level) : Raise(c, level, k)
         \/ \E x \in Contexts : Found(x) \/ Missing(x)
         \/ Quiet
<1>1. ASSUME NEW x \in Contexts, NotHooked(x) \/ InsertCount(x) \/ LookupMeta(x) \/ InsertMeta(x)
      PROVE  Quiet
  <2>1. ctx'[x].pc # "raised" /\ \A y \in Contexts \ {x} : ctx'[y] = ctx[y]
    BY <1>1, MoveOfProgram DEF NotHooked, InsertCount, LookupMeta, InsertMeta, Idle
  <2> QED
    BY <1>1, <2>1, RaisedLess DEF NotHooked, InsertCount, LookupMeta, InsertMeta, Quiet
<1>2. ASSUME UNCHANGED <<kstat, ctx, hits>> PROVE Quiet
  BY <1>2 DEF Quiet, Raised, Key
<1>3. CASE Loader
  BY <1>2, <1>3 DEF Loader, AttachHard, AttachSoft, ReadCell, FileRead, FileFails, SeedCounts, SeedMeta,
                    kernelVars
<1>4. CASE Reader
  BY <1>2, <1>4 DEF Reader, ReaderTake, ReaderAdd, ReaderShow, kernelVars
<1>5. CASE UNCHANGED vars
  BY <1>2, <1>5 DEF vars, kernelVars
<1> QED
  BY <1>1, <1>3, <1>4, <1>5 DEF Next, Program

\* The kernel's counts are ahead of the programs'.
LEMMA KernelStaysAhead ==
  ASSUME TypeOK, KernelAhead, [Next]_vars
  PROVE  KernelAhead'
<1>1. \A k \in Keys, c \in Cpus : hits[k][c] \in Nat /\ kstat[k][c] \in Nat
  BY DEF TypeOK
<1>2. ASSUME NEW c \in Online, NEW level \in Levels, NEW k \in KeysOf(level), Raise(c, level, k)
      PROVE  KernelAhead'
  <2>1. /\ \A e, i : (e # k \/ i # c) => (Raised(e, i)' <=> Raised(e, i))
        /\ \A e \in Keys, i \in Cpus :
             kstat'[e][i] = IF e = k /\ i = c THEN kstat[e][i] + 1 ELSE kstat[e][i]
        /\ hits' = hits
    <3>1. /\ \A e, i : (e # k \/ i # c) => (Raised(e, i)' <=> Raised(e, i))
          /\ kstat' = [kstat EXCEPT ![k][c] = @ + 1] /\ k \in Keys /\ c \in Cpus /\ hits' = hits
      BY <1>2, RaiseStep
    <3>2. kstat \in [Keys -> [Cpus -> Nat]]
      BY DEF TypeOK
    <3> QED
      BY <3>1, <3>2
  <2>2. ASSUME NEW e \in Keys, NEW i \in Cpus
        PROVE  hits'[e][i] + (IF Raised(e, i)' THEN 1 ELSE 0) <= kstat'[e][i]
    <3>1. hits[e][i] + (IF Raised(e, i) THEN 1 ELSE 0) <= kstat[e][i]
      BY DEF KernelAhead
    <3>2. CASE e = k /\ i = c
      BY <1>1, <2>1, <3>1, <3>2
    <3>3. CASE e # k \/ i # c
      BY <1>1, <2>1, <3>1, <3>3
    <3> QED
      BY <3>2, <3>3
  <2> QED
    BY <2>2 DEF KernelAhead
<1>3. ASSUME NEW x \in Contexts, Found(x) \/ Missing(x)
      PROVE  KernelAhead'
  <2>1. PICK k : k = Key(x)
    OBVIOUS
  <2>2. kstat' = kstat
    BY <1>3 DEF Found, Missing
  <2>3. \A e, c : Raised(e, c)' => Raised(e, c)
    BY <1>3, <2>1, SeenStep, RaisedLess
  <2> QED
    BY <1>1, <1>3, <2>1, <2>2, <2>3, SeenStep DEF KernelAhead
<1>4. CASE Quiet
  BY <1>1, <1>4 DEF Quiet, KernelAhead
<1> QED
  BY <1>2, <1>3, <1>4, StepKinds

\* The kernel's counts are ahead of the file's.
LEMMA FileStaysBehind ==
  ASSUME TypeOK, FileBehind, [Next]_vars
  PROVE  FileBehind'
<1>1. /\ \A cell \in DOMAIN file : cell[1] \in Keys /\ cell[2] \in Cpus /\ file[cell] \in Nat
      /\ \A k \in Keys, c \in Cpus : kstat[k][c] \in Nat
  BY Constants DEF TypeOK, Keys
<1>2. ASSUME NEW c \in Online, NEW level \in Levels, NEW k \in KeysOf(level), Raise(c, level, k)
      PROVE  FileBehind'
  <2>1. /\ \A e \in Keys, i \in Cpus :
             kstat'[e][i] = IF e = k /\ i = c THEN kstat[e][i] + 1 ELSE kstat[e][i]
        /\ file' = file
    <3>1. kstat' = [kstat EXCEPT ![k][c] = @ + 1] /\ k \in Keys /\ c \in Cpus /\ file' = file
      BY <1>2, RaiseStep
    <3>2. kstat \in [Keys -> [Cpus -> Nat]]
      BY DEF TypeOK
    <3> QED
      BY <3>1, <3>2
  <2> QED
    BY <1>1, <2>1 DEF FileBehind
<1>3. ASSUME NEW k \in Hard, NEW c \in Online, ReadCell(k, c)
      PROVE  FileBehind'
  <2>1. kstat' = kstat
    BY <1>3 DEF ReadCell, kernelVars
  <2>2. /\ DOMAIN file' = DOMAIN file \cup {<<k, c>>}
        /\ \A cell \in DOMAIN file' : file'[cell] = IF cell = <<k, c>> THEN kstat[k][c] ELSE file[cell]
    BY <1>3 DEF ReadCell
  <2> QED
    BY <1>1, <2>1, <2>2, Constants DEF FileBehind, Keys
<1>4. ASSUME UNCHANGED <<kstat, file>> PROVE FileBehind'
  BY <1>4 DEF FileBehind
<1>5. ASSUME NEW x \in Contexts, Program(x) PROVE UNCHANGED <<kstat, file>>
  BY <1>5 DEF Program, NotHooked, Found, Missing, InsertCount, LookupMeta, InsertMeta, loaderVars
<1>6. CASE \/ AttachHard \/ AttachSoft \/ FileRead \/ FileFails \/ SeedMeta
           \/ \E k \in Hard : SeedCounts(k)
  BY <1>4, <1>6 DEF AttachHard, AttachSoft, FileRead, FileFails, SeedCounts, SeedMeta, kernelVars
<1>7. CASE Reader
  BY <1>4, <1>7 DEF Reader, ReaderTake, ReaderAdd, ReaderShow, kernelVars, loaderVars
<1>8. CASE UNCHANGED vars
  BY <1>4, <1>8 DEF vars, kernelVars, loaderVars
<1> QED
  BY <1>2, <1>3, <1>4, <1>5, <1>6, <1>7, <1>8 DEF Next, Loader

\* The kernel handles a number in one place.
LEMMA StillHandledOnce ==
  ASSUME TypeOK, HandledOnce, [Next]_vars
  PROVE  HandledOnce'
<1>1. ASSUME NEW c \in Online, NEW level \in Levels, NEW k \in KeysOf(level), Raise(c, level, k)
      PROVE  HandledOnce'
  <2> DEFINE x == <<c, level>>
  <2>1. /\ ctx'[x].key = k /\ \A y \in Contexts \ {x} : ctx'[y] = ctx[y]
    BY <1>1, RaiseStep
  <2>2. level = "hard" => \A y \in Contexts : Level(y) = "hard" => Key(y) # k
    <3>1. \A y \in Contexts : Level(y) = "hard" => y[1] \in Online /\ y = <<y[1], "hard">>
      BY ContextParts DEF Level
    <3> QED
      BY <1>1, <3>1 DEF Raise, Key
  <2>3. Level(x) = level
    BY DEF Level
  <2> HIDE DEF x
  <2>4. ASSUME NEW y \in Contexts, NEW z \in Contexts, Level(y) = "hard", Level(z) = "hard",
               ctx'[y].key = ctx'[z].key, ctx'[y].key # None
        PROVE  y = z
    <3>1. CASE y # x /\ z # x
      BY <2>1, <2>4, <3>1 DEF HandledOnce, Key
    <3>2. CASE y = x \/ z = x
      BY <2>1, <2>2, <2>3, <2>4, <3>2 DEF Key
    <3> QED
      BY <3>1, <3>2
  <2> QED
    BY <2>4 DEF HandledOnce, Key, Level
<1>2. ASSUME NEW x \in Contexts, Program(x)
      PROVE  HandledOnce'
  <2>1. \/ \E label : Goto(x, label)
        \/ Return(x)
    BY <1>2 DEF Program, NotHooked, Found, Missing, InsertCount, LookupMeta, InsertMeta
  <2>2. /\ ctx'[x].key \in {ctx[x].key, None}
        /\ \A y \in Contexts \ {x} : ctx'[y] = ctx[y]
    BY <2>1, MoveOfProgram DEF Idle
  <2> QED
    BY <2>2 DEF HandledOnce, Key, Level
<1>3. ASSUME UNCHANGED ctx PROVE HandledOnce'
  BY <1>3 DEF HandledOnce, Key, Level
<1>4. CASE Loader
  BY <1>3, <1>4 DEF Loader, AttachHard, AttachSoft, ReadCell, FileRead, FileFails, SeedCounts, SeedMeta,
                    kernelVars
<1>5. CASE Reader
  BY <1>3, <1>5 DEF Reader, ReaderTake, ReaderAdd, ReaderShow, kernelVars
<1>6. CASE UNCHANGED vars
  BY <1>3, <1>6 DEF vars, kernelVars
<1> QED
  BY <1>1, <1>2, <1>4, <1>5, <1>6 DEF Next

\* The columns of an online machine go to as many CPUs, whichever they are: what is
\* seeded for a number is in all no more than the kernel's count.
LEMMA SeedTotal ==
  ASSUME TypeOK, FileBehind, lpc = "seed", NEW k \in Hard
  PROVE  FromFile(k) \in [Cpus -> Nat] /\ Total(FromFile(k)) <= Total(kstat[k])
<1>1. Len(Columns) \in Nat /\ \A i \in Nat : i < Len(Columns) => Columns[i + 1] \in Online
  BY Constants, IrqAssumption
<1>2. DOMAIN file = Hard \X Online /\ file \in [DOMAIN file -> Nat] /\ k \in Keys
  BY DEF TypeOK, Keys
<1>3. kstat[k] \in [Cpus -> Nat]
  BY <1>2 DEF TypeOK
<1>4. \A c \in Online : file[<<k, c>>] \in Nat /\ file[<<k, c>>] <= kstat[k][c] /\ c \in Cpus
  BY <1>2, Constants DEF FileBehind
<1> DEFINE f == FromFile(k)
           p == [i \in Cpus |-> IF i < Len(Columns) THEN Columns[i + 1] ELSE i]
           g == kstat[k]
<1>5. \A i \in Cpus : i \in Nat
  BY Constants DEF Cpus
<1>6. \A i \in Cpus : f[i] \in Nat /\ (f[i] # 0 => p[i] \in Cpus /\ f[i] <= g[p[i]])
  BY <1>1, <1>4, <1>5 DEF FromFile
<1>7. \A i \in Cpus : f[i] # 0 => i < Len(Columns) /\ p[i] = Columns[i + 1]
  BY DEF FromFile
<1>8. \A i, j \in Cpus : f[i] # 0 /\ f[j] # 0 /\ p[i] = p[j] => i = j
  <2> SUFFICES ASSUME NEW i \in Cpus, NEW j \in Cpus, f[i] # 0, f[j] # 0, p[i] = p[j], i < j
               PROVE  FALSE
    BY <1>5
  <2>1. i + 1 \in 1 .. Len(Columns) /\ j + 1 \in 1 .. Len(Columns) /\ i + 1 < j + 1
    BY <1>1, <1>5, <1>7
  <2>2. Columns[i + 1] < Columns[j + 1]
    BY <2>1, IrqAssumption
  <2>3. Columns[i + 1] \in Nat
    BY <1>1, <1>4, <1>5, <1>7
  <2> QED
    BY <1>7, <2>2, <2>3
<1>9. f \in [Cpus -> Nat] /\ \A i \in Cpus : g[i] \in Nat
  BY <1>3, <1>6 DEF FromFile
<1> HIDE DEF f, p, g
<1>10. SumFunctionOnSet(f, Cpus) <= SumFunctionOnSet(g, Cpus)
  BY <1>6, <1>8, <1>9, SomeCpus, SumMoved
<1> QED
  BY <1>9, <1>10 DEF Total, f, g

\* Seeding and counting keep the totals of a number together.
LEMMA StillSeededOnce ==
  ASSUME TypeOK, TypeOK', CountInv, OriginInv, [Next]_vars
  PROVE  SeededOnce'
<1>1. KernelAhead /\ FileBehind /\ HandledOnce /\ SeededOnce
  BY DEF OriginInv
<1> DEFINE Coming(k) == \E c \in Online : Raised(k, c)
           ComingNext(k) == \E c \in Online : Raised(k, c)'
           Once(k) == \/ seeded[k] = Zeroes
                      \/ k \in Hard /\ Total(counts[k]) + (IF Coming(k) THEN 1 ELSE 0) <= Total(kstat[k]) + 1
           OnceNext(k) == \/ seeded'[k] = Zeroes
                          \/ k \in Hard /\ Total(counts'[k]) + (IF ComingNext(k) THEN 1 ELSE 0)
                                             <= Total(kstat'[k]) + 1
<1>2. \A k \in DOMAIN counts : Once(k)
  BY <1>1 DEF SeededOnce
<1> SUFFICES ASSUME NEW k \in DOMAIN counts' PROVE OnceNext(k)
  BY DEF SeededOnce, Zeroes
<1>3. /\ DOMAIN counts \subseteq Keys /\ k \in Keys
      /\ kstat[k] \in [Cpus -> Nat] /\ Total(kstat[k]) \in Nat
      /\ kstat'[k] \in [Cpus -> Nat] /\ Total(kstat'[k]) \in Nat
      /\ k \in DOMAIN counts => counts[k] \in [Cpus -> Nat] /\ Total(counts[k]) \in Nat
  BY TotalType DEF TypeOK
<1>4. ASSUME k \in DOMAIN counts, counts'[k] = counts[k], seeded'[k] = seeded[k], kstat' = kstat,
             \A e, i : Raised(e, i)' => Raised(e, i)
      PROVE  OnceNext(k)
  BY <1>2, <1>3, <1>4
<1>5. ASSUME NEW c \in Online, NEW level \in Levels, NEW e \in KeysOf(level), Raise(c, level, e)
      PROVE  OnceNext(k)
  <2>1. k \in DOMAIN counts /\ UNCHANGED <<counts, seeded>>
    BY <1>5, RaiseStep
  <2>4. kstat' = [kstat EXCEPT ![e][c] = @ + 1] /\ e \in Keys /\ c \in Cpus
    BY <1>5, RaiseStep
  <2>5. kstat \in [Keys -> [Cpus -> Nat]]
    BY DEF TypeOK
  <2>2. CASE k = e
    <3>1. c \in Cpus /\ kstat'[k] = [kstat[k] EXCEPT ![c] = @ + 1]
      BY <1>3, <2>2, <2>4, <2>5
    <3>2. Total(kstat'[k]) = Total(kstat[k]) + 1
      BY <1>3, <3>1, TotalCounts
    <3> QED
      BY <1>2, <1>3, <2>1, <3>2
  <2>3. CASE k # e
    <3>1. kstat'[k] = kstat[k]
      BY <1>3, <2>3, <2>4, <2>5
    <3>2. ComingNext(k) => Coming(k)
      BY <1>5, <2>3, RaiseStep
    <3> QED
      BY <1>2, <1>3, <2>1, <3>1, <3>2
  <2> QED
    BY <2>2, <2>3
<1>6. ASSUME NEW x \in Contexts, Found(x)
      PROVE  OnceNext(k)
  <2>1. PICK e : e = Key(x)
    OBVIOUS
  <2>2. /\ e \in Keys /\ x[1] \in Cpus /\ x[1] \in Online /\ e \in KeysOf(Level(x))
        /\ ctx[x].pc = "raised" /\ ctx'[x].pc # "raised"
        /\ \A y \in Contexts \ {x} : ctx'[y] = ctx[y]
        /\ Raised(e, x[1])
    BY <1>6, <2>1, SeenStep
  <2>3. /\ counts' = [counts EXCEPT ![e][x[1]] = @ + 1] /\ UNCHANGED <<kstat, seeded>>
        /\ k \in DOMAIN counts
    BY <1>6, <2>1 DEF Found
  <2>4. \A f, i : Raised(f, i)' => Raised(f, i)
    BY <2>2, RaisedLess
  <2>5. CASE k = e
    <3>1. counts'[k] = [counts[k] EXCEPT ![x[1]] = @ + 1]
      BY <1>3, <2>3, <2>5
    <3>2. Total(counts'[k]) = Total(counts[k]) + 1
      BY <1>3, <2>2, <2>3, <3>1, TotalCounts
    <3>3. ASSUME k \in Hard, NEW y \in Contexts, ctx'[y].pc = "raised", ctx'[y].key = k PROVE FALSE
      <4>1. y # x /\ ctx[y].pc = "raised" /\ Key(y) = k /\ Key(x) = k
        BY <2>1, <2>2, <2>5, <3>3 DEF Key
      <4>2. Key(y) \in KeysOf(Level(y)) /\ Key(x) \in KeysOf(Level(x)) /\ Level(x) \in Levels /\ Level(y) \in Levels
        BY <2>2, <4>1, KeyOfProgram, ContextParts DEF Level
      <4>3. Level(x) = "hard" /\ Level(y) = "hard" /\ k # None
        BY <3>3, <4>1, <4>2, IrqAssumption DEF Levels, KeysOf, Keys
      <4> QED
        BY <1>1, <4>1, <4>3 DEF HandledOnce
    <3>4. k \in Hard => ~ ComingNext(k)
      BY <3>3 DEF Raised, Key
    <3>5. Coming(k)
      BY <2>2, <2>5
    <3> QED
      BY <1>2, <1>3, <2>3, <3>2, <3>4, <3>5
  <2>6. CASE k # e
    <3>1. counts'[k] = counts[k]
      BY <2>3, <2>6
    <3> QED
      BY <1>4, <2>3, <2>4, <3>1
  <2> QED
    BY <2>5, <2>6
<1>7. ASSUME NEW x \in Contexts, InsertCount(x)
      PROVE  OnceNext(k)
  <2>1. /\ UNCHANGED <<kstat, seeded>>
        /\ \A f, i : Raised(f, i)' => Raised(f, i)
    <3>1. ctx'[x].pc # "raised" /\ \A y \in Contexts \ {x} : ctx'[y] = ctx[y]
      BY <1>7, MoveOfProgram DEF InsertCount
    <3> QED
      BY <1>7, <3>1, RaisedLess DEF InsertCount
  <2>2. CASE k \in DOMAIN counts
    <3>1. counts'[k] = counts[k]
      BY <1>7, <2>2 DEF InsertCount, Admits, With
    <3> QED
      BY <1>4, <2>1, <2>2, <3>1
  <2>3. CASE k \notin DOMAIN counts
    <3>1. \A c \in Cpus : seeded[k][c] = 0
      BY <1>3, <2>3 DEF CountInv
    <3>2. seeded[k] = Zeroes
      BY <1>3, <3>1 DEF TypeOK, Zeroes
    <3> QED
      BY <2>1, <3>2
  <2> QED
    BY <2>2, <2>3
<1>8. ASSUME NEW e \in Hard, SeedCounts(e)
      PROVE  OnceNext(k)
  <2>1. UNCHANGED <<kstat, ctx>> /\ lpc = "seed"
    BY <1>8 DEF SeedCounts, kernelVars
  <2>2. \A f, i : Raised(f, i)' => Raised(f, i)
    BY <2>1 DEF Raised, Key
  <2>3. CASE k \in DOMAIN counts
    <3>1. counts'[k] = counts[k] /\ seeded'[k] = seeded[k]
      <4>1. CASE Admits(e)
        BY <1>3, <1>8, <2>3, <4>1 DEF SeedCounts, Admits, With, TypeOK
      <4>2. CASE ~ Admits(e)
        BY <1>8, <4>2 DEF SeedCounts
      <4> QED
        BY <4>1, <4>2
    <3> QED
      BY <1>4, <2>1, <2>2, <2>3, <3>1
  <2>4. CASE k \notin DOMAIN counts
    <3>1. k = e /\ counts' = With(e, FromFile(e))
      BY <1>8, <2>4 DEF SeedCounts, With
    <3>2. counts'[k] = FromFile(k)
      BY <3>1 DEF With
    <3>3. FromFile(k) \in [Cpus -> Nat] /\ Total(FromFile(k)) <= Total(kstat[k])
      BY <1>1, <2>1, <3>1, SeedTotal
    <3>4. Total(FromFile(k)) \in Nat
      BY <3>3, TotalType
    <3> HIDE DEF Coming, ComingNext
    <3> QED
      BY <1>3, <2>1, <3>1, <3>2, <3>3, <3>4
  <2> QED
    BY <2>3, <2>4
<1>9. ASSUME Quiet, UNCHANGED <<counts, seeded>> PROVE OnceNext(k)
  BY <1>4, <1>9 DEF Quiet
<1>10. ASSUME NEW x \in Contexts, Missing(x)
       PROVE  OnceNext(k)
  <2>1. PICK e : e = Key(x)
    OBVIOUS
  <2>2. ctx'[x].pc # "raised" /\ \A y \in Contexts \ {x} : ctx'[y] = ctx[y]
    BY <1>10, <2>1, SeenStep
  <2>3. \A f, i : Raised(f, i)' => Raised(f, i)
    BY <2>2, RaisedLess
  <2> QED
    BY <1>4, <1>10, <2>3 DEF Missing, mapVars
<1>11. \/ UNCHANGED <<counts, seeded>>
       \/ \E x \in Contexts : Found(x) \/ InsertCount(x)
       \/ \E e \in Hard : SeedCounts(e)
  BY DEF Next, Program, Loader, Reader, Raise, NotHooked, Missing, LookupMeta, InsertMeta,
         AttachHard, AttachSoft, ReadCell, FileRead, FileFails, SeedMeta,
         ReaderTake, ReaderAdd, ReaderShow, vars, mapVars
<1> QED
  BY <1>5, <1>6, <1>7, <1>8, <1>9, <1>10, <1>11, StepKinds

\* Where the counts come from.
THEOREM OriginInvariant == Spec => []OriginInv
<1>1. Init => OriginInv
  <2> SUFFICES ASSUME Init PROVE OriginInv
    OBVIOUS
  <2>1. /\ DOMAIN counts = {} /\ DOMAIN file = {} /\ \A x \in Contexts : ctx[x] = Idle
        /\ \A k \in Keys, c \in Cpus : hits[k][c] = 0 /\ kstat[k][c] \in Nat
    BY DEF Init, Zeroes
  <2> QED
    BY <2>1 DEF OriginInv, KernelAhead, FileBehind, HandledOnce, SeededOnce, Raised, Key, Idle
<1>2. TypeOK /\ TypeOK' /\ CountInv /\ OriginInv /\ [Next]_vars => OriginInv'
  BY KernelStaysAhead, FileStaysBehind, StillHandledOnce, StillSeededOnce DEF OriginInv
<1> QED
  BY <1>1, <1>2, TypeCorrect, CountInvariant, PTL DEF Spec

\* No interrupt is counted twice, by the file and by its program, except for one of
\* each number.
THEOREM NoneCountedTwice == Spec => []NothingTwice
<1>1. TypeOK /\ CountInv /\ OriginInv => NothingTwice
  <2> SUFFICES ASSUME TypeOK, CountInv, OriginInv, NEW k \in DOMAIN counts
               PROVE  Total(counts[k]) <= Total(kstat[k]) + (IF k \in Hard THEN 1 ELSE 0)
    BY DEF NothingTwice
  <2>1. /\ k \in Keys /\ counts[k] \in [Cpus -> Nat] /\ kstat[k] \in [Cpus -> Nat]
        /\ Total(counts[k]) \in Nat /\ Total(kstat[k]) \in Nat
    BY TotalType DEF TypeOK
  <2>2. CASE seeded[k] = Zeroes
    <3>1. ASSUME NEW c \in Cpus PROVE counts[k][c] <= kstat[k][c]
      <4>1. hits[k][c] + seeded[k][c] \in {counts[k][c], counts[k][c] + 1} /\ seeded[k][c] = 0
        BY <2>1, <2>2 DEF CountInv, CountsEveryHit, Zeroes
      <4>2. hits[k][c] + (IF Raised(k, c) THEN 1 ELSE 0) <= kstat[k][c]
        BY <2>1 DEF OriginInv, KernelAhead
      <4>3. hits[k][c] \in Nat /\ counts[k][c] \in Nat /\ kstat[k][c] \in Nat
        BY <2>1 DEF TypeOK
      <4> QED
        BY <4>1, <4>2, <4>3
    <3>2. Total(counts[k]) <= Total(kstat[k])
      BY <2>1, <3>1, TotalGrows
    <3> QED
      BY <2>1, <3>2
  <2>3. CASE seeded[k] # Zeroes
    <3>1. k \in Hard /\ Total(counts[k]) + (IF \E c \in Online : Raised(k, c) THEN 1 ELSE 0)
                          <= Total(kstat[k]) + 1
      BY <2>3 DEF OriginInv, SeededOnce
    <3> QED
      BY <2>1, <3>1
  <2> QED
    BY <2>2, <2>3
<1> QED
  BY <1>1, TypeCorrect, CountInvariant, OriginInvariant, PTL
=============================================================================

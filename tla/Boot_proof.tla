----------------------------- MODULE Boot_proof -----------------------------
(***************************************************************************)
(* kernel_main() for any number of cores, slots and PMP entries, and any   *)
(* memory map the linker may make: the tasks find all prepared, and the    *)
(* PMP of a core grants, at every one of its register writes, nothing but  *)
(* the three ranges, and exactly these once a user is in a window; what    *)
(* the report tells of one core is true of all.                            *)
(***************************************************************************)
EXTENDS Boot, SequenceTheorems, WellFoundedInduction, TLAPS

-----------------------------------------------------------------------------
(* The inductive invariant *)

\* The place of a core in pmp_apply_all_cores().
Pos(c) == IF c = MainCore THEN 1 ELSE IF c < MainCore THEN c + 2 ELSE c + 1

\* How many registers kernel_main() has written on a core by now.
Done(c) ==
    IF at \in {"mutex", "unroute"} THEN 0
    ELSE IF at # "apply" \/ Pos(c) <= n THEN 5 * Last4
    ELSE IF Pos(c) = n + 1 THEN csrw ELSE 0

\* What k writes make of registers that were off: the addresses of the table come
\* first, and an entry without its configuration is still off.
Written(f, k, t) ==
    \A i \in Entries :
        /\ i < k => f[i].addr = t[i].addr
        /\ IF 4 * Last4 + (i \div 4) < k THEN f[i] = t[i] ELSE f[i].mode = "OFF"

\* The loop counters stay in their loops, and what each part of kernel_main()
\* has done is done by the time the next one runs.
OrderInv ==
    /\ at \in {"mutex", "report", "kernel", "done"} => n = 0
    /\ at \in {"unroute", "apply"} => n < NumCores
    /\ at \in {"slots", "hosts"} => n < NumSlots
    /\ at # "apply" => csrw = 0
    /\ at # "mutex" => mux
    /\ at = "unroute" => \A c \in routed : c >= n
    /\ at \notin {"mutex", "unroute"} => routed = {}
    /\ at = "slots" => \A s \in Slots : s < n => s \in ready
    /\ at \in {"report", "kernel", "hosts", "done"} => ready = Slots
    /\ at \in {"kernel", "hosts", "done"} => told # {}

\* Only a task that exists opens a window, and none exists before kernel_task.
TaskInv ==
    /\ created # {} => at \in {"hosts", "done"}
    /\ \A c \in Cores : window[c] # None => window[c] \in created

\* The registers of a core on which nothing was locked are those of the table as
\* far as they have been written.
PmpInv ==
    \A c \in Cores : Unlocked(pmp[c]) => Written(pmp[c], Done(c), Table(layout))

IInv == TypeOK /\ OrderInv /\ TaskInv /\ PmpInv

-----------------------------------------------------------------------------
(* Lemmas on the table and what it lets U-mode reach *)

LEMMA Sizes ==
    /\ Top \in Nat \ {0} /\ Last4 \in Nat /\ Last4 >= 2
    /\ NumCores \in Nat \ {0} /\ NumSlots \in Nat \ {0} /\ MainCore \in Cores
    /\ None \notin Slots /\ Kernel \notin Slots
  BY SizeAssumption, BootAssumption DEF Cores

LEMMA GrantsTyped ==
    ASSUME NEW l \in Layouts, NEW g \in 1 .. 3
    PROVE  /\ Grants(l)[g].range.lo \in Unit /\ Grants(l)[g].range.hi \in Unit
           /\ Grants(l)[g].perm \in SUBSET Perms
  <1>1. Grants(l)[g].perm \in SUBSET Perms
    <2>1. g = 1 \/ g = 2 \/ g = 3
      OBVIOUS
    <2>2. QED BY <2>1 DEF Grants, Perms
  <1>2. QED BY <1>1, LayoutAssumption

\* The three ranges are apart in any order.
LEMMA GrantsApart ==
    ASSUME NEW l \in Layouts, NEW g \in 1 .. 3, NEW h \in 1 .. 3, g # h, NEW x,
           x \in Within(Grants(l)[g].range)
    PROVE  x \notin Within(Grants(l)[h].range)
  <1>1. CASE h < g
    <2>1. h \in 1 .. g - 1
      BY <1>1
    <2>2. Within(Grants(l)[g].range) \cap Within(Grants(l)[h].range) = {}
      BY <2>1, LayoutAssumption
    <2>3. QED BY <2>2
  <1>2. CASE g < h
    <2>1. g \in 1 .. h - 1
      BY <1>2
    <2>2. Within(Grants(l)[h].range) \cap Within(Grants(l)[g].range) = {}
      BY <2>1, LayoutAssumption
    <2>3. QED BY <2>2
  <1>3. QED BY <1>1, <1>2

\* Intended, grant by grant.
LEMMA IntendedIs ==
    ASSUME NEW l, NEW op, NEW x
    PROVE  x \in Intended(l, op) <=>
             \E g \in 1 .. 3 : op \in Grants(l)[g].perm /\ x \in Within(Grants(l)[g].range)
  BY DEF Intended

LEMMA TableIs ==
    ASSUME NEW l, NEW i \in Entries
    PROVE  Table(l)[i] =
             IF i >= 6 THEN Off(0)
             ELSE IF i % 2 = 0 THEN Off(Grants(l)[(i \div 2) + 1].range.lo)
             ELSE [addr |-> Grants(l)[(i \div 2) + 1].range.hi, mode |-> "TOR",
                   perm |-> Grants(l)[(i \div 2) + 1].perm, lock |-> FALSE]
  BY Zenon DEF Table

\* An entry past the table is off; a base is off too, and a limit grants its range.
LEMMA TableEntry ==
    ASSUME NEW l \in Layouts, NEW i \in Entries
    PROVE  /\ Table(l)[i] \in Entry /\ ~Table(l)[i].lock
           /\ Table(l)[i].mode # "OFF" => i \in {1, 3, 5}
  <1>1. 0 \in Unit
    BY Sizes DEF Unit
  <1>2. CASE i >= 6
    BY <1>1, <1>2 DEF Table, Off, Entry
  <1>3. CASE i < 6
    <2>1. i = 0 \/ i = 1 \/ i = 2 \/ i = 3 \/ i = 4 \/ i = 5
      BY <1>3 DEF Entries
    <2> DEFINE g == (i \div 2) + 1
    <2>2. g \in 1 .. 3
      BY <2>1
    <2>3. /\ Grants(l)[g].range.lo \in Unit /\ Grants(l)[g].range.hi \in Unit
          /\ Grants(l)[g].perm \in SUBSET Perms
      BY <2>2, GrantsTyped
    <2>4. Table(l)[i] = IF i % 2 = 0 THEN Off(Grants(l)[g].range.lo)
                        ELSE [addr |-> Grants(l)[g].range.hi, mode |-> "TOR",
                              perm |-> Grants(l)[g].perm, lock |-> FALSE]
      <3>1. (i >= 6) = FALSE
        BY <1>3, <2>1
      <3>2. QED BY <3>1, TableIs, Zenon DEF g
    <2>5. i % 2 # 0 => i \in {1, 3, 5}
      BY <2>1
    <2> HIDE DEF g
    <2>6. QED BY <2>3, <2>4, <2>5 DEF Off, Entry
  <1>4. QED BY <1>2, <1>3 DEF Entries

LEMMA TablePair ==
    ASSUME NEW l, NEW g \in 1 .. 3
    PROVE  /\ 2 * g - 2 \in Entries /\ 2 * g - 1 \in Entries
           /\ Table(l)[2 * g - 2].addr = Grants(l)[g].range.lo
           /\ Table(l)[2 * g - 1] =
                [addr |-> Grants(l)[g].range.hi, mode |-> "TOR",
                 perm |-> Grants(l)[g].perm, lock |-> FALSE]
  <1>1. 2 * g - 2 \in Entries /\ 2 * g - 1 \in Entries
    BY Sizes DEF Entries
  <1>2. /\ (2 * g - 2) \div 2 = g - 1 /\ (2 * g - 2) % 2 = 0
        /\ (2 * g - 1) \div 2 = g - 1 /\ (2 * g - 1) % 2 = 1
    OBVIOUS
  <1>3. /\ ((2 * g - 2) \div 2) + 1 = g /\ ((2 * g - 1) \div 2) + 1 = g
        /\ ~(2 * g - 2 >= 6) /\ ~(2 * g - 1 >= 6)
    BY <1>2
  <1>4. Table(l)[2 * g - 2] = Off(Grants(l)[g].range.lo)
    <2>1. (2 * g - 2 >= 6) = FALSE
      BY <1>3
    <2>2. QED BY <1>1, <1>2, <1>3, <2>1, TableIs, Zenon
  <1>5. Table(l)[2 * g - 1] =
          [addr |-> Grants(l)[g].range.hi, mode |-> "TOR",
           perm |-> Grants(l)[g].perm, lock |-> FALSE]
    <2>1. ((2 * g - 1) % 2 = 0) = FALSE /\ (2 * g - 1 >= 6) = FALSE
      BY <1>2, <1>3
    <2>2. QED BY <1>1, <1>3, <2>1, TableIs, Zenon
  <1>6. QED BY <1>1, <1>4, <1>5 DEF Off

\* In registers that are written as far as k, an entry that matches is the limit
\* of a grant, and matches what the grant covers.
LEMMA MatchesGrant ==
    ASSUME NEW l \in Layouts, NEW f, NEW k \in 0 .. 5 * Last4, Written(f, k, Table(l)),
           NEW i \in Entries, NEW x \in Unit, Matches(f, i, x)
    PROVE  \E g \in 1 .. 3 : /\ i = 2 * g - 1 /\ x \in Within(Grants(l)[g].range)
                             /\ f[i].perm = Grants(l)[g].perm
  <1>1. f[i].mode # "OFF"
    BY DEF Matches
  <1>2. f[i] = Table(l)[i] /\ 4 * Last4 + (i \div 4) < k
    BY <1>1 DEF Written
  <1>3. i \in {1, 3, 5}
    BY <1>1, <1>2, TableEntry
  <1>4. PICK g \in 1 .. 3 : i = 2 * g - 1
    <2>1. i = 2 * 1 - 1 \/ i = 2 * 2 - 1 \/ i = 2 * 3 - 1
      BY <1>3
    <2>2. QED BY <2>1
  <1>5. f[i] = [addr |-> Grants(l)[g].range.hi, mode |-> "TOR",
                perm |-> Grants(l)[g].perm, lock |-> FALSE]
    BY <1>2, <1>4, TablePair
  <1>6. Base(f, i) = Grants(l)[g].range.lo
    <2>1. i - 1 = 2 * g - 2 /\ i # 0 /\ i - 1 \in Entries
      <3>1. 2 * g - 2 \in Entries
        BY TablePair
      <3>2. QED BY <1>4, <3>1
    <2>2. i - 1 < k
      BY <1>2, Sizes DEF Entries
    <2>3. f[i - 1].addr = Table(l)[i - 1].addr
      BY <2>1, <2>2 DEF Written
    <2>4. QED BY <2>1, <2>3, TablePair DEF Base
  <1>7. x \in Within(Grants(l)[g].range)
    <2>1. Grants(l)[g].range.lo <= x /\ x < Grants(l)[g].range.hi
      BY <1>5, <1>6 DEF Matches
    <2>2. QED BY <2>1, LayoutAssumption DEF Within, Unit
  <1>8. QED BY <1>4, <1>5, <1>7

\* No half-written table lets U-mode reach more than the three ranges.
LEMMA NeverMore ==
    ASSUME NEW l \in Layouts, NEW f, NEW k \in 0 .. 5 * Last4, Written(f, k, Table(l)), NEW op
    PROVE  Reach(f, op) \subseteq Intended(l, op)
  <1> SUFFICES ASSUME NEW x \in Reach(f, op)
               PROVE  x \in Intended(l, op)
    OBVIOUS
  <1>1. x \in Unit
    BY DEF Reach
  <1>2. PICK i \in Entries : Matches(f, i, x) /\ op \in f[i].perm
    BY DEF Reach
  <1>3. PICK g \in 1 .. 3 : x \in Within(Grants(l)[g].range) /\ f[i].perm = Grants(l)[g].perm
    BY <1>1, <1>2, MatchesGrant
  <1>4. QED BY <1>2, <1>3, IntendedIs

\* The whole table lets it reach all of them, each with its permissions, because
\* no earlier entry matches within a later range.
LEMMA AllOfThem ==
    ASSUME NEW l \in Layouts, NEW f, Written(f, 5 * Last4, Table(l)), NEW op
    PROVE  Intended(l, op) \subseteq Reach(f, op)
  <1> SUFFICES ASSUME NEW x \in Intended(l, op)
               PROVE  x \in Reach(f, op)
    OBVIOUS
  <1>1. PICK g \in 1 .. 3 : op \in Grants(l)[g].perm /\ x \in Within(Grants(l)[g].range)
    BY IntendedIs
  <1>2. x \in Unit /\ Grants(l)[g].range.lo <= x /\ x < Grants(l)[g].range.hi
    <2>1. Grants(l)[g].range.lo \in Unit /\ Grants(l)[g].range.hi \in Unit
      BY GrantsTyped
    <2>2. QED BY <1>1, <2>1, Sizes DEF Within, Unit
  <1>3. \A i \in Entries : f[i] = Table(l)[i]
    <2>1. \A i \in Entries : 4 * Last4 + (i \div 4) < 5 * Last4
      BY Sizes DEF Entries
    <2>2. QED BY <2>1 DEF Written
  <1> DEFINE limit == 2 * g - 1
  <1>4. /\ limit \in Entries /\ limit # 0 /\ limit - 1 = 2 * g - 2
        /\ f[limit] = [addr |-> Grants(l)[g].range.hi, mode |-> "TOR",
                       perm |-> Grants(l)[g].perm, lock |-> FALSE]
    <2>1. 2 * g - 1 \in Entries /\ limit # 0 /\ limit - 1 = 2 * g - 2
      <3>1. 2 * g - 1 \in Entries
        BY TablePair
      <3>2. QED BY <3>1
    <2>2. Table(l)[limit] = [addr |-> Grants(l)[g].range.hi, mode |-> "TOR",
                             perm |-> Grants(l)[g].perm, lock |-> FALSE]
      BY TablePair, Zenon
    <2>3. QED BY <1>3, <2>1, <2>2, Zenon
  <1>5. Base(f, limit) = Grants(l)[g].range.lo
    <2>1. f[limit - 1].addr = Grants(l)[g].range.lo
      <3>1. 2 * g - 2 \in Entries /\ Table(l)[2 * g - 2].addr = Grants(l)[g].range.lo
        BY TablePair, Zenon
      <3>2. QED BY <1>3, <1>4, <3>1, Zenon
    <2>2. QED BY <1>4, <2>1 DEF Base
  <1>6. Matches(f, limit, x) /\ op \in f[limit].perm
    BY <1>1, <1>2, <1>4, <1>5 DEF Matches
  <1>7. ASSUME NEW j \in 0 .. limit - 1, Matches(f, j, x)
        PROVE  FALSE
    <2>1. j \in Entries /\ 5 * Last4 \in 0 .. 5 * Last4
      BY <1>4, Sizes DEF Entries
    <2>2. PICK h \in 1 .. 3 : j = 2 * h - 1 /\ x \in Within(Grants(l)[h].range)
      BY <1>2, <1>7, <2>1, MatchesGrant
    <2>3. h # g
      BY <1>7, <2>2
    <2>4. QED BY <1>1, <2>2, <2>3, GrantsApart
  <1> HIDE DEF limit
  <1>8. QED BY <1>2, <1>4, <1>6, <1>7 DEF Reach

-----------------------------------------------------------------------------
(* Lemmas on the register writes *)

\* A write leaves the entries entries, and unlocks none.
LEMMA WriteTyped ==
    ASSUME NEW f \in [Entries -> Entry], NEW t \in [Entries -> Entry],
           NEW k \in 0 .. 5 * Last4 - 1
    PROVE  /\ RegisterWritten(f, k, t) \in [Entries -> Entry]
           /\ \A i \in Entries : f[i].lock => RegisterWritten(f, k, t)[i] = f[i] \/
                                              RegisterWritten(f, k, t)[i].lock
  <1>1. CASE k \in Entries
    <2> DEFINE g == [f EXCEPT ![k] = [f[k] EXCEPT !.addr = t[k].addr]]
    <2>1. RegisterWritten(f, k, t) \in {f, g}
      BY <1>1 DEF RegisterWritten, WriteAddr
    <2>2. [f[k] EXCEPT !.addr = t[k].addr] \in Entry /\ [f[k] EXCEPT !.addr = t[k].addr].lock = f[k].lock
      <3>1. f[k] \in Entry /\ t[k].addr \in Unit
        BY <1>1 DEF Entry
      <3>2. QED BY <3>1 DEF Entry
    <2>3. g \in [Entries -> Entry] /\ \A i \in Entries : g[i].lock = f[i].lock
      <3> DEFINE e == [f[k] EXCEPT !.addr = t[k].addr]
      <3>1. e \in Entry /\ e.lock = f[k].lock
        BY <2>2
      <3> HIDE DEF e
      <3>2. [f EXCEPT ![k] = e] \in [Entries -> Entry]
        BY <1>1, <3>1
      <3>3. \A i \in Entries : [f EXCEPT ![k] = e][i] = IF i = k THEN e ELSE f[i]
        BY <1>1
      <3>4. \A i \in Entries : [f EXCEPT ![k] = e][i].lock = f[i].lock
        BY <3>1, <3>3
      <3>5. QED BY <3>2, <3>4 DEF e
    <2> HIDE DEF g
    <2>4. QED BY <2>1, <2>3
  <1>2. CASE k \notin Entries
    <2> DEFINE w == k - 4 * Last4
               g == WriteCfg(f, w, t)
    <2>1. RegisterWritten(f, k, t) = g
      BY <1>2 DEF RegisterWritten
    <2>2. g = [i \in Entries |-> IF i \div 4 = w /\ ~f[i].lock
                                THEN [t[i] EXCEPT !.addr = f[i].addr] ELSE f[i]]
      BY DEF WriteCfg
    <2> HIDE DEF w
    <2>3. ASSUME NEW i \in Entries
          PROVE  f[i] \in Entry /\ [t[i] EXCEPT !.addr = f[i].addr] \in Entry
      <3>1. f[i] \in Entry /\ t[i] \in Entry
        OBVIOUS
      <3>2. QED BY <3>1 DEF Entry
    <2>4. g \in [Entries -> Entry] /\ \A i \in Entries : f[i].lock => g[i] = f[i]
      BY <2>2, <2>3
    <2>5. QED BY <2>1, <2>4
  <1>3. QED BY <1>1, <1>2

\* Where nothing is locked, one more register is written as the table says.
LEMMA OneMoreWritten ==
    ASSUME NEW l \in Layouts, NEW f \in [Entries -> Entry], Unlocked(f),
           NEW k \in 0 .. 5 * Last4 - 1, Written(f, k, Table(l))
    PROVE  Written(RegisterWritten(f, k, Table(l)), k + 1, Table(l))
  <1> DEFINE t == Table(l)
  <1>1. \A i \in Entries : ~f[i].lock /\ t[i] \in Entry /\ f[i] \in Entry
    BY TableEntry DEF Unlocked
  <1>2. CASE k \in Entries
    <2> DEFINE e == [f[k] EXCEPT !.addr = t[k].addr]
               g == [f EXCEPT ![k] = e]
    <2>1. RegisterWritten(f, k, t) = g
      <3>1. ~(f[k].lock \/ (k + 1 \in Entries /\ f[k + 1].lock /\ f[k + 1].mode = "TOR"))
        BY <1>1, <1>2
      <3>2. QED BY <1>2, <3>1 DEF RegisterWritten, WriteAddr
    <2>2. e.addr = t[k].addr /\ e.mode = f[k].mode
      <3>1. f[k] \in Entry
        BY <1>1, <1>2
      <3>2. QED BY <3>1 DEF Entry
    <2> HIDE DEF e, t
    <2>3. \A i \in Entries : g[i] = IF i = k THEN e ELSE f[i]
      BY <1>2
    <2> HIDE DEF g
    <2>4. ASSUME NEW i \in Entries
          PROVE  /\ i < k + 1 => g[i].addr = t[i].addr
                 /\ g[i].mode = "OFF" /\ ~(4 * Last4 + (i \div 4) < k + 1)
      <3>1. i < k => f[i].addr = t[i].addr
        BY DEF Written, t
      <3>2. ~(4 * Last4 + (i \div 4) < k + 1)
        BY <1>2, Sizes DEF Entries
      <3>3. ~(4 * Last4 + (i \div 4) < k)
        BY <1>2, Sizes DEF Entries
      <3>4. f[i].mode = "OFF"
        BY <3>3 DEF Written
      <3>5. i < k + 1 => i < k \/ i = k
        BY DEF Entries
      <3>6. QED BY <2>2, <2>3, <3>1, <3>2, <3>4, <3>5
    <2>5. Written(g, k + 1, t)
      BY <2>4 DEF Written
    <2>6. QED BY <2>1, <2>5 DEF t
  <1>3. CASE k \notin Entries
    <2> DEFINE w == k - 4 * Last4
               g == WriteCfg(f, w, t)
    <2>1. RegisterWritten(f, k, t) = g /\ w \in Nat /\ k = 4 * Last4 + w
      BY <1>3, Sizes DEF RegisterWritten, Entries
    <2>2. \A i \in Entries : i < k
      BY <1>3, Sizes DEF Entries
    <2>3. \A i \in Entries : g[i] = IF i \div 4 = w THEN [t[i] EXCEPT !.addr = f[i].addr] ELSE f[i]
      BY <1>1 DEF WriteCfg
    <2> HIDE DEF w, g, t
    <2>4. ASSUME NEW i \in Entries
          PROVE  /\ g[i].addr = t[i].addr
                 /\ IF 4 * Last4 + (i \div 4) < k + 1 THEN g[i] = t[i] ELSE g[i].mode = "OFF"
      <3>1. f[i].addr = t[i].addr
        BY <2>2 DEF Written, t
      <3>2. i \div 4 \in Nat
        BY Sizes DEF Entries
      <3>3. CASE i \div 4 = w
        <4>1. [t[i] EXCEPT !.addr = t[i].addr] = t[i]
          <5>1. t[i] \in Entry
            BY <1>1
          <5>2. QED BY <5>1 DEF Entry
        <4>2. g[i] = t[i]
          BY <2>3, <3>1, <3>3, <4>1
        <4>3. 4 * Last4 + (i \div 4) < k + 1
          BY <2>1, <3>3, Sizes
        <4>4. QED BY <4>2, <4>3
      <3>4. CASE i \div 4 # w
        <4>1. g[i] = f[i]
          BY <2>3, <3>4
        <4>2. 4 * Last4 + (i \div 4) < k + 1 <=> 4 * Last4 + (i \div 4) < k
          BY <2>1, <3>2, <3>4, Sizes
        <4>3. IF 4 * Last4 + (i \div 4) < k THEN f[i] = t[i] ELSE f[i].mode = "OFF"
          BY DEF Written, t
        <4>4. QED BY <3>1, <4>1, <4>2, <4>3
      <3>5. QED BY <3>3, <3>4
    <2>5. Written(g, k + 1, t)
      BY <2>4 DEF Written
    <2>6. QED BY <2>1, <2>5 DEF t
  <1>4. QED BY <1>2, <1>3

\* Each core has its turn exactly once.
LEMMA EveryCoreOnce ==
    ASSUME NEW k \in 0 .. NumCores - 1
    PROVE  /\ CoreOrder[k + 1] \in Cores
           /\ \A c \in Cores : CoreOrder[k + 1] = c <=> Pos(c) = k + 1
  BY Sizes DEF CoreOrder, Cores, Pos

LEMMA PlaceOfCore ==
    ASSUME NEW c \in Cores
    PROVE  Pos(c) \in 1 .. NumCores
  BY Sizes DEF Pos, Cores

-----------------------------------------------------------------------------
(* One lemma per part of kernel_main() *)

LEMMA InitIInv == Init => IInv
  <1> SUFFICES ASSUME Init
               PROVE  IInv
    OBVIOUS
  <1>1. PICK f \in Resets : pmp = [c \in Cores |-> f]
    BY DEF Init
  <1>2. f \in [Entries -> Entry] /\ (Unlocked(f) => \A i \in Entries : f[i].mode = "OFF")
    BY ResetAssumption
  <1>3. TypeOK
    <2>1. pmp \in [Cores -> [Entries -> Entry]]
      BY <1>1, <1>2
    <2>2. n \in 0 .. NumCores + NumSlots /\ csrw \in 0 .. 5 * Last4 - 1
      BY Sizes DEF Init
    <2>3. window \in [Cores -> Slots \cup {None}]
      BY DEF Init
    <2>4. QED BY <2>1, <2>2, <2>3 DEF Init, TypeOK
  <1>4. OrderInv
    BY DEF Init, OrderInv
  <1>5. TaskInv
    BY DEF Init, TaskInv
  <1>6. PmpInv
    <2>1. Unlocked(f) => Written(f, 0, Table(layout))
      BY <1>2, Sizes DEF Written, Entries
    <2>2. \A c \in Cores : pmp[c] = f /\ Done(c) = 0
      BY <1>1 DEF Init, Done
    <2>3. QED BY <2>1, <2>2 DEF PmpInv
  <1>7. QED BY <1>3, <1>4, <1>5, <1>6 DEF IInv

\* A step that writes no PMP register and does not start or end that part.
LEMMA PmpKept ==
    ASSUME IInv, UNCHANGED <<layout, pmp>>,
           \A c \in Cores : Done(c)' = Done(c)
    PROVE  PmpInv'
  BY DEF IInv, PmpInv

LEMMA CreateMutexIInv ==
    ASSUME IInv, CreateMutex
    PROVE  IInv'
  <1>1. at = "mutex" /\ at' = "unroute" /\ mux' = TRUE /\ n = 0 /\ csrw = 0
        /\ UNCHANGED <<layout, n, csrw, pmp, routed, ready, created, told, window>>
    BY DEF CreateMutex, MainAt, IInv, OrderInv
  <1>2. TypeOK'
    BY <1>1 DEF IInv, TypeOK
  <1>3. OrderInv'
    BY <1>1, Sizes DEF IInv, OrderInv, TypeOK, Cores
  <1>4. TaskInv'
    BY <1>1 DEF IInv, TaskInv
  <1>5. PmpInv'
    BY <1>1, PmpKept DEF Done
  <1>6. QED BY <1>2, <1>3, <1>4, <1>5 DEF IInv

\* No register of any core is written while the interrupt is un-routed.
LEMMA UnrouteGuardDone ==
    ASSUME IInv, UnrouteGuard, NEW c \in Cores
    PROVE  Done(c)' = Done(c)
  <1>1. at = "unroute" /\ csrw = 0 /\ UNCHANGED csrw /\ n \in Nat
    BY DEF UnrouteGuard, MainAt, IInv, OrderInv, TypeOK
  <1>2. at' = "unroute" \/ (n' = 0 /\ at' = "apply")
    BY <1>1 DEF UnrouteGuard, Turn
  <1>3. Pos(c) >= 1 /\ Pos(c) \in Nat
    BY PlaceOfCore
  <1>4. Done(c) = 0
    BY <1>1 DEF Done
  <1>5. (IF at' \in {"mutex", "unroute"} THEN 0
         ELSE IF at' # "apply" \/ Pos(c) <= n' THEN 5 * Last4
         ELSE IF Pos(c) = n' + 1 THEN csrw' ELSE 0) = 0
    BY <1>1, <1>2, <1>3
  <1>6. QED BY <1>4, <1>5 DEF Done, Pos

LEMMA UnrouteGuardIInv ==
    ASSUME IInv, UnrouteGuard
    PROVE  IInv'
  <1>1. /\ at = "unroute" /\ routed' = routed \ {n} /\ csrw = 0 /\ mux = TRUE
        /\ n \in Nat /\ n < NumCores /\ routed \subseteq Cores /\ \A c \in routed : c >= n
        /\ UNCHANGED <<layout, csrw, pmp, mux, ready, created, told, window>>
    BY DEF UnrouteGuard, MainAt, IInv, OrderInv, TypeOK
  <1>2. \/ n + 1 < NumCores /\ n' = n + 1 /\ at' = "unroute"
        \/ n + 1 >= NumCores /\ n' = 0 /\ at' = "apply"
    BY <1>1, Sizes DEF UnrouteGuard, Turn
  <1>3. TypeOK'
    <2>1. n' \in 0 .. NumCores + NumSlots
      BY <1>1, <1>2, Sizes
    <2>2. QED BY <1>1, <1>2, <2>1 DEF IInv, TypeOK
  <1>4. OrderInv'
    <2>1. \A c \in routed' : c > n
      BY <1>1 DEF Cores
    <2>2. n + 1 >= NumCores => routed' = {}
      BY <1>1, <2>1, Sizes DEF Cores
    <2>3. QED BY <1>1, <1>2, <2>1, <2>2, Sizes DEF OrderInv, Cores
  <1>5. TaskInv'
    BY <1>1, <1>2 DEF IInv, TaskInv
  <1>6. PmpInv'
    BY <1>1, UnrouteGuardDone, PmpKept
  <1>7. QED BY <1>3, <1>4, <1>5, <1>6 DEF IInv

\* One register of one core: this core has one more, the others as many as before.
LEMMA ProgramPmpDone ==
    ASSUME IInv, ProgramPmp
    PROVE  /\ CoreOrder[n + 1] \in Cores /\ Done(CoreOrder[n + 1]) = csrw
           /\ \A c \in Cores : Done(c)' = IF c = CoreOrder[n + 1] THEN csrw + 1 ELSE Done(c)
  <1> DEFINE d == CoreOrder[n + 1]
  <1>1. at = "apply" /\ n \in 0 .. NumCores - 1 /\ csrw \in 0 .. 5 * Last4 - 1
    BY Sizes DEF ProgramPmp, MainAt, IInv, OrderInv, TypeOK
  <1>2. \/ csrw + 1 < 5 * Last4 /\ csrw' = csrw + 1 /\ n' = n /\ at' = "apply"
        \/ /\ csrw + 1 = 5 * Last4 /\ csrw' = 0
           /\ \/ n + 1 < NumCores /\ n' = n + 1 /\ at' = "apply"
              \/ n + 1 = NumCores /\ n' = 0 /\ at' = "slots"
    BY <1>1, Sizes DEF ProgramPmp, Turn
  <1>3. d \in Cores /\ \A c \in Cores : d = c <=> Pos(c) = n + 1
    BY <1>1, EveryCoreOnce
  <1> HIDE DEF d
  <1>4. Done(d) = csrw
    <2>1. Pos(d) = n + 1
      BY <1>3
    <2>2. QED BY <1>1, <2>1 DEF Done
  <1>5. ASSUME NEW c \in Cores
        PROVE  Done(c)' = IF c = d THEN csrw + 1 ELSE Done(c)
    <2>1. Pos(c) \in 1 .. NumCores /\ Pos(c)' = Pos(c)
      BY PlaceOfCore DEF Pos
    <2> DEFINE then == IF at' \in {"mutex", "unroute"} THEN 0
                       ELSE IF at' # "apply" \/ Pos(c) <= n' THEN 5 * Last4
                       ELSE IF Pos(c) = n' + 1 THEN csrw' ELSE 0
    <2>2. CASE c = d
      <3>1. Pos(c) = n + 1
        BY <1>3, <2>2
      <3>2. then = csrw + 1
        BY <1>1, <1>2, <3>1
      <3>3. QED BY <2>1, <2>2, <3>2 DEF Done, Pos
    <2>3. CASE c # d
      <3>1. Pos(c) # n + 1
        BY <1>3, <2>3
      <3>2. Done(c) = IF Pos(c) <= n THEN 5 * Last4 ELSE 0
        BY <1>1, <3>1 DEF Done
      <3>3. then = IF Pos(c) <= n THEN 5 * Last4 ELSE 0
        <4>1. CASE at' = "apply" /\ n' = n
          BY <2>1, <3>1, <4>1
        <4>2. CASE at' = "apply" /\ n' = n + 1 /\ csrw' = 0
          BY <1>1, <2>1, <3>1, <4>2
        <4>3. CASE at' = "slots" /\ n + 1 = NumCores
          BY <1>1, <2>1, <3>1, <4>3, Sizes
        <4>4. QED BY <1>2, <4>1, <4>2, <4>3
      <3>4. QED BY <2>1, <2>3, <3>2, <3>3 DEF Done, Pos
    <2>4. QED BY <2>2, <2>3
  <1>6. QED BY <1>3, <1>4, <1>5 DEF d

LEMMA ProgramPmpIInv ==
    ASSUME IInv, ProgramPmp
    PROVE  IInv'
  <1> DEFINE d == CoreOrder[n + 1]
             g == RegisterWritten(pmp[d], csrw, Table(layout))
  <1>1. /\ at = "apply" /\ n \in 0 .. NumCores - 1 /\ csrw \in 0 .. 5 * Last4 - 1 /\ layout \in Layouts
        /\ routed = {} /\ mux = TRUE
        /\ pmp' = [pmp EXCEPT ![d] = g]
        /\ UNCHANGED <<layout, routed, mux, ready, created, told, window>>
    <2>1. at = "apply" /\ n < NumCores /\ routed = {} /\ mux = TRUE
      BY DEF ProgramPmp, MainAt, IInv, OrderInv, TypeOK
    <2>2. n \in Nat /\ csrw \in 0 .. 5 * Last4 - 1 /\ layout \in Layouts
      BY DEF IInv, TypeOK
    <2>3. n \in 0 .. NumCores - 1
      BY <2>1, <2>2, Sizes
    <2>4. pmp' = [pmp EXCEPT ![d] = g]
      BY DEF ProgramPmp
    <2>5. UNCHANGED <<layout, routed, mux, ready, created, told, window>>
      BY DEF ProgramPmp
    <2>6. QED BY <2>1, <2>2, <2>3, <2>4, <2>5
  <1>2. \/ csrw + 1 < 5 * Last4 /\ csrw' = csrw + 1 /\ n' = n /\ at' = "apply"
        \/ /\ csrw + 1 = 5 * Last4 /\ csrw' = 0
           /\ \/ n + 1 < NumCores /\ n' = n + 1 /\ at' = "apply"
              \/ n + 1 = NumCores /\ n' = 0 /\ at' = "slots"
    BY <1>1, Sizes DEF ProgramPmp, Turn
  <1>3. d \in Cores /\ \A c \in Cores : d = c <=> Pos(c) = n + 1
    BY <1>1, EveryCoreOnce
  <1>4. pmp \in [Cores -> [Entries -> Entry]]
    BY DEF IInv, TypeOK
  <1>5. Table(layout) \in [Entries -> Entry]
    <2>1. \A i \in Entries : Table(layout)[i] \in Entry
      BY <1>1, TableEntry
    <2>2. QED BY <2>1 DEF Table
  <1>6. /\ g \in [Entries -> Entry]
        /\ \A i \in Entries : pmp[d][i].lock => g[i] = pmp[d][i] \/ g[i].lock
    BY <1>1, <1>3, <1>4, <1>5, WriteTyped
  <1>7. Unlocked(g) => Unlocked(pmp[d])
    BY <1>6 DEF Unlocked
  <1> HIDE DEF g, d
  <1>8. ASSUME NEW c \in Cores
        PROVE  pmp'[c] = IF c = d THEN g ELSE pmp[c]
    <2>1. pmp' = [pmp EXCEPT ![d] = g]
      BY <1>1
    <2>2. QED BY <1>4, <2>1
  <1>9. TypeOK'
    <2>1. pmp' \in [Cores -> [Entries -> Entry]]
      BY <1>1, <1>4, <1>6
    <2>2. n' \in 0 .. NumCores + NumSlots /\ csrw' \in 0 .. 5 * Last4 - 1
      BY <1>1, <1>2, Sizes
    <2>3. QED BY <1>1, <1>2, <2>1, <2>2 DEF IInv, TypeOK
  <1>10. OrderInv'
    BY <1>1, <1>2, Sizes DEF OrderInv, Slots
  <1>11. TaskInv'
    BY <1>1, <1>2 DEF IInv, TaskInv
  <1>12. PmpInv'
    <2> SUFFICES ASSUME NEW c \in Cores, Unlocked(pmp'[c])
                 PROVE  Written(pmp'[c], Done(c)', Table(layout))
      BY <1>1 DEF PmpInv
    <2>1. CASE c = d
      <3>1. Done(c) = csrw /\ Done(c)' = csrw + 1
        BY <2>1, ProgramPmpDone DEF d
      <3>2. Unlocked(pmp[d]) /\ Written(pmp[d], csrw, Table(layout)) /\ pmp[d] \in [Entries -> Entry]
        BY <1>3, <1>4, <1>7, <1>8, <2>1, <3>1 DEF IInv, PmpInv
      <3>3. Written(g, csrw + 1, Table(layout))
        BY <1>1, <3>2, OneMoreWritten DEF g
      <3>4. QED BY <1>8, <2>1, <3>1, <3>3
    <2>2. CASE c # d
      <3>1. Done(c)' = Done(c)
        BY <2>2, ProgramPmpDone DEF d
      <3>2. QED BY <1>8, <2>2, <3>1 DEF IInv, PmpInv
    <2>3. QED BY <2>1, <2>2
  <1>13. QED BY <1>9, <1>10, <1>11, <1>12 DEF IInv

LEMMA SetUpSlotIInv ==
    ASSUME IInv, SetUpSlot
    PROVE  IInv'
  <1>1. /\ at = "slots" /\ ready' = ready \cup {n} /\ csrw = 0 /\ mux = TRUE /\ routed = {}
        /\ n \in Nat /\ n < NumSlots /\ ready \subseteq Slots
        /\ \A s \in Slots : s < n => s \in ready
        /\ UNCHANGED <<layout, csrw, pmp, routed, mux, created, told, window>>
    BY DEF SetUpSlot, MainAt, IInv, OrderInv, TypeOK
  <1>2. \/ n + 1 < NumSlots /\ n' = n + 1 /\ at' = "slots"
        \/ n + 1 >= NumSlots /\ n' = 0 /\ at' = "report"
    BY <1>1, Sizes DEF SetUpSlot, Turn
  <1>3. ready' \subseteq Slots /\ \A s \in Slots : s < n + 1 => s \in ready'
    BY <1>1, Sizes DEF Slots
  <1>4. TypeOK'
    <2>1. n' \in 0 .. NumCores + NumSlots
      BY <1>1, <1>2, Sizes
    <2>2. QED BY <1>1, <1>2, <1>3, <2>1 DEF IInv, TypeOK
  <1>5. OrderInv'
    <2>1. n + 1 >= NumSlots => ready' = Slots
      <3>1. n + 1 >= NumSlots => \A s \in Slots : s < n + 1
        BY <1>1, Sizes DEF Slots
      <3>2. QED BY <1>3, <3>1
    <2>2. QED BY <1>1, <1>2, <1>3, <2>1, Sizes DEF OrderInv
  <1>6. TaskInv'
    BY <1>1, <1>2 DEF IInv, TaskInv
  <1>7. PmpInv'
    BY <1>1, <1>2, PmpKept DEF Done
  <1>8. QED BY <1>4, <1>5, <1>6, <1>7 DEF IInv

\* The report and the creation of tasks: nothing is prepared any more.
LEMMA CreationIInv ==
    ASSUME IInv, BootReport \/ CreateKernelTask \/ CreateHost
    PROVE  IInv'
  <1>1. /\ at \in {"report", "kernel", "hosts"} /\ at' \in {"kernel", "hosts", "done"}
        /\ at' = "kernel" => at = "report"
        /\ UNCHANGED <<layout, csrw, pmp, routed, mux, ready, window>>
    BY DEF BootReport, CreateKernelTask, CreateHost, MainAt, Turn
  <1>2. csrw = 0 /\ mux = TRUE /\ routed = {} /\ ready = Slots /\ n \in Nat
    BY <1>1 DEF IInv, OrderInv, TypeOK
  <1>3. /\ n' \in Nat /\ n' <= NumSlots
        /\ at' = "hosts" => n' < NumSlots
        /\ at' \in {"kernel", "done"} => n' = 0
    <2>1. at \in {"report", "kernel"} => n = 0
      BY DEF IInv, OrderInv
    <2>2. at = "hosts" => n < NumSlots
      BY DEF IInv, OrderInv
    <2>3. CASE BootReport \/ CreateKernelTask
      BY <2>1, <2>3, Sizes DEF BootReport, CreateKernelTask, MainAt
    <2>4. CASE CreateHost
      BY <1>2, <2>2, <2>4, Sizes DEF CreateHost, MainAt, Turn
    <2>5. QED BY <2>3, <2>4
  <1>4. told' # {}
    <2>1. at # "report" => told' = told /\ told # {}
      BY <1>1 DEF IInv, OrderInv, BootReport, CreateKernelTask, CreateHost, MainAt
    <2>2. at = "report" => \E r : told' = told \cup {r}
      BY DEF BootReport, CreateKernelTask, CreateHost, MainAt
    <2>3. QED BY <2>1, <2>2
  <1>5. /\ created \subseteq created' /\ created' \subseteq Slots \cup {Kernel}
        /\ created' # {} => at' \in {"hosts", "done"}
    <2>1. at = "hosts" => n \in Slots
      BY <1>2, Sizes DEF IInv, OrderInv, Slots
    <2>2. created \subseteq Slots \cup {Kernel} /\ (created # {} => at \in {"hosts", "done"})
      BY DEF IInv, TypeOK, TaskInv
    <2>3. CASE BootReport
      BY <2>2, <2>3 DEF BootReport, MainAt
    <2>4. CASE CreateKernelTask
      BY <2>2, <2>4 DEF CreateKernelTask, MainAt
    <2>5. CASE CreateHost
      BY <1>1, <2>1, <2>2, <2>5 DEF CreateHost, MainAt
    <2>6. QED BY <2>3, <2>4, <2>5
  <1>6. TypeOK'
    <2>1. n' \in 0 .. NumCores + NumSlots
      BY <1>3, Sizes
    <2>2. QED BY <1>1, <1>5, <2>1 DEF IInv, TypeOK
  <1>7. OrderInv'
    BY <1>1, <1>2, <1>3, <1>4 DEF OrderInv
  <1>8. TaskInv'
    BY <1>1, <1>5 DEF IInv, TaskInv
  <1>9. PmpInv'
    BY <1>1, PmpKept DEF Done
  <1>10. QED BY <1>6, <1>7, <1>8, <1>9 DEF IInv

\* Windows open and close under kernel_main(), which they do not move.
LEMMA WindowIInv ==
    ASSUME IInv, NEW c \in Cores,
           CloseWindow(c) \/ \E s \in Slots : OpenWindow(s, c)
    PROVE  IInv'
  <1>1. UNCHANGED <<layout, at, n, csrw, pmp, routed, mux, ready, created, told>>
    BY DEF CloseWindow, OpenWindow
  <1>2. window \in [Cores -> Slots \cup {None}]
    BY DEF IInv, TypeOK
  <1>3. \/ window' = [window EXCEPT ![c] = None]
        \/ \E s \in Slots : s \in created /\ window' = [window EXCEPT ![c] = s]
    BY DEF CloseWindow, OpenWindow
  <1>4. TypeOK'
    <2>1. window' \in [Cores -> Slots \cup {None}]
      BY <1>2, <1>3
    <2>2. QED BY <1>1, <2>1 DEF IInv, TypeOK
  <1>5. OrderInv'
    BY <1>1 DEF IInv, OrderInv
  <1>6. TaskInv'
    BY <1>1, <1>2, <1>3 DEF IInv, TaskInv
  <1>7. PmpInv'
    BY <1>1, PmpKept DEF Done
  <1>8. QED BY <1>4, <1>5, <1>6, <1>7 DEF IInv

-----------------------------------------------------------------------------
\* The inductive invariant of the boot: what each part of kernel_main() leaves for
\* the next, and how far the PMP of each core is written.
THEOREM BootInvariant == Spec => []IInv
<1>1. IInv /\ UNCHANGED vars => IInv'
  <2> SUFFICES ASSUME IInv, UNCHANGED vars
               PROVE  IInv'
    OBVIOUS
  <2>1. (TypeOK /\ OrderInv /\ TaskInv)'
    BY DEF vars, IInv, TypeOK, OrderInv, TaskInv
  <2>2. PmpInv'
    BY PmpKept DEF vars, Done
  <2>3. QED BY <2>1, <2>2 DEF IInv
<1>2. IInv /\ Next => IInv'
  BY CreateMutexIInv, UnrouteGuardIInv, ProgramPmpIInv, SetUpSlotIInv, CreationIInv,
     WindowIInv DEF Next
<1>3. QED BY InitIInv, <1>1, <1>2, PTL DEF Spec

\* Every variable of the boot keeps its type: the slot loop stays in g_slots[], and
\* what a register write leaves is an entry.
THEOREM BootTypesHold == Spec => []TypeOK
<1>1. IInv => TypeOK
  BY DEF IInv
<1>2. QED BY <1>1, BootInvariant, PTL

\* kernel_task and the first users, which run while kernel_main() still creates the
\* others, find the lock, the guard un-routed, the slots and the report.
THEOREM TasksFindAll == Spec => []TasksFindAllPrepared
<1>1. IInv => TasksFindAllPrepared
  BY DEF IInv, OrderInv, TaskInv, TasksFindAllPrepared
<1>2. QED BY <1>1, BootInvariant, PTL

LEMMA DoneInRange ==
    ASSUME IInv, NEW c \in Cores
    PROVE  Done(c) \in 0 .. 5 * Last4
  BY Sizes DEF IInv, TypeOK, Done

\* umode_pmp_program() may be stopped after any of its writes, on any core: U-mode
\* reaches nothing there that is not in one of the three grants.
THEOREM HalfWrittenGrantsNoMore == Spec => []NeverGrantsMore
<1>1. IInv => NeverGrantsMore
  <2> SUFFICES ASSUME IInv, NEW c \in Cores, Unlocked(pmp[c]), NEW op \in Perms
               PROVE  Reach(pmp[c], op) \subseteq Intended(layout, op)
    BY DEF NeverGrantsMore
  <2>1. layout \in Layouts /\ Written(pmp[c], Done(c), Table(layout))
    BY DEF IInv, TypeOK, PmpInv
  <2>2. QED BY <2>1, DoneInRange, NeverMore
<1>2. QED BY <1>1, BootInvariant, PTL

\* Whichever core a user's window opens on, U-mode reaches there exactly the three
\* grants, each with its permissions.
THEOREM UsersReachTheirGrants == Spec => []UsersReachExactly
<1>1. IInv => UsersReachExactly
  <2> SUFFICES ASSUME IInv, NEW c \in Cores, window[c] # None, Unlocked(pmp[c]), NEW op \in Perms
               PROVE  Reach(pmp[c], op) = Intended(layout, op)
    BY DEF UsersReachExactly
  <2>1. at \in {"hosts", "done"}
    BY DEF IInv, TaskInv
  <2>2. Done(c) = 5 * Last4
    BY <2>1 DEF Done
  <2>3. layout \in Layouts /\ Written(pmp[c], 5 * Last4, Table(layout))
    BY <2>2 DEF IInv, TypeOK, PmpInv
  <2>4. 5 * Last4 \in 0 .. 5 * Last4
    BY Sizes
  <2>5. Reach(pmp[c], op) \subseteq Intended(layout, op)
    BY <2>3, <2>4, NeverMore
  <2>6. Intended(layout, op) \subseteq Reach(pmp[c], op)
    BY <2>3, AllOfThem
  <2>7. QED BY <2>5, <2>6
<1>2. QED BY <1>1, BootInvariant, PTL

-----------------------------------------------------------------------------
(* Induction and recursion up to a number *)

\* Every set of numbers has a least one.
LEMMA LeastNumber ==
    ASSUME NEW S \in SUBSET Nat, S # {}
    PROVE  \E k \in S : \A j \in S : k <= j
  <1>1. PICK k \in S : \A j \in S : ~(<<j, k>> \in OpToRel(<, Nat))
    BY NatLessThanWellFounded, WFMin
  <1>2. \A j \in S : ~(j < k)
    BY <1>1 DEF OpToRel
  <1>3. QED BY <1>2

\* What holds of 0, and of each number if of the one before it, holds up to N.
LEMMA UpTo ==
    ASSUME NEW N \in Nat, NEW P, 0 \in P, \A k \in 1 .. N : k - 1 \in P => k \in P
    PROVE  \A k \in 0 .. N : k \in P
  <1> DEFINE S == {k \in 0 .. N : k \notin P}
  <1>1. CASE S = {}
    BY <1>1
  <1>2. CASE S # {}
    <2>1. S \in SUBSET Nat
      OBVIOUS
    <2> HIDE DEF S
    <2>2. PICK k \in S : \A j \in S : k <= j
      BY <1>2, <2>1, LeastNumber
    <2>3. k \in 0 .. N /\ k \notin P
      BY <2>2 DEF S
    <2>4. k \in 1 .. N /\ k - 1 \in 0 .. N /\ ~(k <= k - 1)
      BY <2>3
    <2>5. k - 1 \in P
      BY <2>2, <2>4 DEF S
    <2>6. QED BY <2>3, <2>4, <2>5
  <1>3. QED BY <1>1, <1>2

\* What a loop of N turns h computes from b: a value after each of them.
Runs(N, S, b, h) ==
    {g \in [0 .. N -> S] : g[0] = b /\ \A k \in 1 .. N : g[k] = h[k][g[k - 1]]}

LEMMA Turns ==
    ASSUME NEW N \in Nat, NEW S, NEW b \in S, NEW h \in [1 .. N -> [S -> S]]
    PROVE  Runs(N, S, b, h) # {}
  <1> DEFINE Good(p, g) == g[0] = b /\ \A k \in 1 .. p : g[k] = h[k][g[k - 1]]
             P == {p \in 0 .. N : \E g \in [0 .. p -> S] : Good(p, g)}
  <1>1. 0 \in P
    <2>1. [k \in 0 .. 0 |-> b] \in [0 .. 0 -> S] /\ Good(0, [k \in 0 .. 0 |-> b])
      OBVIOUS
    <2>2. 0 \in 0 .. N
      OBVIOUS
    <2>3. QED BY <2>1, <2>2
  <1>2. ASSUME NEW p \in 1 .. N, p - 1 \in P
        PROVE  p \in P
    <2>1. PICK g \in [0 .. p - 1 -> S] : Good(p - 1, g)
      BY <1>2
    <2> DEFINE e == h[p][g[p - 1]]
               f == [k \in 0 .. p |-> IF k = p THEN e ELSE g[k]]
    <2>2. p - 1 \in 0 .. p - 1 /\ g[p - 1] \in S
      BY <1>2
    <2>3. e \in S
      BY <2>2
    <2> HIDE DEF e
    <2>4. f \in [0 .. p -> S]
      <3>1. \A k \in 0 .. p : k = p \/ k \in 0 .. p - 1
        OBVIOUS
      <3>2. QED BY <2>3, <3>1
    <2>5. f[0] = b /\ \A k \in 1 .. p - 1 : f[k] = h[k][f[k - 1]]
      BY <1>2, <2>1
    <2>6. f[p] = h[p][f[p - 1]]
      BY <1>2 DEF e
    <2> HIDE DEF f
    <2>7. \A k \in 1 .. p : f[k] = h[k][f[k - 1]]
      <3>1. \A k \in 1 .. p : k \in 1 .. p - 1 \/ k = p
        OBVIOUS
      <3>2. QED BY <2>5, <2>6, <3>1, Zenon
    <2>8. p \in 0 .. N
      OBVIOUS
    <2>9. QED BY <2>4, <2>5, <2>7, <2>8
  <1> HIDE DEF P
  <1>3. N \in P
    <2>1. \A k \in 0 .. N : k \in P
      BY <1>1, <1>2, UpTo
    <2>2. QED BY <2>1
  <1>4. PICK g \in [0 .. N -> S] : Good(N, g)
    BY <1>3 DEF P
  <1>5. g \in Runs(N, S, b, h)
    BY <1>4 DEF Runs
  <1>6. QED BY <1>5

-----------------------------------------------------------------------------
(* What an entry covers, as pmp_report() decodes it *)

\* Every address has a lowest zero bit.
LEMMA LowestZeroOf ==
    ASSUME NEW a \in Nat
    PROVE  LowestZero(a) \in 1 .. a + 1 /\ a % (2 * LowestZero(a)) = LowestZero(a) - 1
  <1> DEFINE S == {b \in 1 .. a + 1 : a % (2 * b) = b - 1}
  <1>1. a + 1 \in S /\ S \in SUBSET Nat
    <2>1. a % (2 * (a + 1)) = a
      OBVIOUS
    <2>2. QED BY <2>1
  <1>2. PICK b \in S : \A c \in S : b <= c
    <2> HIDE DEF S
    <2>1. QED BY <1>1, LeastNumber
  <1>3. \A c \in 1 .. b - 1 : a % (2 * c) # c - 1
    <2> SUFFICES ASSUME NEW c \in 1 .. b - 1, a % (2 * c) = c - 1
                 PROVE  FALSE
      OBVIOUS
    <2>1. c \in S /\ ~(b <= c)
      OBVIOUS
    <2>2. QED BY <1>2, <2>1
  <1>4. \E e \in 1 .. a + 1 : /\ a % (2 * e) = e - 1
                              /\ \A c \in 1 .. e - 1 : a % (2 * c) # c - 1
    BY <1>3
  <1> HIDE DEF S
  <1>5. QED BY <1>4, Zenon DEF LowestZero

\* The block of a NAPOT address begins where the bits below its lowest zero are 0.
LEMMA BlockOf ==
    ASSUME NEW a \in Nat, NEW b \in Nat \ {0}, a % (2 * b) = b - 1
    PROVE  /\ a % b = b - 1 /\ a - (b - 1) \in Nat
           /\ \A x \in Nat : x \div (2 * b) = a \div (2 * b) <=>
                               a - (b - 1) <= x /\ x < a - (b - 1) + 2 * b
  <1> DEFINE q == a \div (2 * b)
  <1>1. q \in Nat /\ a = (2 * b) * q + (b - 1)
    <2> DEFINE m == 2 * b
    <2>0. m \in Nat \ {0}
      OBVIOUS
    <2> HIDE DEF m
    <2>1. a \div m \in Nat /\ a = m * (a \div m) + (a % m)
      BY <2>0
    <2>2. QED BY <2>1 DEF m
  <1> HIDE DEF q
  <1>2. a % b = b - 1
    <2>1. a = b * (2 * q) + (b - 1)
      BY <1>1
    <2>2. QED BY <1>1, <2>1
  <1>3. a - (b - 1) = (2 * b) * q /\ (2 * b) * q \in Nat
    BY <1>1
  <1>4. ASSUME NEW x \in Nat
        PROVE  x \div (2 * b) = q <=> (2 * b) * q <= x /\ x < (2 * b) * q + 2 * b
    BY <1>1
  <1>5. QED BY <1>2, <1>3, <1>4 DEF q

\* x is in the range r.
In(x, r) == r.lo <= x /\ x < r.hi

\* An entry covers what it matches, unless it reaches the end of the address space.
LEMMA DecodeIs ==
    ASSUME NEW f \in [Entries -> Entry], NEW i \in Entries, ~Matches(f, i, Top - 1)
    PROVE  /\ Decode(f, i).lo \in Nat /\ Decode(f, i).hi \in Nat
           /\ Decode(f, i) = [lo |-> Decode(f, i).lo, hi |-> Decode(f, i).hi]
           /\ \A x \in Unit : Matches(f, i, x) <=> In(x, Decode(f, i))
  <1> DEFINE a == f[i].addr
             b == LowestZero(a)
             d == a - (a % b)
  <1>1. f[i] \in Entry /\ a \in Nat /\ a < Top
    BY Sizes DEF Entry, Unit
  <1>2. f[i].mode \in {"OFF", "TOR", "NA4", "NAPOT"}
    BY <1>1 DEF Entry
  <1>3. CASE f[i].mode = "OFF"
    <2>1. Decode(f, i) = [lo |-> 0, hi |-> 0]
      BY <1>3 DEF Decode
    <2>2. QED BY <1>3, <2>1 DEF Matches, In, Unit
  <1>4. CASE f[i].mode = "TOR"
    <2>1. Decode(f, i) = [lo |-> Base(f, i), hi |-> a]
      BY <1>4 DEF Decode
    <2>2. Base(f, i) \in Nat
      <3>1. CASE i = 0
        BY <3>1 DEF Base
      <3>2. CASE i # 0
        <4>1. i - 1 \in Entries
          BY <3>2, Sizes DEF Entries
        <4>2. f[i - 1] \in Entry
          BY <4>1
        <4>3. QED BY <3>2, <4>2 DEF Base, Entry, Unit
      <3>3. QED BY <3>1, <3>2
    <2>3. QED BY <1>1, <1>4, <2>1, <2>2 DEF Matches, In
  <1>5. CASE f[i].mode = "NA4"
    <2>1. Decode(f, i) = [lo |-> a, hi |-> (a + 1) % Top]
      BY <1>5 DEF Decode
    <2>2. a # Top - 1
      BY <1>5 DEF Matches
    <2>3. (a + 1) % Top = a + 1
      BY <1>1, <2>2, Sizes
    <2>4. \A x \in Unit : Matches(f, i, x) <=> x = a
      BY <1>5 DEF Matches
    <2> HIDE DEF a
    <2>5. QED BY <1>1, <2>1, <2>3, <2>4 DEF In, Unit
  <1>6. CASE f[i].mode = "NAPOT"
    <2>1. Decode(f, i) = [lo |-> d, hi |-> (d + 2 * b) % Top]
      BY <1>6 DEF Decode
    <2>2. \A x : Matches(f, i, x) <=> x \div (2 * b) = a \div (2 * b)
      BY <1>6 DEF Matches, Block
    <2>3. b \in Nat \ {0} /\ a % (2 * b) = b - 1
      BY <1>1, LowestZeroOf
    <2> HIDE DEF a, b
    <2>4. /\ a % b = b - 1 /\ a - (b - 1) \in Nat
          /\ \A x \in Nat : x \div (2 * b) = a \div (2 * b) <=>
                              a - (b - 1) <= x /\ x < a - (b - 1) + 2 * b
      BY <1>1, <2>3, BlockOf
    <2>5. d = a - (b - 1) /\ d \in Nat /\ d <= a
      BY <1>1, <2>3, <2>4
    <2> HIDE DEF d
    <2>6. \A x \in Nat : Matches(f, i, x) <=> d <= x /\ x < d + 2 * b
      BY <2>2, <2>4, <2>5
    <2>7. d + 2 * b < Top
      <3>1. Top - 1 \in Nat /\ d <= Top - 1
        BY <1>1, <2>5, Sizes
      <3>2. ~(Top - 1 < d + 2 * b)
        BY <2>6, <3>1
      <3>3. QED BY <2>3, <2>5, <3>2, Sizes
    <2>8. (d + 2 * b) % Top = d + 2 * b
      BY <2>3, <2>5, <2>7, Sizes
    <2>9. \A x \in Unit : x \in Nat
      BY DEF Unit
    <2>10. QED BY <2>1, <2>3, <2>5, <2>6, <2>8, <2>9 DEF In
  <1>7. QED BY <1>2, <1>3, <1>4, <1>5, <1>6

-----------------------------------------------------------------------------
(* The sort *)

\* Ranges that are not empty; what some of them cover; those sorted by their start.
Ranges == {r \in [lo : Nat, hi : Nat] : r.lo < r.hi}
Covered(s, x) == \E j \in 1 .. Len(s) : In(x, s[j])
Ordered == {s \in Seq(Ranges) : \A j \in 1 .. Len(s) : \A k \in 1 .. j : s[k].lo <= s[j].lo}

\* The parts of the definition, and types.
LEMMA OrderedIs ==
    ASSUME NEW s \in Ordered
    PROVE  /\ s \in Seq(Ranges) /\ Len(s) \in Nat
           /\ \A j \in 1 .. Len(s) : s[j] \in Ranges /\ s[j].lo \in Nat /\ s[j].hi \in Nat
           /\ \A j \in 1 .. Len(s) : \A k \in 1 .. j : s[k].lo <= s[j].lo
  <1>1. s \in Seq(Ranges) /\ \A j \in 1 .. Len(s) : \A k \in 1 .. j : s[k].lo <= s[j].lo
    BY DEF Ordered
  <1>2. Len(s) \in Nat /\ \A j \in 1 .. Len(s) : s[j] \in Ranges
    BY <1>1, LenProperties
  <1>3. QED BY <1>1, <1>2 DEF Ranges

\* The place the sort looks for exists.
LEMMA PlaceIs ==
    ASSUME NEW s \in Ordered, NEW r \in Ranges
    PROVE  /\ Place(s, r) \in 0 .. Len(s)
           /\ Place(s, r) > 0 => s[Place(s, r)].lo <= r.lo
           /\ \A j \in Place(s, r) + 1 .. Len(s) : s[j].lo > r.lo
  <1> DEFINE S == {j \in 1 .. Len(s) + 1 : j <= Len(s) => s[j].lo > r.lo}
  <1>1. Len(s) \in Nat /\ r.lo \in Nat
        /\ \A j \in 1 .. Len(s) : s[j].lo \in Nat /\ \A k \in 1 .. j : s[k].lo <= s[j].lo
    BY OrderedIs DEF Ranges
  <1>2. Len(s) + 1 \in S /\ S \in SUBSET Nat
    BY <1>1
  <1>3. PICK k \in S : \A j \in S : k <= j
    <2> HIDE DEF S
    <2>1. QED BY <1>2, LeastNumber
  <1>4. k \in 1 .. Len(s) + 1 /\ (k <= Len(s) => s[k].lo > r.lo)
    BY <1>3
  <1>5. k - 1 \in 0 .. Len(s) /\ (k - 1 > 0 => s[k - 1].lo <= r.lo)
    <2>1. k - 1 > 0 => k - 1 \in 1 .. Len(s) /\ k - 1 \notin S
      BY <1>1, <1>3, <1>4
    <2>2. k - 1 > 0 => ~(s[k - 1].lo > r.lo)
      BY <1>1, <2>1
    <2>3. QED BY <1>1, <1>4, <2>1, <2>2
  <1>6. \A j \in (k - 1) + 1 .. Len(s) : s[j].lo > r.lo
    <2> SUFFICES ASSUME NEW j \in (k - 1) + 1 .. Len(s)
                 PROVE  s[j].lo > r.lo
      OBVIOUS
    <2>1. j \in 1 .. Len(s) /\ k \in 1 .. j /\ k <= Len(s) /\ k \in 1 .. Len(s)
      BY <1>1, <1>4
    <2>2. QED BY <1>1, <1>4, <2>1
  <1>7. QED BY <1>5, <1>6, Zenon DEF Place

\* Insert keeps the order and covers one more.
LEMMA InsertIs ==
    ASSUME NEW s \in Ordered, NEW r \in Ranges
    PROVE  /\ Insert(s, r) \in Ordered
           /\ \A x : Covered(Insert(s, r), x) <=> Covered(s, x) \/ In(x, r)
  <1> DEFINE p == Place(s, r)
             m == Len(s) + 1
             q == Insert(s, r)
  <1>1. /\ Len(s) \in Nat /\ \A j \in 1 .. Len(s) : s[j] \in Ranges /\ s[j].lo \in Nat
        /\ \A j \in 1 .. Len(s) : \A k \in 1 .. j : s[k].lo <= s[j].lo
    BY OrderedIs
  <1>2. /\ p \in 0 .. Len(s) /\ (p > 0 => s[p].lo <= r.lo)
        /\ \A j \in p + 1 .. Len(s) : s[j].lo > r.lo
    BY PlaceIs
  <1>3. q = [j \in 1 .. m |-> IF j <= p THEN s[j] ELSE IF j = p + 1 THEN r ELSE s[j - 1]]
    BY DEF Insert
  <1> HIDE DEF p, q
  <1>4. ASSUME NEW j \in 1 .. m
        PROVE  /\ q[j] = IF j <= p THEN s[j] ELSE IF j = p + 1 THEN r ELSE s[j - 1]
               /\ q[j] \in Ranges
    <2>1. j <= p => j \in 1 .. Len(s)
      BY <1>1, <1>2
    <2>2. j > p + 1 => j - 1 \in 1 .. Len(s)
      BY <1>1, <1>2
    <2>3. q[j] = IF j <= p THEN s[j] ELSE IF j = p + 1 THEN r ELSE s[j - 1]
      BY <1>3
    <2>4. j <= p \/ j = p + 1 \/ j > p + 1
      BY <1>1, <1>2
    <2>5. QED BY <1>1, <2>1, <2>2, <2>3, <2>4
  <1>5. q \in Seq(Ranges) /\ Len(q) = m
    <2>1. m \in Nat /\ q \in [1 .. m -> Ranges]
      BY <1>1, <1>3, <1>4
    <2>2. q \in Seq(Ranges)
      BY <2>1, SeqDef
    <2>3. DOMAIN q = 1 .. m /\ DOMAIN q = 1 .. Len(q) /\ Len(q) \in Nat
      BY <2>1, <2>2, LenProperties
    <2> HIDE DEF m
    <2>4. QED BY <2>1, <2>2, <2>3
  <1>6. ASSUME NEW j \in 1 .. m, NEW k \in 1 .. j
        PROVE  q[k].lo <= q[j].lo
    <2> DEFINE v == IF j <= p THEN s[j] ELSE IF j = p + 1 THEN r ELSE s[j - 1]
               u == IF k <= p THEN s[k] ELSE IF k = p + 1 THEN r ELSE s[k - 1]
    <2>1. k \in 1 .. m /\ q[j] = v /\ q[k] = u
      BY <1>1, <1>4
    <2>2. r.lo \in Nat
      BY DEF Ranges
    <2>3. \A i \in 1 .. Len(s) : i <= p => s[i].lo <= r.lo
      <3> SUFFICES ASSUME NEW i \in 1 .. Len(s), i <= p
                   PROVE  s[i].lo <= r.lo
        OBVIOUS
      <3>1. p \in 1 .. Len(s) /\ i \in 1 .. p
        BY <1>1, <1>2
      <3>2. s[i].lo <= s[p].lo /\ s[p].lo <= r.lo /\ s[p].lo \in Nat /\ s[i].lo \in Nat
        BY <1>1, <1>2, <3>1
      <3>3. QED BY <2>2, <3>2
    <2>4. CASE j <= p
      <3>1. k <= p /\ j \in 1 .. Len(s)
        BY <1>1, <1>2, <2>4
      <3>2. QED BY <1>1, <2>1, <2>4, <3>1
    <2>5. CASE j = p + 1
      <3>1. k <= p \/ k = j
        BY <1>1, <1>2, <2>5
      <3>2. k <= p => k \in 1 .. Len(s)
        BY <1>1, <1>2
      <3>3. v = r
        BY <1>2, <2>5
      <3>4. CASE k <= p
        BY <2>1, <2>3, <3>2, <3>3, <3>4
      <3>5. CASE k = j
        BY <2>1, <2>2, <3>3, <3>5
      <3>6. QED BY <3>1, <3>4, <3>5
    <2>6. CASE j > p + 1
      <3>1. j - 1 \in p + 1 .. Len(s) /\ j - 1 \in 1 .. Len(s)
        BY <1>1, <1>2, <2>6
      <3>2. v = s[j - 1] /\ s[j - 1].lo > r.lo
        BY <1>2, <2>6, <3>1
      <3>3. CASE k <= p
        <4>1. k \in 1 .. j - 1
          BY <1>2, <2>6, <3>3
        <4>2. QED BY <1>1, <2>1, <3>1, <3>2, <3>3, <4>1
      <3>4. CASE k = p + 1
        <4>1. u = r
          BY <1>2, <3>4
        <4>2. s[j - 1].lo \in Nat
          BY <1>1, <3>1
        <4>3. QED BY <2>1, <2>2, <3>2, <4>1, <4>2
      <3>5. CASE k > p + 1
        <4>1. k - 1 \in 1 .. j - 1 /\ u = s[k - 1]
          BY <1>2, <3>5
        <4>2. QED BY <1>1, <2>1, <3>1, <3>2, <4>1
      <3>6. QED BY <1>2, <3>3, <3>4, <3>5
    <2>7. QED BY <1>2, <2>4, <2>5, <2>6
  <1>7. ASSUME NEW x
        PROVE  Covered(q, x) <=> Covered(s, x) \/ In(x, r)
    <2>1. ASSUME NEW j \in 1 .. m, In(x, q[j])
          PROVE  Covered(s, x) \/ In(x, r)
      <3>1. CASE j <= p
        <4>1. j \in 1 .. Len(s) /\ q[j] = s[j]
          BY <1>1, <1>2, <1>4, <3>1
        <4>2. QED BY <2>1, <4>1 DEF Covered
      <3>2. CASE j = p + 1
        <4>1. q[j] = r
          BY <1>2, <1>4, <3>2
        <4>2. QED BY <2>1, <4>1
      <3>3. CASE j > p + 1
        <4>1. j - 1 \in 1 .. Len(s) /\ q[j] = s[j - 1]
          BY <1>1, <1>2, <1>4, <3>3
        <4>2. QED BY <2>1, <4>1 DEF Covered
      <3>4. QED BY <1>2, <3>1, <3>2, <3>3
    <2>2. ASSUME NEW j \in 1 .. Len(s), In(x, s[j])
          PROVE  Covered(q, x)
      <3>1. CASE j <= p
        <4>1. j \in 1 .. m /\ q[j] = s[j]
          BY <1>1, <1>4, <3>1
        <4>2. QED BY <1>5, <2>2, <4>1 DEF Covered
      <3>2. CASE j > p
        <4>1. j + 1 \in 1 .. m /\ (j + 1) - 1 = j /\ ~(j + 1 <= p) /\ j + 1 # p + 1
          BY <1>1, <1>2, <3>2
        <4>2. q[j + 1] = s[j]
          BY <1>4, <4>1
        <4>3. QED BY <1>5, <2>2, <4>1, <4>2 DEF Covered
      <3>3. QED BY <1>2, <3>1, <3>2
    <2>3. ASSUME In(x, r)
          PROVE  Covered(q, x)
      <3>1. p + 1 \in 1 .. m /\ ~(p + 1 <= p)
        BY <1>1, <1>2
      <3>2. q[p + 1] = r
        BY <1>4, <3>1
      <3>3. QED BY <1>5, <2>3, <3>1, <3>2 DEF Covered
    <2>4. QED BY <1>5, <2>1, <2>2, <2>3 DEF Covered
  <1>8. q \in Ordered
    BY <1>5, <1>6 DEF Ordered
  <1>9. QED BY <1>7, <1>8 DEF q

\* The sorted ranges cover what some entry matches.
LEMMA SortedIs ==
    ASSUME NEW f \in [Entries -> Entry], \A i \in Entries : ~Matches(f, i, Top - 1)
    PROVE  /\ Sorted(f) \in Ordered
           /\ \A x \in Unit : Covered(Sorted(f), x) <=> \E i \in Entries : Matches(f, i, x)
  <1> DEFINE N == 4 * Last4
             D(i) == Decode(f, i)
             h == [k \in 1 .. N |-> [s \in Ordered |-> Collect(s, D(k - 1))]]
  <1>1. N \in Nat /\ \A k \in 1 .. N : k - 1 \in Entries
    BY Sizes DEF Entries
  <1>2. \A i \in Entries : /\ D(i).lo \in Nat /\ D(i).hi \in Nat
                           /\ D(i) = [lo |-> D(i).lo, hi |-> D(i).hi]
                           /\ \A x \in Unit : Matches(f, i, x) <=> In(x, D(i))
    BY DecodeIs
  <1> HIDE DEF D
  <1>3. ASSUME NEW s \in Ordered, NEW i \in Entries
        PROVE  /\ Collect(s, D(i)) \in Ordered
               /\ \A x \in Unit : Covered(Collect(s, D(i)), x) <=> Covered(s, x) \/ Matches(f, i, x)
    <2>1. CASE D(i).hi > D(i).lo
      <3>1. Collect(s, D(i)) = Insert(s, D(i))
        BY <2>1 DEF Collect
      <3>2. D(i) \in Ranges
        <4>1. [lo |-> D(i).lo, hi |-> D(i).hi] \in [lo : Nat, hi : Nat]
          BY <1>2
        <4>2. D(i) \in [lo : Nat, hi : Nat]
          BY <1>2, <4>1, Zenon
        <4>3. D(i).lo < D(i).hi
          BY <1>2, <2>1
        <4>4. QED BY <4>2, <4>3 DEF Ranges
      <3>3. QED BY <1>2, <3>1, <3>2, InsertIs
    <2>2. CASE ~(D(i).hi > D(i).lo)
      <3>1. Collect(s, D(i)) = s
        BY <2>2 DEF Collect
      <3>2. \A x \in Unit : ~In(x, D(i))
        BY <1>2, <2>2 DEF In, Unit
      <3>3. QED BY <1>2, <3>1, <3>2
    <2>3. QED BY <2>1, <2>2
  <1>4. <<>> \in Ordered /\ \A x : ~Covered(<<>>, x)
    BY DEF Ordered, Covered
  <1>5. h \in [1 .. N -> [Ordered -> Ordered]]
        /\ \A k \in 1 .. N : \A s \in Ordered : h[k][s] = Collect(s, D(k - 1))
    <2>1. \A k \in 1 .. N : \A s \in Ordered : Collect(s, D(k - 1)) \in Ordered
      BY <1>1, <1>3
    <2> HIDE DEF N
    <2>2. QED BY <2>1
  <1> HIDE DEF h, N
  <1>6. PICK g \in [0 .. N -> Ordered] :
               g[0] = <<>> /\ \A k \in 1 .. N : g[k] = h[k][g[k - 1]]
    <2>1. Runs(N, Ordered, <<>>, h) # {}
      BY <1>1, <1>4, <1>5, Turns
    <2>2. QED BY <2>1 DEF Runs
  <1>7. g[0] = <<>> /\ \A k \in 1 .. N : k - 1 \in 0 .. N /\ g[k] = Collect(g[k - 1], D(k - 1))
    <2>1. g[0] = <<>>
      BY <1>6
    <2>2. ASSUME NEW k \in 1 .. N
          PROVE  k - 1 \in 0 .. N /\ g[k] = Collect(g[k - 1], D(k - 1))
      <3>1. k \in 0 .. N /\ k # 0 /\ k - 1 \in 0 .. N
        BY <1>1
      <3>2. g[k] = h[k][g[k - 1]]
        BY <1>6, <3>1
      <3>3. g[k - 1] \in Ordered
        BY <3>1
      <3>4. QED BY <1>5, <3>1, <3>2, <3>3
    <2>3. QED BY <2>1, <2>2
  <1>8. Sorted(f) = (CHOOSE q : q = [k \in 0 .. N |-> IF k = 0 THEN <<>>
                                                     ELSE Collect(q[k - 1], D(k - 1))])[N]
    BY Zenon DEF Sorted, N, D
  <1> DEFINE q == CHOOSE q : q = [k \in 0 .. N |-> IF k = 0 THEN <<>>
                                                  ELSE Collect(q[k - 1], D(k - 1))]
  <1>9. q = [k \in 0 .. N |-> IF k = 0 THEN <<>> ELSE Collect(q[k - 1], D(k - 1))]
    <2>1. g = [k \in 0 .. N |-> IF k = 0 THEN <<>> ELSE Collect(g[k - 1], D(k - 1))]
      <3> DEFINE e == [k \in 0 .. N |-> IF k = 0 THEN <<>> ELSE Collect(g[k - 1], D(k - 1))]
      <3>1. \A k \in 0 .. N : g[k] = e[k]
        BY <1>1, <1>7
      <3>2. DOMAIN g = 0 .. N /\ DOMAIN e = 0 .. N
        OBVIOUS
      <3> HIDE DEF e
      <3>3. e = [k \in 0 .. N |-> e[k]]
        BY DEF e
      <3>4. g = [k \in 0 .. N |-> g[k]]
        OBVIOUS
      <3>5. g = e
        BY <3>1, <3>3, <3>4
      <3>6. QED BY <3>5 DEF e
    <2>2. QED BY <2>1, Zenon
  <1> HIDE DEF q
  <1>10. q[0] = <<>> /\ \A k \in 1 .. N : q[k] = Collect(q[k - 1], D(k - 1))
    BY <1>1, <1>9
  <1> DEFINE P == {k \in 0 .. N : /\ q[k] \in Ordered
                                  /\ \A x \in Unit : Covered(q[k], x) <=>
                                       \E i \in Entries : i < k /\ Matches(f, i, x)}
  <1>11. 0 \in P
    BY <1>1, <1>4, <1>10 DEF Entries
  <1>12. ASSUME NEW k \in 1 .. N, k - 1 \in P
         PROVE  k \in P
    <2>1. /\ q[k - 1] \in Ordered
          /\ \A x \in Unit : Covered(q[k - 1], x) <=>
               \E i \in Entries : i < k - 1 /\ Matches(f, i, x)
      BY <1>12
    <2>2. k - 1 \in Entries /\ k \in 0 .. N
      BY <1>1
    <2>3. q[k] = Collect(q[k - 1], D(k - 1))
      BY <1>10
    <2>4. \A i \in Entries : i < k <=> i < k - 1 \/ i = k - 1
      BY <1>1 DEF Entries
    <2>5. /\ q[k] \in Ordered
          /\ \A x \in Unit : Covered(q[k], x) <=> Covered(q[k - 1], x) \/ Matches(f, k - 1, x)
      BY <1>3, <2>1, <2>2, <2>3
    <2>6. \A x \in Unit : Covered(q[k], x) <=> \E i \in Entries : i < k /\ Matches(f, i, x)
      BY <2>1, <2>2, <2>4, <2>5
    <2>7. QED BY <2>2, <2>5, <2>6
  <1> HIDE DEF P
  <1>13. N \in P
    <2>1. \A k \in 0 .. N : k \in P
      BY <1>1, <1>11, <1>12, UpTo
    <2>2. QED BY <1>1, <2>1
  <1>14. Sorted(f) = q[N]
    BY <1>8, Zenon DEF q
  <1>15. \A i \in Entries : i < N
    BY <1>1, Sizes DEF Entries, N
  <1>16. QED BY <1>13, <1>14, <1>15 DEF P

-----------------------------------------------------------------------------
(* The merge *)

\* Ranges one behind the other, with a gap between any two.
Apart(s) == \A j \in 1 .. Len(s) : \A k \in 1 .. j - 1 : s[k].hi < s[j].lo

\* The types of a sequence of ranges.
LEMMA SeqIs ==
    ASSUME NEW s \in Seq(Ranges)
    PROVE  /\ Len(s) \in Nat
           /\ \A j \in 1 .. Len(s) : /\ s[j] \in Ranges /\ s[j].lo \in Nat
                                     /\ s[j].hi \in Nat /\ s[j].lo < s[j].hi
           /\ s # <<>> => Len(s) \in 1 .. Len(s)
           /\ s = <<>> => Len(s) = 0
  <1>1. Len(s) \in Nat /\ \A j \in 1 .. Len(s) : s[j] \in Ranges
    BY LenProperties
  <1>2. s # <<>> => Len(s) # 0
    BY EmptySeq
  <1>3. s = <<>> => Len(s) = 0
    OBVIOUS
  <1>4. QED BY <1>1, <1>2, <1>3 DEF Ranges

\* Join keeps the ranges apart, if r starts behind the last of them starts.
LEMMA JoinIs ==
    ASSUME NEW s \in Seq(Ranges), NEW r \in Ranges
    PROVE  /\ Join(s, r) \in Seq(Ranges) /\ Join(s, r) # <<>>
           /\ Apart(s) /\ (s # <<>> => s[Len(s)].lo <= r.lo) =>
                /\ Apart(Join(s, r)) /\ Join(s, r)[Len(Join(s, r))].lo <= r.lo
                /\ \A x \in Nat : Covered(Join(s, r), x) <=> Covered(s, x) \/ In(x, r)
  <1>1. r.lo \in Nat /\ r.hi \in Nat /\ r.lo < r.hi
    BY DEF Ranges
  <1>2. /\ Len(s) \in Nat
        /\ \A j \in 1 .. Len(s) : /\ s[j] \in Ranges /\ s[j].lo \in Nat
                                  /\ s[j].hi \in Nat /\ s[j].lo < s[j].hi
    BY SeqIs
  <1> DEFINE l == Len(s)
  <1>3. CASE s # <<>> /\ r.lo <= s[l].hi /\ r.hi > s[l].hi
    <2> DEFINE e == [s[l] EXCEPT !.hi = r.hi]
               q == [s EXCEPT ![l] = e]
    <2>1. l \in 1 .. Len(s)
      BY <1>3, SeqIs
    <2>2. Join(s, r) = q
      <3>1. q = [s EXCEPT ![Len(s)].hi = r.hi]
        OBVIOUS
      <3>2. QED BY <1>3, <3>1 DEF Join
    <2>3. s[l] \in Ranges /\ s[l].lo \in Nat /\ s[l].hi \in Nat /\ s[l].lo < s[l].hi
      BY <1>2, <2>1
    <2>4. e.lo = s[l].lo /\ e.hi = r.hi /\ e \in [lo : Nat, hi : Nat]
      BY <1>1, <2>3 DEF Ranges
    <2>5. e \in Ranges
      BY <1>1, <1>3, <2>3, <2>4 DEF Ranges
    <2> HIDE DEF e
    <2>6. /\ q \in Seq(Ranges) /\ Len(q) = l
          /\ \A j \in 1 .. l : q[j] = IF j = l THEN e ELSE s[j]
      BY <2>1, <2>5, ExceptSeq
    <2> HIDE DEF q
    <2>7. q # <<>>
      BY <2>1, <2>6, SeqIs
    <2>8. ASSUME Apart(s), s # <<>> => s[l].lo <= r.lo
          PROVE  /\ Apart(q) /\ q[Len(q)].lo <= r.lo
                 /\ \A x \in Nat : Covered(q, x) <=> Covered(s, x) \/ In(x, r)
      <3>1. s[l].lo <= r.lo
        BY <1>3, <2>8
      <3>2. q[Len(q)].lo <= r.lo
        BY <2>1, <2>4, <2>6, <3>1
      <3>3. ASSUME NEW j \in 1 .. Len(q), NEW k \in 1 .. j - 1
            PROVE  q[k].hi < q[j].lo
        <4>1. j \in 1 .. l /\ k \in 1 .. l /\ k # l
          BY <1>2, <2>6
        <4>2. q[k] = s[k] /\ q[j].lo = s[j].lo
          BY <2>4, <2>6, <4>1
        <4>3. s[k].hi < s[j].lo
          BY <2>8, <4>1 DEF Apart
        <4>4. QED BY <4>2, <4>3
      <3>4. ASSUME NEW x \in Nat
            PROVE  Covered(q, x) <=> Covered(s, x) \/ In(x, r)
        <4>1. In(x, e) <=> In(x, s[l]) \/ In(x, r)
          BY <1>1, <1>3, <2>3, <2>4, <3>1 DEF In
        <4>2. ASSUME NEW j \in 1 .. l
              PROVE  In(x, q[j]) <=> In(x, s[j]) \/ (j = l /\ In(x, r))
          BY <2>6, <4>1
        <4>3. QED BY <2>1, <2>6, <4>2 DEF Covered
      <3>5. QED BY <3>2, <3>3, <3>4 DEF Apart
    <2>9. QED BY <2>2, <2>6, <2>7, <2>8
  <1>4. CASE s # <<>> /\ r.lo <= s[l].hi /\ ~(r.hi > s[l].hi)
    <2>1. Join(s, r) = s /\ l \in 1 .. Len(s)
      BY <1>4, SeqIs DEF Join
    <2>2. ASSUME s[l].lo <= r.lo, NEW x \in Nat
          PROVE  Covered(s, x) <=> Covered(s, x) \/ In(x, r)
      <3>1. In(x, r) => In(x, s[l])
        BY <1>1, <1>2, <1>4, <2>1, <2>2 DEF In
      <3>2. QED BY <2>1, <3>1 DEF Covered
    <2>3. QED BY <1>4, <2>1, <2>2
  <1>5. CASE ~(s # <<>> /\ r.lo <= s[l].hi)
    <2> DEFINE q == Append(s, r)
    <2>1. Join(s, r) = q
      BY <1>5 DEF Join
    <2>2. /\ q \in Seq(Ranges) /\ Len(q) = l + 1 /\ q[l + 1] = r
          /\ \A j \in 1 .. l : q[j] = s[j]
      BY AppendProperties
    <2> HIDE DEF q
    <2>3. q # <<>>
      BY <1>2, <2>2, SeqIs
    <2>4. l + 1 \in 1 .. Len(q) /\ \A j \in 1 .. Len(q) : j \in 1 .. l \/ j = l + 1
      BY <1>2, <2>2
    <2>5. ASSUME Apart(s), s # <<>> => s[l].lo <= r.lo
          PROVE  Apart(q)
      <3> SUFFICES ASSUME NEW j \in 1 .. Len(q), NEW k \in 1 .. j - 1
                   PROVE  q[k].hi < q[j].lo
        BY DEF Apart
      <3>1. CASE j \in 1 .. l
        <4>1. k \in 1 .. l
          BY <1>2, <3>1
        <4>2. QED BY <2>2, <2>5, <3>1, <4>1 DEF Apart
      <3>2. CASE j = l + 1
        <4>1. k \in 1 .. l /\ q[k] = s[k] /\ q[j] = r
          BY <1>2, <2>2, <3>2
        <4>2. s # <<>> /\ l \in 1 .. Len(s)
          BY <1>2, <4>1, SeqIs
        <4>3. s[l].hi < r.lo
          BY <1>1, <1>2, <1>5, <4>2
        <4>4. CASE k = l
          BY <4>1, <4>3, <4>4
        <4>5. CASE k # l
          <5>1. k \in 1 .. l - 1
            BY <1>2, <4>1, <4>5
          <5>2. s[k].hi < s[l].lo
            BY <2>5, <4>2, <5>1 DEF Apart
          <5>3. QED BY <1>1, <1>2, <4>1, <4>2, <4>3, <5>2
        <4>6. QED BY <4>4, <4>5
      <3>3. QED BY <2>4, <3>1, <3>2
    <2>6. \A x \in Nat : Covered(q, x) <=> Covered(s, x) \/ In(x, r)
      <3> SUFFICES ASSUME NEW x \in Nat
                   PROVE  Covered(q, x) <=> Covered(s, x) \/ In(x, r)
        OBVIOUS
      <3>1. Covered(s, x) => Covered(q, x)
        <4>1. \A j \in 1 .. l : j \in 1 .. Len(q) /\ q[j] = s[j]
          BY <1>2, <2>2
        <4>2. QED BY <4>1 DEF Covered
      <3>2. In(x, r) => Covered(q, x)
        BY <2>2, <2>4 DEF Covered
      <3>3. ASSUME NEW j \in 1 .. Len(q), In(x, q[j])
            PROVE  Covered(s, x) \/ In(x, r)
        <4>1. CASE j \in 1 .. l
          BY <2>2, <3>3, <4>1 DEF Covered
        <4>2. CASE j = l + 1
          BY <2>2, <3>3, <4>2
        <4>3. QED BY <2>4, <4>1, <4>2
      <3>4. QED BY <3>1, <3>2, <3>3 DEF Covered
    <2>7. q[Len(q)].lo <= r.lo
      BY <1>1, <2>2
    <2>8. QED BY <2>1, <2>2, <2>3, <2>5, <2>6, <2>7
  <1>6. QED BY <1>3, <1>4, <1>5

\* The merge covers what it is given, in ranges that are apart.
LEMMA MergedIs ==
    ASSUME NEW s \in Ordered
    PROVE  /\ Merged(s) \in Seq(Ranges) /\ Apart(Merged(s))
           /\ \A x \in Nat : Covered(Merged(s), x) <=> Covered(s, x)
  <1> DEFINE N == Len(s)
             S == Seq(Ranges)
             h == [k \in 1 .. N |-> [m \in S |-> Join(m, s[k])]]
  <1>1. /\ N \in Nat /\ \A k \in 1 .. N : s[k] \in Ranges /\ s[k].lo \in Nat
        /\ \A j \in 1 .. N : \A k \in 1 .. j : s[k].lo <= s[j].lo
    BY OrderedIs
  <1>2. <<>> \in S
    OBVIOUS
  <1>3. h \in [1 .. N -> [S -> S]]
        /\ \A k \in 1 .. N : \A m \in S : h[k][m] = Join(m, s[k])
    <2>1. \A k \in 1 .. N : \A m \in S : Join(m, s[k]) \in S
      BY <1>1, JoinIs
    <2> HIDE DEF N, S
    <2>2. QED BY <2>1
  <1> HIDE DEF h, N
  <1>4. PICK g \in [0 .. N -> S] : g[0] = <<>> /\ \A k \in 1 .. N : g[k] = h[k][g[k - 1]]
    <2>1. Runs(N, S, <<>>, h) # {}
      BY <1>1, <1>2, <1>3, Turns
    <2>2. QED BY <2>1 DEF Runs
  <1>5. g[0] = <<>> /\ \A k \in 1 .. N : k - 1 \in 0 .. N /\ g[k] = Join(g[k - 1], s[k])
    <2> SUFFICES ASSUME NEW k \in 1 .. N
                 PROVE  k - 1 \in 0 .. N /\ g[k] = Join(g[k - 1], s[k])
      BY <1>4
    <2>1. k - 1 \in 0 .. N
      BY <1>1
    <2>2. g[k] = h[k][g[k - 1]] /\ g[k - 1] \in S
      BY <1>4, <2>1
    <2>3. QED BY <1>3, <2>1, <2>2
  <1> DEFINE q == CHOOSE q : q = [k \in 0 .. N |-> IF k = 0 THEN <<>> ELSE Join(q[k - 1], s[k])]
  <1>6. Merged(s) = q[N]
    BY Zenon DEF Merged, N
  <1>7. q = [k \in 0 .. N |-> IF k = 0 THEN <<>> ELSE Join(q[k - 1], s[k])]
    <2> DEFINE e == [k \in 0 .. N |-> IF k = 0 THEN <<>> ELSE Join(g[k - 1], s[k])]
    <2>1. g = e
      <3>1. \A k \in 0 .. N : g[k] = e[k]
        BY <1>1, <1>5
      <3>2. e = [k \in 0 .. N |-> e[k]]
        OBVIOUS
      <3> HIDE DEF e
      <3>3. g = [k \in 0 .. N |-> g[k]]
        OBVIOUS
      <3>4. QED BY <3>1, <3>2, <3>3
    <2>2. QED BY <2>1, Zenon
  <1> HIDE DEF q
  <1>8. q[0] = <<>> /\ \A k \in 1 .. N : q[k] = Join(q[k - 1], s[k])
    BY <1>1, <1>7
  <1> DEFINE Good(k) ==
               /\ q[k] \in S /\ Apart(q[k])
               /\ q[k] # <<>> => k \in 1 .. N /\ q[k][Len(q[k])].lo <= s[k].lo
               /\ \A x \in Nat : Covered(q[k], x) <=> \E j \in 1 .. k : In(x, s[j])
             P == {k \in 0 .. N : Good(k)}
  <1>9. 0 \in P
    <2>1. Apart(<<>>) /\ \A x : ~Covered(<<>>, x)
      BY DEF Apart, Covered
    <2>2. 0 \in 0 .. N /\ \A j \in 1 .. 0 : FALSE
      BY <1>1
    <2>3. Good(0)
      BY <1>2, <1>8, <2>1, <2>2
    <2>4. QED BY <2>2, <2>3
  <1>10. ASSUME NEW k \in 1 .. N, k - 1 \in P
         PROVE  k \in P
    <2> DEFINE m == q[k - 1]
    <2>1. Good(k - 1)
      BY <1>10
    <2>2. k \in 0 .. N /\ q[k] = Join(m, s[k]) /\ s[k] \in Ranges /\ s[k].lo \in Nat
      BY <1>1, <1>8
    <2>3. m \in S /\ Apart(m)
      BY <2>1
    <2>4. m # <<>> => m[Len(m)].lo <= s[k].lo
      <3> SUFFICES ASSUME m # <<>>
                   PROVE  m[Len(m)].lo <= s[k].lo
        OBVIOUS
      <3>1. k - 1 \in 1 .. N /\ m[Len(m)].lo <= s[k - 1].lo
        BY <2>1
      <3>2. k - 1 \in 1 .. k
        BY <1>1, <3>1
      <3>3. s[k - 1].lo <= s[k].lo /\ s[k - 1].lo \in Nat
        BY <1>1, <3>1, <3>2
      <3>4. m[Len(m)].lo \in Nat
        BY <2>3, SeqIs
      <3>5. QED BY <2>2, <3>1, <3>3, <3>4
    <2>5. \A x \in Nat : Covered(m, x) <=> \E j \in 1 .. k - 1 : In(x, s[j])
      BY <2>1
    <2> HIDE DEF m
    <2>6. /\ q[k] \in S /\ Apart(q[k]) /\ q[k][Len(q[k])].lo <= s[k].lo
          /\ \A x \in Nat : Covered(q[k], x) <=> Covered(m, x) \/ In(x, s[k])
      <3> DEFINE r == s[k]
                 e == Join(m, r)
      <3>1. r \in Ranges /\ (m # <<>> => m[Len(m)].lo <= r.lo) /\ q[k] = e
        BY <2>2, <2>4
      <3> HIDE DEF r
      <3>2. /\ e \in S /\ Apart(e) /\ e[Len(e)].lo <= r.lo
            /\ \A x \in Nat : Covered(e, x) <=> Covered(m, x) \/ In(x, r)
        BY <2>3, <3>1, JoinIs
      <3> HIDE DEF e
      <3>3. QED BY <3>1, <3>2, Zenon DEF r
    <2>7. \A j \in 1 .. k : j \in 1 .. k - 1 \/ j = k
      BY <1>1
    <2>8. k \in 1 .. k /\ \A j \in 1 .. k - 1 : j \in 1 .. k
      BY <1>1
    <2>9. \A x \in Nat : Covered(q[k], x) <=> \E j \in 1 .. k : In(x, s[j])
      BY <2>5, <2>6, <2>7, <2>8
    <2>10. QED BY <2>2, <2>6, <2>9
  <1> HIDE DEF P
  <1>11. N \in P
    <2>1. \A k \in 0 .. N : k \in P
      BY <1>1, <1>9, <1>10, UpTo
    <2>2. QED BY <1>1, <2>1
  <1>12. q[N] \in S /\ Apart(q[N]) /\ \A x \in Nat : Covered(q[N], x) <=> \E j \in 1 .. N : In(x, s[j])
    BY <1>11 DEF P
  <1>13. QED BY <1>6, <1>12 DEF Covered, N

-----------------------------------------------------------------------------
(* The walk through a region *)

\* The walk has told what no range covers of all it has gone past, and nothing of
\* the first k ranges is before it in the region.
Walked(region, m, k, w) ==
    /\ w.cur \in Nat /\ region.lo <= w.cur
    /\ \A x : x \in w.told <=> /\ x \in Nat /\ region.lo <= x /\ x < region.hi
                               /\ x < w.cur /\ ~Covered(m, x)
    /\ \A j \in 1 .. k : \A x \in Nat : In(x, m[j]) /\ x < region.hi => x < w.cur

\* One range of the walk.
LEMMA PassIs ==
    ASSUME NEW region, region.lo \in Nat, region.hi \in Nat,
           NEW m \in Seq(Ranges), Apart(m), NEW k \in 1 .. Len(m),
           NEW w \in [cur : Nat, told : SUBSET Nat], Walked(region, m, k - 1, w)
    PROVE  Walked(region, m, k, Pass(region, w, m[k]))
  <1> DEFINE r == m[k]
             v == Pass(region, w, r)
  <1>1. Len(m) \in Nat /\ \A j \in 1 .. Len(m) : m[j].lo \in Nat /\ m[j].hi \in Nat /\ m[j].lo < m[j].hi
    BY SeqIs
  <1>2. r.lo \in Nat /\ r.hi \in Nat /\ r.lo < r.hi /\ w.cur \in Nat /\ region.lo <= w.cur
    BY <1>1 DEF Walked
  <1>3. \A j \in 1 .. k : j \in 1 .. k - 1 \/ j = k
    BY <1>1
  <1>4. CASE w.cur >= region.hi \/ r.hi <= w.cur \/ r.lo >= region.hi
    <2>1. v = w
      BY <1>4 DEF Pass
    <2>2. \A x \in Nat : In(x, r) /\ x < region.hi => x < w.cur
      BY <1>2, <1>4 DEF In
    <2>3. \A j \in 1 .. k : \A x \in Nat : In(x, m[j]) /\ x < region.hi => x < w.cur
      BY <1>3, <2>2 DEF Walked
    <2> HIDE DEF v
    <2>4. QED BY <2>1, <2>3 DEF Walked, v
  <1>5. CASE ~(w.cur >= region.hi \/ r.hi <= w.cur \/ r.lo >= region.hi)
    <2>1. v = [cur |-> r.hi, told |-> w.told \cup (w.cur .. r.lo - 1)]
      BY <1>5 DEF Pass
    <2>2. v.cur = r.hi /\ v.told = w.told \cup (w.cur .. r.lo - 1)
      BY <2>1
    <2> HIDE DEF v
    <2>3. w.cur < region.hi /\ w.cur < r.hi /\ r.lo < region.hi
      BY <1>2, <1>5
    <2>4. ASSUME NEW x \in Nat, w.cur <= x, x < r.lo
          PROVE  ~Covered(m, x)
      <3> SUFFICES ASSUME NEW j \in 1 .. Len(m), In(x, m[j])
                   PROVE  FALSE
        BY DEF Covered
      <3>1. CASE j \in 1 .. k - 1
        <4>1. x < region.hi
          BY <1>2, <2>3, <2>4
        <4>2. x < w.cur
          BY <3>1, <4>1 DEF Walked
        <4>3. QED BY <1>2, <2>4, <4>2
      <3>2. CASE j = k
        BY <1>2, <2>4, <3>2 DEF In
      <3>3. CASE j > k
        <4>1. k \in 1 .. j - 1
          BY <1>1, <3>3
        <4>2. r.hi < m[j].lo /\ m[j].lo \in Nat
          BY <1>1, <4>1 DEF Apart
        <4>3. QED BY <1>2, <2>4, <4>2 DEF In
      <3>4. QED BY <1>1, <3>1, <3>2, <3>3
    <2>5. ASSUME NEW x
          PROVE  x \in v.told <=> /\ x \in Nat /\ region.lo <= x /\ x < region.hi
                                  /\ x < v.cur /\ ~Covered(m, x)
      <3>1. x \in v.told <=> x \in w.told \/ x \in w.cur .. r.lo - 1
        BY <2>2
      <3>2. x \in w.cur .. r.lo - 1 <=> x \in Nat /\ w.cur <= x /\ x < r.lo
        BY <1>2
      <3>3. x \in w.told <=> /\ x \in Nat /\ region.lo <= x /\ x < region.hi
                             /\ x < w.cur /\ ~Covered(m, x)
        BY DEF Walked
      <3>4. x \in Nat /\ r.lo <= x /\ x < r.hi => Covered(m, x)
        BY DEF Covered, In
      <3>5. CASE x \in Nat
        <4>1. x < w.cur \/ (w.cur <= x /\ x < r.lo) \/ (r.lo <= x /\ x < r.hi) \/ r.hi <= x
          BY <1>2, <3>5
        <4>2. QED BY <1>2, <2>2, <2>3, <2>4, <3>1, <3>2, <3>3, <3>4, <3>5, <4>1
      <3>6. CASE x \notin Nat
        BY <3>1, <3>2, <3>3, <3>6
      <3>7. QED BY <3>5, <3>6
    <2>6. ASSUME NEW j \in 1 .. k, NEW x \in Nat, In(x, m[j]), x < region.hi
          PROVE  x < v.cur
      <3>1. CASE j \in 1 .. k - 1
        <4>1. x < w.cur
          BY <2>6, <3>1 DEF Walked
        <4>2. QED BY <1>2, <2>2, <2>3, <4>1
      <3>2. CASE j = k
        BY <2>2, <2>6, <3>2 DEF In
      <3>3. QED BY <1>3, <3>1, <3>2
    <2>7. v.cur \in Nat /\ region.lo <= v.cur
      BY <1>2, <2>2, <2>3
    <2>8. QED BY <2>5, <2>6, <2>7 DEF Walked, v
  <1>6. QED BY <1>4, <1>5

LEMMA PassTyped ==
    ASSUME NEW region, NEW w \in [cur : Nat, told : SUBSET Nat], NEW r \in Ranges
    PROVE  Pass(region, w, r) \in [cur : Nat, told : SUBSET Nat]
  <1>1. r.lo \in Nat /\ r.hi \in Nat /\ w.cur \in Nat /\ w.told \in SUBSET Nat
    BY DEF Ranges
  <1>2. w.cur .. r.lo - 1 \in SUBSET Nat
    BY <1>1
  <1>3. [cur |-> r.hi, told |-> w.told \cup (w.cur .. r.lo - 1)] \in [cur : Nat, told : SUBSET Nat]
    BY <1>1, <1>2
  <1>4. QED BY <1>3 DEF Pass

\* The walk tells the units of the region that no range covers.
LEMMA GapsIs ==
    ASSUME NEW region, region.lo \in Nat, region.hi \in Nat,
           NEW m \in Seq(Ranges), Apart(m)
    PROVE  Gaps(region, m) = {x \in Within(region) : ~Covered(m, x)}
  <1> DEFINE N == Len(m)
             S == [cur : Nat, told : SUBSET Nat]
             first == [cur |-> region.lo, told |-> {}]
             h == [k \in 1 .. N |-> [w \in S |-> Pass(region, w, m[k])]]
  <1>1. N \in Nat /\ \A k \in 1 .. N : m[k] \in Ranges
    BY SeqIs
  <1>2. first \in S
    OBVIOUS
  <1>3. h \in [1 .. N -> [S -> S]]
        /\ \A k \in 1 .. N : \A w \in S : h[k][w] = Pass(region, w, m[k])
    <2>1. \A k \in 1 .. N : \A w \in S : Pass(region, w, m[k]) \in S
      BY <1>1, PassTyped
    <2> HIDE DEF N, S
    <2>2. QED BY <2>1
  <1> HIDE DEF h, N, first
  <1>4. PICK g \in [0 .. N -> S] : g[0] = first /\ \A k \in 1 .. N : g[k] = h[k][g[k - 1]]
    <2>1. Runs(N, S, first, h) # {}
      <3> HIDE DEF S
      <3>1. QED BY <1>1, <1>2, <1>3, Turns
    <2>2. QED BY <2>1 DEF Runs
  <1>5. g[0] = first /\ \A k \in 1 .. N : k - 1 \in 0 .. N /\ g[k] = Pass(region, g[k - 1], m[k])
    <2> SUFFICES ASSUME NEW k \in 1 .. N
                 PROVE  k - 1 \in 0 .. N /\ g[k] = Pass(region, g[k - 1], m[k])
      BY <1>4
    <2> HIDE DEF S
    <2>1. k - 1 \in 0 .. N
      BY <1>1
    <2>2. g[k] = h[k][g[k - 1]] /\ g[k - 1] \in S
      BY <1>4, <2>1
    <2>3. QED BY <1>3, <2>1, <2>2
  <1> DEFINE q == CHOOSE q : q = [k \in 0 .. N |-> IF k = 0 THEN first
                                                  ELSE Pass(region, q[k - 1], m[k])]
  <1>6. Gaps(region, m) = q[N].told \cup (q[N].cur .. region.hi - 1)
    BY Zenon DEF Gaps, N, first
  <1>7. q = [k \in 0 .. N |-> IF k = 0 THEN first ELSE Pass(region, q[k - 1], m[k])]
    <2> DEFINE e == [k \in 0 .. N |-> IF k = 0 THEN first ELSE Pass(region, g[k - 1], m[k])]
    <2>1. g = e
      <3>1. \A k \in 0 .. N : g[k] = e[k]
        BY <1>1, <1>5
      <3>2. e = [k \in 0 .. N |-> e[k]]
        OBVIOUS
      <3> HIDE DEF e, S
      <3>3. g = [k \in 0 .. N |-> g[k]]
        OBVIOUS
      <3>4. QED BY <3>1, <3>2, <3>3
    <2>2. QED BY <2>1, Zenon
  <1> HIDE DEF q
  <1>8. q[0] = first /\ \A k \in 1 .. N : q[k] = Pass(region, q[k - 1], m[k])
    BY <1>1, <1>7
  <1> DEFINE P == {k \in 0 .. N : q[k] \in S /\ Walked(region, m, k, q[k])}
  <1>9. 0 \in P
    <2>1. 0 \in 0 .. N /\ \A j \in 1 .. 0 : FALSE
      BY <1>1
    <2>2. first.cur = region.lo /\ first.told = {}
      BY DEF first
    <2>3. Walked(region, m, 0, first)
      <3>1. \A x \in Nat : ~(region.lo <= x /\ x < region.lo)
        OBVIOUS
      <3>2. QED BY <2>1, <2>2, <3>1 DEF Walked
    <2>4. QED BY <1>2, <1>8, <2>1, <2>3
  <1>10. ASSUME NEW k \in 1 .. N, k - 1 \in P
         PROVE  k \in P
    <2>1. q[k - 1] \in S /\ Walked(region, m, k - 1, q[k - 1])
      BY <1>10
    <2>2. k \in 0 .. N /\ k \in 1 .. Len(m) /\ m[k] \in Ranges /\ q[k] = Pass(region, q[k - 1], m[k])
      BY <1>1, <1>8 DEF N
    <2>3. q[k] \in S
      <3>1. Pass(region, q[k - 1], m[k]) \in S
        BY <2>1, <2>2, PassTyped, Zenon
      <3>2. QED BY <2>2, <3>1
    <2>4. Walked(region, m, k, q[k])
      BY <2>1, <2>2, PassIs
    <2>5. QED BY <2>2, <2>3, <2>4
  <1> HIDE DEF P
  <1>11. Walked(region, m, N, q[N])
    <2>1. \A k \in 0 .. N : k \in P
      BY <1>1, <1>9, <1>10, UpTo
    <2>2. N \in P
      BY <1>1, <2>1
    <2>3. QED BY <2>2 DEF P
  <1> DEFINE w == q[N]
  <1>12. w.cur \in Nat /\ region.lo <= w.cur
    BY <1>11 DEF Walked
  <1>13. ASSUME NEW x
         PROVE  x \in w.told \cup (w.cur .. region.hi - 1) <=> x \in Within(region) /\ ~Covered(m, x)
    <2>1. x \in w.told <=> /\ x \in Nat /\ region.lo <= x /\ x < region.hi
                           /\ x < w.cur /\ ~Covered(m, x)
      BY <1>11 DEF Walked
    <2>2. x \in Nat /\ x < region.hi /\ Covered(m, x) => x < w.cur
      BY <1>11 DEF Walked, Covered, N
    <2> HIDE DEF w
    <2>3. x \in Within(region) <=> x \in Nat /\ region.lo <= x /\ x < region.hi
      BY DEF Within
    <2>4. x \in w.cur .. region.hi - 1 <=> x \in Nat /\ w.cur <= x /\ x < region.hi
      BY <1>12
    <2>5. QED BY <1>12, <2>1, <2>2, <2>3, <2>4
  <1> HIDE DEF w
  <1>14. Gaps(region, m) = w.told \cup (w.cur .. region.hi - 1)
    BY <1>6 DEF w
  <1>15. QED BY <1>13, <1>14

\* What pmp_report() tells of a region is what no entry matches in it.
LEMMA ReportIs ==
    ASSUME NEW f \in [Entries -> Entry], \A i \in Entries : ~Matches(f, i, Top - 1),
           NEW name \in DOMAIN Regions
    PROVE  Report(f)[name] = {x \in Within(Regions[name]) : \A i \in Entries : ~Matches(f, i, x)}
  <1> DEFINE m == Merged(Sorted(f))
             region == Regions[name]
  <1>1. region.lo \in Unit /\ region.hi \in Unit
    BY RegionAssumption
  <1>2. Sorted(f) \in Ordered
        /\ \A x \in Unit : Covered(Sorted(f), x) <=> \E i \in Entries : Matches(f, i, x)
    BY SortedIs
  <1>3. m \in Seq(Ranges) /\ Apart(m) /\ \A x \in Nat : Covered(m, x) <=> Covered(Sorted(f), x)
    BY <1>2, MergedIs
  <1>4. Report(f)[name] = Gaps(region, m)
    BY DEF Report
  <1> HIDE DEF m, region
  <1>5. region.lo \in Nat /\ region.hi \in Nat /\ \A x \in Within(region) : x \in Unit /\ x \in Nat
    BY <1>1, Sizes DEF Unit, Within
  <1>6. Gaps(region, m) = {x \in Within(region) : ~Covered(m, x)}
    BY <1>3, <1>5, GapsIs
  <1>7. \A x \in Within(region) : Covered(m, x) <=> \E i \in Entries : Matches(f, i, x)
    BY <1>2, <1>3, <1>5
  <1>8. QED BY <1>4, <1>6, <1>7 DEF region

-----------------------------------------------------------------------------
(* The registers the report is read from *)

\* The registers of a core after each write of umode_pmp_program(), from f.
After(f, t) ==
    LET g[k \in 0 .. 5 * Last4] == IF k = 0 THEN f ELSE RegisterWritten(g[k - 1], k - 1, t)
    IN  g

\* Every core holds what the same writes have made of the same registers.
SameInv ==
    \E f \in Resets : \A c \in Cores : pmp[c] = After(f, Table(layout))[Done(c)]

\* What somebody locked, and what has been written, leaves the end of the address
\* space alone.
TopInv ==
    \A c \in Cores, i \in Entries :
        pmp[c][i].lock \/ 4 * Last4 + (i \div 4) < Done(c) => ~Matches(pmp[c], i, Top - 1)

\* A report was made of the registers of the main core as they are now.
ToldInv ==
    \A report \in told :
        /\ at \in {"kernel", "hosts", "done"}
        /\ report = [gaps  |-> Report(pmp[MainCore]),
                     tcm   |-> layout.table \in Within(Regions.tcm),
                     fetch |-> layout.user \in Within(layout.iram)]

ReportInv == SameInv /\ TopInv /\ ToldInv

LEMMA TableTyped ==
    ASSUME NEW l \in Layouts
    PROVE  Table(l) \in [Entries -> Entry]
  <1>1. \A i \in Entries : Table(l)[i] \in Entry
    BY TableEntry
  <1>2. QED BY <1>1 DEF Table

\* The loop of After, write by write.
LEMMA AfterIs ==
    ASSUME NEW f \in [Entries -> Entry], NEW t \in [Entries -> Entry]
    PROVE  /\ After(f, t)[0] = f
           /\ \A k \in 0 .. 5 * Last4 - 1 :
                After(f, t)[k + 1] = RegisterWritten(After(f, t)[k], k, t)
  <1> DEFINE N == 5 * Last4
             S == [Entries -> Entry]
             h == [k \in 1 .. N |-> [e \in S |-> RegisterWritten(e, k - 1, t)]]
  <1>1. N \in Nat /\ \A k \in 1 .. N : k - 1 \in 0 .. 5 * Last4 - 1
    BY Sizes
  <1>2. h \in [1 .. N -> [S -> S]]
        /\ \A k \in 1 .. N : \A e \in S : h[k][e] = RegisterWritten(e, k - 1, t)
    <2>1. \A k \in 1 .. N : \A e \in S : RegisterWritten(e, k - 1, t) \in S
      BY <1>1, WriteTyped
    <2> HIDE DEF N, S
    <2>2. QED BY <2>1
  <1>3. f \in S
    OBVIOUS
  <1> HIDE DEF h, N, S
  <1>4. PICK g \in [0 .. N -> S] : g[0] = f /\ \A k \in 1 .. N : g[k] = h[k][g[k - 1]]
    <2>1. Runs(N, S, f, h) # {}
      BY <1>1, <1>2, <1>3, Turns
    <2>2. QED BY <2>1 DEF Runs
  <1>5. g[0] = f /\ \A k \in 1 .. N : k - 1 \in 0 .. N /\ g[k] = RegisterWritten(g[k - 1], k - 1, t)
    <2> SUFFICES ASSUME NEW k \in 1 .. N
                 PROVE  k - 1 \in 0 .. N /\ g[k] = RegisterWritten(g[k - 1], k - 1, t)
      BY <1>4
    <2>1. k - 1 \in 0 .. N
      BY <1>1
    <2>2. g[k] = h[k][g[k - 1]] /\ g[k - 1] \in S
      BY <1>4, <2>1
    <2>3. QED BY <1>2, <2>1, <2>2
  <1> DEFINE q == CHOOSE q : q = [k \in 0 .. N |-> IF k = 0 THEN f
                                                  ELSE RegisterWritten(q[k - 1], k - 1, t)]
  <1>6. After(f, t) = q
    BY Zenon DEF After, N
  <1>7. q = [k \in 0 .. N |-> IF k = 0 THEN f ELSE RegisterWritten(q[k - 1], k - 1, t)]
    <2> DEFINE e == [k \in 0 .. N |-> IF k = 0 THEN f ELSE RegisterWritten(g[k - 1], k - 1, t)]
    <2>1. g = e
      <3>1. \A k \in 0 .. N : g[k] = e[k]
        BY <1>1, <1>5
      <3>2. e = [k \in 0 .. N |-> e[k]]
        OBVIOUS
      <3> HIDE DEF e
      <3>3. g = [k \in 0 .. N |-> g[k]]
        OBVIOUS
      <3>4. QED BY <3>1, <3>2, <3>3
    <2>2. QED BY <2>1, Zenon
  <1> HIDE DEF q
  <1>8. q[0] = f /\ \A k \in 1 .. N : q[k] = RegisterWritten(q[k - 1], k - 1, t)
    BY <1>1, <1>7
  <1>9. ASSUME NEW k \in 0 .. 5 * Last4 - 1
        PROVE  q[k + 1] = RegisterWritten(q[k], k, t)
    <2>1. k + 1 \in 1 .. N /\ (k + 1) - 1 = k
      BY Sizes DEF N
    <2>2. QED BY <1>8, <2>1
  <1>10. QED BY <1>6, <1>8, <1>9

\* Whether an entry matches the last address is its own affair: no limit is there.
LEMMA TopIs ==
    ASSUME NEW f \in [Entries -> Entry], NEW i \in Entries
    PROVE  /\ f[i].mode \in {"OFF", "TOR"} => ~Matches(f, i, Top - 1)
           /\ \A g : g[i] = f[i] => (Matches(g, i, Top - 1) <=> Matches(f, i, Top - 1))
  <1>1. f[i] \in Entry
    OBVIOUS
  <1>2. ~(Top - 1 < f[i].addr)
    BY <1>1, Sizes DEF Entry, Unit
  <1>3. QED BY <1>2 DEF Matches

\* A write keeps clear of the last address what was locked or written before.
LEMMA TopWritten ==
    ASSUME NEW l \in Layouts, NEW f \in [Entries -> Entry], NEW k \in 0 .. 5 * Last4 - 1,
           \A i \in Entries : f[i].lock \/ 4 * Last4 + (i \div 4) < k => ~Matches(f, i, Top - 1),
           NEW i \in Entries,
           \/ RegisterWritten(f, k, Table(l))[i].lock
           \/ 4 * Last4 + (i \div 4) < k + 1
    PROVE  ~Matches(RegisterWritten(f, k, Table(l)), i, Top - 1)
  <1> DEFINE t == Table(l)
             g == RegisterWritten(f, k, t)
  <1>1. t \in [Entries -> Entry] /\ g \in [Entries -> Entry]
    BY TableTyped, WriteTyped
  <1>2. t[i] \in Entry /\ f[i] \in Entry /\ t[i].lock = FALSE /\ t[i].mode \in {"OFF", "TOR"}
    <2>1. t[i] \in Entry /\ f[i] \in Entry /\ ~t[i].lock
      BY TableEntry
    <2>2. t[i].mode # "OFF" => i \in {1, 3, 5}
      BY TableEntry
    <2>3. t[i].mode # "OFF" => t[i].mode = "TOR"
      <3> SUFFICES ASSUME t[i].mode # "OFF"
                   PROVE  t[i].mode = "TOR"
        OBVIOUS
      <3>1. i = 2 * 1 - 1 \/ i = 2 * 2 - 1 \/ i = 2 * 3 - 1
        BY <2>2
      <3>2. PICK r \in 1 .. 3 : i = 2 * r - 1
        BY <3>1
      <3>3. t[i] = [addr |-> Grants(l)[r].range.hi, mode |-> "TOR",
                    perm |-> Grants(l)[r].perm, lock |-> FALSE]
        BY <3>2, TablePair
      <3>4. QED BY <3>3
    <2> HIDE DEF t
    <2>4. t[i].lock = FALSE
      BY <2>1 DEF Entry
    <2>5. QED BY <2>1, <2>3, <2>4
  <1>3. CASE k \in Entries
    <2>1. ~(4 * Last4 + (i \div 4) < k + 1)
      BY <1>3, Sizes DEF Entries
    <2>2. g[i].lock
      BY <2>1
    <2> DEFINE e == [f[k] EXCEPT !.addr = t[k].addr]
    <2>3. g = f \/ (g = [f EXCEPT ![k] = e] /\ ~f[k].lock)
      <3>1. [f EXCEPT ![k] = e] = [f EXCEPT ![k].addr = t[k].addr]
        OBVIOUS
      <3> HIDE DEF e
      <3>2. QED BY <1>3, <3>1 DEF RegisterWritten, WriteAddr
    <2>4. g[i] = f[i] /\ f[i].lock
      <3> HIDE DEF t
      <3>1. CASE i = k
        <4>1. g = f \/ (g[i] = [f[i] EXCEPT !.addr = t[i].addr] /\ ~f[i].lock)
          <5> HIDE DEF g
          <5>1. QED BY <2>3, <3>1
        <4>2. [f[i] EXCEPT !.addr = t[i].addr].lock = f[i].lock
          BY <1>2 DEF Entry
        <4>3. g = f
          <5> HIDE DEF g
          <5>1. QED BY <2>2, <4>1, <4>2
        <4>4. QED BY <2>2, <4>3
      <3>2. CASE i # k
        <4>1. g[i] = f[i]
          <5> HIDE DEF g
          <5>1. QED BY <2>3, <3>2
        <4>2. QED BY <2>2, <4>1
      <3>3. QED BY <3>1, <3>2
    <2>5. ~Matches(f, i, Top - 1)
      BY <2>4
    <2> HIDE DEF g
    <2>6. QED BY <2>4, <2>5, TopIs DEF g
  <1>4. CASE k \notin Entries
    <2> DEFINE w == k - 4 * Last4
    <2>1. g = WriteCfg(f, w, t) /\ w \in Nat /\ k = 4 * Last4 + w
      BY <1>4, Sizes DEF RegisterWritten, Entries
    <2> HIDE DEF w
    <2>2. g[i] = IF i \div 4 = w /\ ~f[i].lock THEN [t[i] EXCEPT !.addr = f[i].addr] ELSE f[i]
      BY <2>1 DEF WriteCfg
    <2>3. CASE i \div 4 = w /\ ~f[i].lock
      <3>1. g[i] = [t[i] EXCEPT !.addr = f[i].addr]
        BY <2>2, <2>3
      <3> HIDE DEF t, g
      <3>2. g[i].mode = t[i].mode
        BY <1>2, <3>1 DEF Entry
      <3>3. QED BY <1>1, <1>2, <3>2, TopIs DEF g, t
    <2>4. CASE ~(i \div 4 = w /\ ~f[i].lock)
      <3>1. g[i] = f[i]
        BY <2>2, <2>4
      <3>2. f[i].lock \/ 4 * Last4 + (i \div 4) < k
        <4>1. i \div 4 \in Nat
          BY Sizes DEF Entries
        <4> HIDE DEF g
        <4>2. g[i].lock \/ 4 * Last4 + (i \div 4) < k + 1
          BY DEF g
        <4>3. QED BY <2>1, <2>4, <3>1, <4>1, <4>2, Sizes
      <3>3. ~Matches(f, i, Top - 1)
        BY <3>2
      <3> HIDE DEF g
      <3>4. QED BY <3>1, <3>3, TopIs DEF g
    <2>5. QED BY <2>3, <2>4
  <1>5. QED BY <1>3, <1>4

-----------------------------------------------------------------------------
(* The steps of kernel_main() *)

LEMMA InitReportInv == Init => ReportInv
  <1> SUFFICES ASSUME Init
               PROVE  ReportInv
    OBVIOUS
  <1>1. PICK f \in Resets : pmp = [c \in Cores |-> f]
    BY DEF Init
  <1>2. f \in [Entries -> Entry] /\ \A i \in Entries : f[i].lock => ~Matches(f, i, Top - 1)
    BY ResetAssumption
  <1>3. layout \in Layouts /\ told = {}
    BY DEF Init
  <1>4. \A c \in Cores : pmp[c] = f /\ Done(c) = 0
    BY <1>1 DEF Init, Done
  <1>5. After(f, Table(layout))[0] = f
    BY <1>2, <1>3, TableTyped, AfterIs
  <1>6. SameInv
    BY <1>4, <1>5 DEF SameInv
  <1>7. TopInv
    <2>1. \A i \in Entries : ~(4 * Last4 + (i \div 4) < 0)
      BY Sizes DEF Entries
    <2>2. QED BY <1>2, <1>4, <2>1 DEF TopInv
  <1>8. ToldInv
    BY <1>3 DEF ToldInv
  <1>9. QED BY <1>6, <1>7, <1>8 DEF ReportInv

\* The steps that write no register.
LEMMA ReportKept ==
    ASSUME ReportInv, UNCHANGED <<layout, pmp>>, \A c \in Cores : Done(c)' = Done(c),
           \/ told' = told /\ (told # {} => at' \in {"kernel", "hosts", "done"})
           \/ /\ at' = "kernel"
              /\ told' = told \cup {[gaps  |-> Report(pmp[MainCore]),
                                     tcm   |-> layout.table \in Within(Regions.tcm),
                                     fetch |-> layout.user \in Within(layout.iram)]}
    PROVE  ReportInv'
  <1>1. SameInv'
    BY DEF ReportInv, SameInv
  <1>2. TopInv'
    BY DEF ReportInv, TopInv
  <1>3. ToldInv'
    BY DEF ReportInv, ToldInv
  <1>4. QED BY <1>1, <1>2, <1>3 DEF ReportInv

LEMMA ProgramPmpReportInv ==
    ASSUME IInv, ReportInv, ProgramPmp
    PROVE  ReportInv'
  <1> DEFINE d == CoreOrder[n + 1]
             t == Table(layout)
             g == RegisterWritten(pmp[d], csrw, t)
  <1>1. /\ at = "apply" /\ csrw \in 0 .. 5 * Last4 - 1 /\ layout \in Layouts
        /\ pmp \in [Cores -> [Entries -> Entry]]
        /\ pmp' = [pmp EXCEPT ![d] = g] /\ UNCHANGED <<layout, told>>
    BY DEF ProgramPmp, MainAt, IInv, TypeOK
  <1>2. /\ d \in Cores /\ Done(d) = csrw
        /\ \A c \in Cores : Done(c)' = IF c = d THEN csrw + 1 ELSE Done(c)
    BY ProgramPmpDone
  <1>3. t \in [Entries -> Entry]
    BY <1>1, TableTyped
  <1> HIDE DEF d
  <1>4. pmp[d] \in [Entries -> Entry]
    BY <1>1, <1>2
  <1> HIDE DEF g
  <1>5. ASSUME NEW c \in Cores
        PROVE  pmp'[c] = IF c = d THEN g ELSE pmp[c]
    BY <1>1
  <1>6. SameInv'
    <2>1. PICK f \in Resets : \A c \in Cores : pmp[c] = After(f, t)[Done(c)]
      BY DEF ReportInv, SameInv
    <2>2. f \in [Entries -> Entry]
      BY ResetAssumption
    <2>3. After(f, t)[csrw + 1] = RegisterWritten(After(f, t)[csrw], csrw, t)
      BY <1>1, <1>3, <2>2, AfterIs
    <2>4. pmp[d] = After(f, t)[csrw]
      BY <1>2, <2>1
    <2>5. g = After(f, t)[csrw + 1]
      BY <2>3, <2>4, Zenon DEF g
    <2> HIDE DEF t
    <2>6. \A c \in Cores : pmp'[c] = After(f, t)[Done(c)']
      <3> SUFFICES ASSUME NEW c \in Cores
                   PROVE  pmp'[c] = After(f, t)[Done(c)']
        OBVIOUS
      <3>1. CASE c = d
        <4>1. pmp'[c] = g /\ Done(c)' = csrw + 1
          BY <1>2, <1>5, <3>1
        <4>2. QED BY <2>5, <4>1, Zenon
      <3>2. CASE c # d
        <4>1. pmp'[c] = pmp[c] /\ Done(c)' = Done(c)
          BY <1>2, <1>5, <3>2
        <4>2. pmp[c] = After(f, t)[Done(c)]
          BY <2>1
        <4>3. QED BY <4>1, <4>2, Zenon
      <3>3. QED BY <3>1, <3>2
    <2>7. Table(layout)' = t
      BY <1>1 DEF t
    <2>8. QED BY <2>6, <2>7, Zenon DEF SameInv
  <1>7. TopInv'
    <2> SUFFICES ASSUME NEW c \in Cores, NEW i \in Entries,
                        pmp'[c][i].lock \/ 4 * Last4 + (i \div 4) < Done(c)'
                 PROVE  ~Matches(pmp'[c], i, Top - 1)
      BY DEF TopInv
    <2>1. CASE c = d
      <3>1. \A j \in Entries : pmp[d][j].lock \/ 4 * Last4 + (j \div 4) < csrw =>
                               ~Matches(pmp[d], j, Top - 1)
        BY <1>2 DEF ReportInv, TopInv
      <3>2. pmp'[c] = g /\ Done(c)' = csrw + 1
        BY <1>2, <1>5, <2>1
      <3>3. ~Matches(g, i, Top - 1)
        BY <1>1, <1>4, <3>1, <3>2, TopWritten DEF g
      <3>4. QED BY <3>2, <3>3
    <2>2. CASE c # d
      <3>1. pmp'[c] = pmp[c] /\ Done(c)' = Done(c)
        BY <1>2, <1>5, <2>2
      <3>2. QED BY <3>1 DEF ReportInv, TopInv
    <2>3. QED BY <2>1, <2>2
  <1>8. ToldInv'
    <2>1. told = {}
      BY <1>1 DEF ReportInv, ToldInv
    <2>2. QED BY <1>1, <2>1 DEF ToldInv
  <1>9. QED BY <1>6, <1>7, <1>8 DEF ReportInv

LEMMA NextReportInv ==
    ASSUME IInv, ReportInv, [Next]_vars
    PROVE  ReportInv'
  <1>1. told # {} => at \in {"kernel", "hosts", "done"}
    BY DEF ReportInv, ToldInv
  <1>2. CASE CreateMutex
    <2>1. at = "mutex" /\ at' = "unroute" /\ UNCHANGED <<layout, n, csrw, pmp, told>>
      BY <1>2 DEF CreateMutex, MainAt
    <2>2. \A c \in Cores : Done(c)' = Done(c)
      BY <2>1 DEF Done
    <2>3. QED BY <1>1, <2>1, <2>2, ReportKept
  <1>3. CASE UnrouteGuard
    <2>1. at = "unroute" /\ UNCHANGED <<layout, pmp, told>>
      BY <1>3 DEF UnrouteGuard, MainAt
    <2>2. \A c \in Cores : Done(c)' = Done(c)
      BY <1>3, UnrouteGuardDone
    <2>3. QED BY <1>1, <2>1, <2>2, ReportKept
  <1>4. CASE ProgramPmp
    BY <1>4, ProgramPmpReportInv
  <1>5. CASE SetUpSlot \/ CreateKernelTask \/ CreateHost
    <2>1. /\ at \in {"slots", "kernel", "hosts"} /\ at' \in {"slots", "report", "hosts", "done"}
          /\ at # "slots" => at' \in {"hosts", "done"}
          /\ UNCHANGED <<layout, pmp, told>>
      BY <1>5 DEF SetUpSlot, CreateKernelTask, CreateHost, MainAt, Turn
    <2>2. \A c \in Cores : Done(c)' = Done(c)
      BY <2>1 DEF Done
    <2>3. QED BY <1>1, <2>1, <2>2, ReportKept
  <1>6. CASE BootReport
    <2>1. /\ at = "report" /\ at' = "kernel" /\ UNCHANGED <<layout, pmp>>
          /\ told' = told \cup {[gaps  |-> Report(pmp[MainCore]),
                                 tcm   |-> layout.table \in Within(Regions.tcm),
                                 fetch |-> layout.user \in Within(layout.iram)]}
      BY <1>6 DEF BootReport, MainAt
    <2>2. \A c \in Cores : Done(c)' = Done(c)
      BY <2>1 DEF Done
    <2>3. QED BY <2>1, <2>2, ReportKept
  <1>7. CASE \E c \in Cores : CloseWindow(c) \/ \E s \in Slots : OpenWindow(s, c)
    <2>1. UNCHANGED <<layout, at, n, csrw, pmp, told>>
      BY <1>7 DEF CloseWindow, OpenWindow
    <2>2. \A c \in Cores : Done(c)' = Done(c)
      BY <2>1 DEF Done
    <2>3. QED BY <1>1, <2>1, <2>2, ReportKept
  <1>8. CASE UNCHANGED vars
    <2>1. UNCHANGED <<layout, at, n, csrw, pmp, told>>
      BY <1>8 DEF vars
    <2>2. \A c \in Cores : Done(c)' = Done(c)
      BY <2>1 DEF Done
    <2>3. QED BY <1>1, <2>1, <2>2, ReportKept
  <1>9. QED BY <1>2, <1>3, <1>4, <1>5, <1>6, <1>7, <1>8 DEF Next

\* Once told, a report holds of every core.
LEMMA ToldIsTrue ==
    ASSUME IInv, ReportInv, NEW report \in told, NEW c \in Cores
    PROVE  /\ \A name \in DOMAIN Regions :
                report.gaps[name] = {x \in Within(Regions[name]) :
                                     \A i \in Entries : ~Matches(pmp[c], i, x)}
           /\ Unlocked(pmp[c]) =>
                /\ \A name \in DOMAIN Regions :
                     Within(Regions[name]) \ report.gaps[name] \subseteq
                         UNION {Reach(pmp[c], op) : op \in Perms}
                /\ report.fetch <=> layout.user \in Reach(pmp[c], "X")
                /\ report.tcm => \A op \in Perms : layout.table \notin Reach(pmp[c], op)
  <1> DEFINE f == pmp[c]
  <1>1. /\ at \in {"kernel", "hosts", "done"}
        /\ report = [gaps  |-> Report(pmp[MainCore]),
                     tcm   |-> layout.table \in Within(Regions.tcm),
                     fetch |-> layout.user \in Within(layout.iram)]
    BY DEF ReportInv, ToldInv
  <1>2. \A b \in Cores : Done(b) = 5 * Last4
    BY <1>1 DEF Done
  <1>3. layout \in Layouts /\ f \in [Entries -> Entry]
    BY DEF IInv, TypeOK
  <1>4. pmp[MainCore] = f
    BY <1>2, Sizes DEF ReportInv, SameInv
  <1>5. \A i \in Entries : ~Matches(f, i, Top - 1)
    <2>1. \A i \in Entries : 4 * Last4 + (i \div 4) < 5 * Last4
      BY Sizes DEF Entries
    <2>2. QED BY <1>2, <2>1 DEF ReportInv, TopInv
  <1>6. report.gaps = Report(f) /\ report.tcm = (layout.table \in Within(Regions.tcm))
        /\ report.fetch = (layout.user \in Within(layout.iram))
    <2> HIDE DEF f
    <2>1. QED BY <1>1, <1>4
  <1>7. Unlocked(f) => Written(f, 5 * Last4, Table(layout))
    BY <1>2 DEF IInv, PmpInv
  <1> HIDE DEF f
  <1>8. ASSUME NEW name \in DOMAIN Regions
        PROVE  report.gaps[name] = {x \in Within(Regions[name]) :
                                    \A i \in Entries : ~Matches(f, i, x)}
    BY <1>3, <1>5, <1>6, ReportIs
  <1>9. ASSUME Unlocked(f), NEW op
        PROVE  Reach(f, op) = Intended(layout, op)
    <2>1. 5 * Last4 \in 0 .. 5 * Last4 /\ Written(f, 5 * Last4, Table(layout))
      BY <1>7, <1>9, Sizes
    <2>2. Reach(f, op) \subseteq Intended(layout, op)
      BY <1>3, <2>1, NeverMore
    <2>3. Intended(layout, op) \subseteq Reach(f, op)
      BY <1>3, <2>1, AllOfThem
    <2>4. QED BY <2>2, <2>3
  <1>10. ASSUME Unlocked(f), NEW name \in DOMAIN Regions,
                NEW x \in Within(Regions[name]) \ report.gaps[name]
         PROVE  x \in UNION {Reach(f, op) : op \in Perms}
    <2>1. PICK i \in Entries : Matches(f, i, x)
      BY <1>8
    <2>2. x \in Unit
      <3>1. Regions[name].lo \in Unit /\ Regions[name].hi \in Unit
        BY RegionAssumption
      <3>2. QED BY <3>1, Sizes DEF Within, Unit
    <2>3. 5 * Last4 \in 0 .. 5 * Last4 /\ Written(f, 5 * Last4, Table(layout))
      BY <1>7, <1>10, Sizes
    <2>4. PICK r \in 1 .. 3 : x \in Within(Grants(layout)[r].range)
      BY <1>3, <2>1, <2>2, <2>3, MatchesGrant
    <2>5. "R" \in Grants(layout)[r].perm
      <3>1. r = 1 \/ r = 2 \/ r = 3
        OBVIOUS
      <3>2. QED BY <3>1 DEF Grants
    <2>6. x \in Intended(layout, "R")
      BY <2>4, <2>5, IntendedIs
    <2>7. x \in Reach(f, "R") /\ "R" \in Perms
      BY <1>9, <1>10, <2>6 DEF Perms
    <2>8. QED BY <2>7
  <1>11. ASSUME Unlocked(f)
         PROVE  report.fetch <=> layout.user \in Reach(f, "X")
    <2>1. \A r \in 1 .. 3 : "X" \in Grants(layout)[r].perm <=> r = 1
      <3>1. \A r \in 1 .. 3 : r = 1 \/ r = 2 \/ r = 3
        OBVIOUS
      <3>2. QED BY <3>1 DEF Grants
    <2>2. Grants(layout)[1].range = layout.iram
      BY DEF Grants
    <2>3. layout.user \in Intended(layout, "X") <=> layout.user \in Within(layout.iram)
      BY <2>1, <2>2, IntendedIs
    <2>4. QED BY <1>6, <1>9, <1>11, <2>3
  <1>12. ASSUME Unlocked(f), report.tcm, NEW op \in Perms
         PROVE  layout.table \notin Reach(f, op)
    <2>1. layout.table \in Within(Regions.tcm)
      BY <1>6, <1>12
    <2>2. \A r \in 1 .. 3 : layout.table \notin Within(Grants(layout)[r].range)
      <3>1. \A r \in 1 .. 3 : Within(Grants(layout)[r].range) \cap Within(Regions.tcm) = {}
        BY <1>3, LayoutAssumption
      <3>2. QED BY <2>1, <3>1
    <2>3. layout.table \notin Intended(layout, op)
      BY <2>2, IntendedIs
    <2>4. QED BY <1>9, <1>12, <2>3
  <1>13. QED BY <1>8, <1>10, <1>11, <1>12 DEF f

\* boot_report() reads one core: what it names as matched by no entry is exactly
\* that, on every core; where nothing was locked U-mode reaches all the rest; and
\* its lines on user_main and on the slot table are true.
THEOREM ReportIsTruthful == Spec => []ReportTruthful
<1>1. IInv /\ ReportInv => ReportTruthful
  <2> SUFFICES ASSUME IInv, ReportInv
               PROVE  ReportTruthful
    OBVIOUS
  <2>1. QED BY ToldIsTrue, Zenon DEF ReportTruthful
<1>2. IInv /\ ReportInv /\ [Next]_vars => ReportInv'
  BY NextReportInv
<1>3. QED BY InitReportInv, <1>1, <1>2, BootInvariant, PTL DEF Spec
=============================================================================

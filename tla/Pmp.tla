--------------------------------- MODULE Pmp ---------------------------------
(***************************************************************************)
(* The physical memory protection of one core: what its entries match and  *)
(* grant, as the RISC-V privileged architecture defines it; the table      *)
(* pmp_apply() builds; and what pmp_report() makes of the registers.       *)
(*                                                                         *)
(* An address is a unit of four bytes, so a pmpaddr value is an address as *)
(* it stands and the shifts by two drop out; Top is the first unit that    *)
(* 32 bits of bytes cannot name.  Bounds of all ranges are multiples of    *)
(* the grain of the part, which the pool is aligned to.                    *)
(***************************************************************************)
EXTENDS Integers, Sequences

CONSTANTS
    Top,        \* addresses are 0 .. Top - 1
    Last4,      \* entries are 0 .. 4 * Last4 - 1, four to a pmpcfg register
    Regions     \* the rows of the report, [name -> range]

ASSUME SizeAssumption == Top \in Nat \ {0} /\ Last4 \in Nat /\ Last4 >= 2

Unit    == 0 .. Top - 1

ASSUME RegionAssumption ==
    \A name \in DOMAIN Regions : Regions[name].lo \in Unit /\ Regions[name].hi \in Unit

Entries == 0 .. 4 * Last4 - 1
Words   == 0 .. Last4 - 1
Perms   == {"R", "W", "X"}

Entry == [addr : Unit, mode : {"OFF", "TOR", "NA4", "NAPOT"},
          perm : SUBSET Perms, lock : BOOLEAN]
Off(a) == [addr |-> a, mode |-> "OFF", perm |-> {}, lock |-> FALSE]

\* A range is a record of its first unit and the first unit past it.
Within(r) == r.lo .. r.hi - 1

-----------------------------------------------------------------------------
(* The hardware *)

\* The base of a TOR entry is the address of the entry before it.
Base(f, i) == IF i = 0 THEN 0 ELSE f[i - 1].addr

\* A NAPOT address names the block by its lowest zero bit: that bit and the ones
\* below it are anything in the block.  The bit is the least b that is in a + 1 an
\* odd number of times.
LowestZero(a) == CHOOSE b \in 1 .. a + 1 : /\ a % (2 * b) = b - 1
                                          /\ \A c \in 1 .. b - 1 : a % (2 * c) # c - 1
Block(a) == 2 * LowestZero(a)

Matches(f, i, x) ==
    \/ f[i].mode = "TOR" /\ Base(f, i) <= x /\ x < f[i].addr
    \/ f[i].mode = "NA4" /\ x = f[i].addr
    \/ f[i].mode = "NAPOT"
         /\ x \div Block(f[i].addr) = f[i].addr \div Block(f[i].addr)

\* The lowest matching entry decides; no match denies U-mode.
Reach(f, op) ==
    {x \in Unit : \E i \in Entries :
                    /\ Matches(f, i, x) /\ op \in f[i].perm
                    /\ \A j \in 0 .. i - 1 : ~Matches(f, j, x)}

Unlocked(f) == \A i \in Entries : ~f[i].lock

\* A locked entry keeps its address, and a locked TOR entry its base.
WriteAddr(f, i, a) ==
    IF \/ f[i].lock
       \/ i + 1 \in Entries /\ f[i + 1].lock /\ f[i + 1].mode = "TOR"
    THEN f ELSE [f EXCEPT ![i].addr = a]

\* One pmpcfg register holds four configurations, taken from the entries of e.
WriteCfg(f, w, e) ==
    [i \in Entries |-> IF i \div 4 = w /\ ~f[i].lock
                       THEN [e[i] EXCEPT !.addr = f[i].addr] ELSE f[i]]

-----------------------------------------------------------------------------
(* pmp_apply() *)

\* What U-mode may touch: IRAM text, the user pool and the PSRAM window.
Grants(layout) == <<
    [range |-> layout.iram,   perm |-> {"R", "X"}],
    [range |-> layout.pool,   perm |-> {"R", "W"}],
    [range |-> layout.extram, perm |-> {"R", "W"}] >>

Intended(layout, op) ==
    UNION {Within(Grants(layout)[g].range) :
             g \in {h \in 1 .. 3 : op \in Grants(layout)[h].perm}}

\* Two entries to a range: the base, off, and the limit with the permissions.
Table(layout) ==
    [i \in Entries |->
       LET g == Grants(layout)[(i \div 2) + 1]
       IN  IF i >= 6 THEN Off(0)
           ELSE IF i % 2 = 0 THEN Off(g.range.lo)
           ELSE [addr |-> g.range.hi, mode |-> "TOR", perm |-> g.perm,
                 lock |-> FALSE]]

-----------------------------------------------------------------------------
(* pmp_report() *)

\* The range an entry covers; where it wraps, or is empty, it is left out.
Decode(f, i) ==
    LET a   == f[i].addr
        inv == LowestZero(a)
    IN  CASE f[i].mode = "TOR"   -> [lo |-> Base(f, i), hi |-> a]
          [] f[i].mode = "NA4"   -> [lo |-> a, hi |-> (a + 1) % Top]
          [] f[i].mode = "NAPOT" -> [lo |-> a - (a % inv),
                                     hi |-> ((a - (a % inv)) + 2 * inv) % Top]
          [] OTHER               -> [lo |-> 0, hi |-> 0]

\* The insertion sort: r goes behind everything that does not start after it.
Place(s, r) == CHOOSE p \in 0 .. Len(s) : /\ p > 0 => s[p].lo <= r.lo
                                          /\ \A j \in p + 1 .. Len(s) : s[j].lo > r.lo
Insert(s, r) ==
    LET p == Place(s, r)
    IN  [j \in 1 .. Len(s) + 1 |->
           IF j <= p THEN s[j] ELSE IF j = p + 1 THEN r ELSE s[j - 1]]

\* What the first entries cover, sorted: each is inserted as it is collected.
Collect(s, r) == IF r.hi > r.lo THEN Insert(s, r) ELSE s
Sorted(f) ==
    LET s[k \in 0 .. 4 * Last4] == IF k = 0 THEN <<>> ELSE Collect(s[k - 1], Decode(f, k - 1))
    IN  s[4 * Last4]

\* Mutant: ranges that only touch, or lie within one another, end the merge
\* with the bound of the later one.
Join_LastBound(s, r) ==
    IF s # <<>> /\ r.lo <= s[Len(s)].hi
    THEN [s EXCEPT ![Len(s)].hi = r.hi]
    ELSE Append(s, r)

\* The merge: a range that reaches into the last one extends it.
Join(s, r) ==
    IF s # <<>> /\ r.lo <= s[Len(s)].hi
    THEN IF r.hi > s[Len(s)].hi THEN [s EXCEPT ![Len(s)].hi = r.hi] ELSE s
    ELSE Append(s, r)

Merged(s) ==
    LET m[k \in 0 .. Len(s)] == IF k = 0 THEN <<>> ELSE Join(m[k - 1], s[k])
    IN  m[Len(s)]

\* One range of the walk through a region: the gap before it is told, and the
\* walk goes on behind it.
Pass(region, walk, r) ==
    IF walk.cur >= region.hi \/ r.hi <= walk.cur \/ r.lo >= region.hi
    THEN walk
    ELSE [cur |-> r.hi, told |-> walk.told \cup (walk.cur .. r.lo - 1)]

\* The units of a region the report names as matched by no entry.
Gaps(region, m) ==
    LET w[k \in 0 .. Len(m)] == IF k = 0 THEN [cur |-> region.lo, told |-> {}]
                                ELSE Pass(region, w[k - 1], m[k])
    IN  w[Len(m)].told \cup (w[Len(m)].cur .. region.hi - 1)

Report(f) == [name \in DOMAIN Regions |-> Gaps(Regions[name], Merged(Sorted(f)))]
=============================================================================

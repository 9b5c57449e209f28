--------------------------- MODULE SysPuts_proof ---------------------------
(***************************************************************************)
(* SYS_PUTS for an arena and a message buffer of any size, and any number  *)
(* of stores by other users between the kernel's loads: it loads from the  *)
(* caller's arena only, what it prints is a string whose every byte stood  *)
(* at its place, and undisturbed it is exact.                              *)
(***************************************************************************)
EXTENDS SysPuts, WellFoundedInduction, TLAPS

USE WordAssumption, ArenaAssumption, BufferAssumption DEF Address

-----------------------------------------------------------------------------
(* The inductive invariant *)

\* How far the kernel is in the string: after the check the pointer is in the
\* arena, the scan has not gone past its end, and once it has found a NUL, all
\* of the string with the NUL is in the arena and the message fits msg[].
PlaceInv ==
    /\ pc = "check" => n = 0
    /\ pc \in {"check", "scan"} => i = 0
    /\ pc \in {"check", "scan", "copy", "print", "rejected"} => printed = <<>>
    /\ pc = "scan" => addr >= Lo /\ addr < Lo + Size /\ addr + n <= Lo + Size
    /\ pc \in {"copy", "print", "answered"} =>
         addr >= Lo /\ addr + n < Lo + Size /\ n < Max /\ i <= n

\* Every byte copied stood at its place in the string at some moment of this
\* call, and the copy is closed with a NUL of the kernel's own.
CopyInv ==
    /\ pc \in {"copy", "print"} =>
         \A k \in 0..(i - 1) : addr + k \in Arena /\ msg[k] \in held[addr + k]
    /\ pc = "print" => i = n /\ msg[n] = Nul

\* held[a] has in it what stands at a now.
HeldInv == \A a \in Arena : mem[a] \in held[a]

\* With no store from elsewhere, what was counted is the string as it stands,
\* and what was copied is the part of it before i.
QuietInv ==
    stores = 0 =>
        /\ pc \in {"scan", "copy", "print"} => \A k \in 0..(n - 1) : mem[addr + k] # Nul
        /\ pc \in {"copy", "print"} =>
             /\ mem[addr + n] = Nul
             /\ \A k \in 0..(i - 1) : msg[k] = mem[addr + k]

IInv ==
    /\ TypeOK /\ LoadsStayInArena
    /\ PlaceInv /\ CopyInv /\ HeldInv /\ QuietInv
    /\ PrintsOnlyTheString /\ UndisturbedExact

-----------------------------------------------------------------------------
(* Lemmas on the operators *)

\* user_range_ok(u, addr, 1) tells whether the pointer is in the arena.
LEMMA OneByteInArena ==
    ASSUME NEW a \in Address
    PROVE  RangeOk(Lo, Size, a, 1) <=> a \in Arena
  BY DEF RangeOk, Plus, Arena

\* A sum that stays below the end of the arena does not wrap.
LEMMA NoWrap ==
    ASSUME NEW a \in Nat, NEW k \in Nat, a + k <= Lo + Size
    PROVE  Plus(a, k) = a + k
  BY DEF Plus

LEMMA ArenaInAddress == Arena \subseteq Address /\ Plus(Lo, Size) = Lo + Size
  BY DEF Arena, Plus

\* A set of numbers that is not empty has a least element.
LEMMA LeastNumber ==
    ASSUME NEW S \in SUBSET Nat, S # {}
    PROVE  \E k \in S : \A j \in S : k <= j
  <1>1. PICK k \in S : \A j \in S : ~(<<j, k>> \in OpToRel(<, Nat))
    BY NatLessThanWellFounded, WFMin
  <1>2. \A j \in S : ~(j < k)
    BY <1>1 DEF OpToRel
  <1>3. QED BY <1>2

\* What is printed of a buffer that has a NUL at position m: the bytes before
\* its first NUL, none of which is one.
LEMMA TextOfString ==
    ASSUME NEW buf, NEW m \in 0..Max, buf[m] = Nul
    PROVE  \E len \in 0..m :
             /\ buf[len] = Nul
             /\ Text(buf) = [k \in 1..len |-> buf[k - 1]]
             /\ \A k \in 0..(len - 1) : buf[k] # Nul
  <1> DEFINE ends == {k \in 0..Max : buf[k] = Nul}
             len  == CHOOSE k \in ends : \A j \in ends : k <= j
  <1>1. m \in ends /\ ends # {} /\ ends \in SUBSET Nat
    OBVIOUS
  <1>2. Text(buf) = [k \in 1..len |-> buf[k - 1]]
    BY <1>1 DEF Text
  <1>3. len \in ends /\ \A j \in ends : len <= j
    <2> HIDE DEF ends
    <2>1. \E k \in ends : \A j \in ends : k <= j
      BY <1>1, LeastNumber
    <2>2. QED BY <2>1, Zenon
  <1>4. len \in 0..m /\ buf[len] = Nul
    <2> HIDE DEF len
    <2>1. QED BY <1>1, <1>3
  <1>5. ASSUME NEW k \in 0..(len - 1)
        PROVE  buf[k] # Nul
    <2> HIDE DEF len
    <2>1. QED BY <1>3, <1>4, <1>5
  <1> HIDE DEF len
  <1>6. QED BY <1>2, <1>4, <1>5

-----------------------------------------------------------------------------
(* One lemma per action *)

LEMMA InitIInv == Init => IInv
  <1> SUFFICES ASSUME Init
               PROVE  IInv
    OBVIOUS
  <1>1. TypeOK
    BY DEF Init, TypeOK, Unwritten, Bytes
  <1>2. PlaceInv /\ CopyInv /\ HeldInv /\ QuietInv /\ LoadsStayInArena
    BY DEF Init, PlaceInv, CopyInv, HeldInv, QuietInv, LoadsStayInArena
  <1>3. PrintsOnlyTheString /\ UndisturbedExact
    BY DEF Init, PrintsOnlyTheString, UndisturbedExact
  <1>4. QED BY <1>1, <1>2, <1>3 DEF IInv

LEMMA CallIInv ==
    ASSUME IInv, NEW a \in Address, Call(a)
    PROVE  IInv'
  <1>1. PICK m \in [Arena -> Bytes] : mem' = m /\ held' = [b \in Arena |-> {m[b]}]
    BY DEF Call
  <1>2. TypeOK'
    BY <1>1 DEF Call, TypeOK, Unwritten
  <1>3. (PlaceInv /\ CopyInv /\ QuietInv /\ LoadsStayInArena)'
    BY DEF Call, PlaceInv, CopyInv, QuietInv, LoadsStayInArena
  <1>4. HeldInv'
    BY <1>1 DEF HeldInv
  <1>5. (PrintsOnlyTheString /\ UndisturbedExact)'
    BY DEF Call, PrintsOnlyTheString, UndisturbedExact
  <1>6. QED BY <1>2, <1>3, <1>4, <1>5 DEF IInv

\* A store only adds to what was held, and nothing is said of the string as it
\* stands once there has been one.
LEMMA StoreIInv ==
    ASSUME IInv, NEW a \in Arena, NEW b \in Bytes, Store(a, b)
    PROVE  IInv'
  <1>1. mem \in [Arena -> Bytes] /\ held \in [Arena -> SUBSET Bytes] /\ stores \in Nat
    BY DEF IInv, TypeOK
  <1>2. \A c \in Arena : held[c] \subseteq held'[c] /\ mem'[c] \in held'[c]
    BY <1>1 DEF Store, IInv, HeldInv
  <1>3. TypeOK'
    BY DEF IInv, TypeOK, Store
  <1>4. (PlaceInv /\ LoadsStayInArena)'
    BY DEF IInv, PlaceInv, LoadsStayInArena, Store
  <1>5. CopyInv'
    BY <1>2 DEF IInv, CopyInv, Store
  <1>6. HeldInv'
    BY <1>2 DEF HeldInv
  <1>7. stores' # 0
    BY <1>1 DEF Store
  <1>8. (QuietInv /\ UndisturbedExact)'
    BY <1>7 DEF QuietInv, UndisturbedExact
  <1>9. PrintsOnlyTheString'
    BY DEF IInv, PlaceInv, PrintsOnlyTheString, Store
  <1>10. QED BY <1>3, <1>4, <1>5, <1>6, <1>8, <1>9 DEF IInv

LEMMA CheckIInv ==
    ASSUME IInv, Check
    PROVE  IInv'
  <1>1. addr \in Address /\ n = 0 /\ i = 0 /\ printed = <<>> /\ Arena \subseteq Address
    BY ArenaInAddress DEF IInv, TypeOK, PlaceInv, Check
  <1>2. pc' = IF addr \in Arena THEN "scan" ELSE "rejected"
    BY <1>1, OneByteInArena DEF Check
  <1>3. TypeOK'
    BY <1>2 DEF IInv, TypeOK, Check
  <1>4. PlaceInv'
    BY <1>1, <1>2 DEF Check, PlaceInv, Arena
  <1>5. (CopyInv /\ HeldInv /\ LoadsStayInArena)'
    BY <1>2 DEF IInv, Check, CopyInv, HeldInv, LoadsStayInArena
  <1>6. QuietInv'
    BY <1>1, <1>2 DEF Check, QuietInv
  <1>7. PrintsOnlyTheString'
    BY <1>1 DEF Check, PrintsOnlyTheString
  <1>8. UndisturbedExact'
    <2>1. pc' = "rejected" => \A len \in 0..(Max - 1) : ~StringAt(mem, addr, len)
      BY <1>1, <1>2 DEF StringAt
    <2>2. pc' # "answered" /\ mem' = mem /\ addr' = addr
      BY <1>2 DEF Check
    <2>3. QED BY <2>1, <2>2 DEF UndisturbedExact
  <1>9. QED BY <1>3, <1>4, <1>5, <1>6, <1>7, <1>8 DEF IInv

LEMMA ScanIInv ==
    ASSUME IInv, Scan
    PROVE  IInv'
  <1>1. /\ pc = "scan" /\ addr \in Address /\ n \in 0..Max /\ i = 0 /\ printed = <<>>
        /\ addr >= Lo /\ addr < Lo + Size /\ addr + n <= Lo + Size
        /\ mem' = mem /\ addr' = addr /\ i' = i /\ printed' = printed /\ held' = held
        /\ stores' = stores /\ msg' = msg
    BY DEF IInv, TypeOK, PlaceInv, Scan
  <1>2. Plus(addr, n) = addr + n /\ Plus(Lo, Size) = Lo + Size
    BY <1>1, NoWrap, ArenaInAddress
  <1>3. stores = 0 => \A k \in 0..(n - 1) : mem[addr + k] # Nul
    BY <1>1 DEF IInv, QuietInv
  <1>4. CASE n >= Max \/ addr + n >= Lo + Size
    <2>1. pc' = "rejected" /\ n' = n /\ loads' = loads
      BY <1>2, <1>4 DEF Scan
    <2>2. (TypeOK /\ LoadsStayInArena /\ HeldInv)'
      BY <1>1, <2>1 DEF IInv, TypeOK, LoadsStayInArena, HeldInv
    <2>3. (PlaceInv /\ CopyInv /\ QuietInv /\ PrintsOnlyTheString)'
      BY <1>1, <2>1 DEF PlaceInv, CopyInv, QuietInv, PrintsOnlyTheString
    <2>4. ASSUME stores = 0, NEW len \in 0..(Max - 1), StringAt(mem, addr, len)
          PROVE  FALSE
      <3>1. CASE len < n
        BY <1>1, <1>3, <2>4, <3>1 DEF StringAt
      <3>2. CASE len >= n
        BY <1>1, <1>4, <2>4, <3>2 DEF StringAt, Arena
      <3>3. QED BY <1>1, <2>4, <3>1, <3>2
    <2>5. UndisturbedExact'
      BY <1>1, <2>1, <2>4 DEF UndisturbedExact
    <2>6. QED BY <2>2, <2>3, <2>5 DEF IInv
  <1>5. CASE n < Max /\ addr + n < Lo + Size
    <2>1. addr + n \in Arena
      BY <1>1, <1>5 DEF Arena
    <2>2. /\ loads' = loads \cup {addr + n}
          /\ \/ mem[addr + n] = Nul /\ pc' = "copy" /\ n' = n
             \/ mem[addr + n] # Nul /\ pc' = "scan" /\ n' = n + 1
      BY <1>1, <1>2, <1>5, <2>1 DEF Scan, Loads
    <2>3. (TypeOK /\ LoadsStayInArena /\ HeldInv)'
      <3>1. loads' \subseteq Arena /\ loads' \subseteq Address
        BY <2>1, <2>2, ArenaInAddress DEF IInv, LoadsStayInArena
      <3>2. n' \in 0..Max /\ pc' \in {"copy", "scan"}
        BY <1>1, <1>5, <2>2
      <3>3. QED
        BY <1>1, <3>1, <3>2 DEF IInv, TypeOK, LoadsStayInArena, HeldInv
    <2>4. PlaceInv'
      BY <1>1, <1>5, <2>2 DEF PlaceInv
    <2>5. CopyInv'
      BY <1>1, <2>2 DEF CopyInv
    <2>6. QuietInv'
      <3>1. pc' = "copy" \/ pc' = "scan"
        BY <2>2
      <3>2. CASE pc' = "copy"
        BY <1>1, <1>3, <2>2, <3>2 DEF QuietInv
      <3>3. CASE pc' = "scan"
        <4>1. mem[addr + n] # Nul /\ n' = n + 1
          BY <2>2, <3>3
        <4>2. ASSUME stores = 0, NEW k \in 0..n
              PROVE  mem[addr + k] # Nul
          <5>1. k = n \/ k \in 0..(n - 1)
            BY <1>1
          <5>2. QED BY <1>3, <4>1, <4>2, <5>1
        <4>3. 0..(n' - 1) = 0..n
          BY <1>1, <4>1
        <4>4. QED
          BY <1>1, <3>3, <4>2, <4>3 DEF QuietInv
      <3>4. QED BY <3>1, <3>2, <3>3
    <2>7. (PrintsOnlyTheString /\ UndisturbedExact)'
      BY <1>1, <2>2 DEF PrintsOnlyTheString, UndisturbedExact
    <2>8. QED BY <2>3, <2>4, <2>5, <2>6, <2>7 DEF IInv
  <1>6. QED BY <1>1, <1>4, <1>5

LEMMA CopyIInv ==
    ASSUME IInv, Copy
    PROVE  IInv'
  <1>1. /\ pc = "copy" /\ addr \in Address /\ n \in 0..Max /\ i \in 0..Max
        /\ addr >= Lo /\ addr + n < Lo + Size /\ n < Max /\ i < n /\ printed = <<>>
        /\ mem' = mem /\ pc' = pc /\ addr' = addr /\ n' = n /\ i' = i + 1
        /\ printed' = printed /\ held' = held /\ stores' = stores
    BY DEF IInv, TypeOK, PlaceInv, Copy
  <1>2. addr + i \in Arena /\ Plus(addr, i) = addr + i
    BY <1>1, NoWrap DEF Arena
  <1>3. loads' = loads \cup {addr + i} /\ msg' = [msg EXCEPT ![i] = mem[addr + i]]
    BY <1>2 DEF Copy, Loads
  <1>4. mem[addr + i] \in Bytes /\ mem[addr + i] \in held[addr + i]
    BY <1>2 DEF IInv, TypeOK, HeldInv
  <1>5. DOMAIN msg' = 0..Max /\ \A k \in 0..Max : msg'[k] = IF k = i THEN mem[addr + i] ELSE msg[k]
    BY <1>3 DEF IInv, TypeOK
  <1>6. (TypeOK /\ LoadsStayInArena /\ HeldInv)'
    <2>1. loads' \subseteq Arena /\ loads' \subseteq Address
      BY <1>2, <1>3, ArenaInAddress DEF IInv, LoadsStayInArena
    <2>2. \A k \in 0..Max : msg'[k] \in Bytes \cup {Junk}
      BY <1>4, <1>5 DEF IInv, TypeOK
    <2>3. i' \in 0..Max
      BY <1>1
    <2>4. QED
      BY <1>1, <1>5, <2>1, <2>2, <2>3 DEF IInv, TypeOK, LoadsStayInArena, HeldInv
  <1>7. PlaceInv'
    BY <1>1 DEF PlaceInv
  <1>8. CopyInv'
    <2> SUFFICES ASSUME NEW k \in 0..i
                 PROVE  addr + k \in Arena /\ msg'[k] \in held[addr + k]
      BY <1>1 DEF CopyInv
    <2>1. CASE k = i
      BY <1>1, <1>2, <1>4, <1>5, <2>1
    <2>2. CASE k # i
      BY <1>1, <1>5, <2>2 DEF IInv, CopyInv
    <2>3. QED BY <2>1, <2>2
  <1>9. QuietInv'
    <2> SUFFICES ASSUME stores = 0
                 PROVE  /\ \A k \in 0..(n - 1) : mem[addr + k] # Nul
                        /\ mem[addr + n] = Nul
                        /\ \A k \in 0..i : msg'[k] = mem[addr + k]
      BY <1>1 DEF QuietInv
    <2>1. /\ \A k \in 0..(n - 1) : mem[addr + k] # Nul
          /\ mem[addr + n] = Nul
          /\ \A k \in 0..(i - 1) : msg[k] = mem[addr + k]
      BY <1>1 DEF IInv, QuietInv
    <2>2. QED BY <1>1, <1>5, <2>1
  <1>10. (PrintsOnlyTheString /\ UndisturbedExact)'
    BY <1>1 DEF PrintsOnlyTheString, UndisturbedExact
  <1>11. QED BY <1>6, <1>7, <1>8, <1>9, <1>10 DEF IInv

LEMMA TerminateIInv ==
    ASSUME IInv, Terminate
    PROVE  IInv'
  <1>1. /\ pc = "copy" /\ pc' = "print" /\ n \in 0..Max /\ n < Max /\ i = n /\ printed = <<>>
        /\ mem' = mem /\ addr' = addr /\ n' = n /\ i' = i /\ loads' = loads
        /\ printed' = printed /\ held' = held /\ stores' = stores
    BY DEF IInv, TypeOK, PlaceInv, Terminate
  <1>2. DOMAIN msg' = 0..Max /\ \A k \in 0..Max : msg'[k] = IF k = n THEN Nul ELSE msg[k]
    BY DEF IInv, TypeOK, Terminate
  <1>3. (TypeOK /\ LoadsStayInArena /\ HeldInv)'
    <2>1. \A k \in 0..Max : msg'[k] \in Bytes \cup {Junk}
      BY <1>2 DEF IInv, TypeOK, Bytes
    <2>2. QED
      BY <1>1, <1>2, <2>1 DEF IInv, TypeOK, LoadsStayInArena, HeldInv
  <1>4. PlaceInv'
    BY <1>1 DEF IInv, PlaceInv
  <1>5. CopyInv'
    BY <1>1, <1>2 DEF IInv, CopyInv
  <1>6. QuietInv'
    BY <1>1, <1>2 DEF IInv, QuietInv
  <1>7. (PrintsOnlyTheString /\ UndisturbedExact)'
    BY <1>1 DEF PrintsOnlyTheString, UndisturbedExact
  <1>8. QED BY <1>3, <1>4, <1>5, <1>6, <1>7 DEF IInv

LEMMA EmitIInv ==
    ASSUME IInv, Emit
    PROVE  IInv'
  <1>1. /\ pc = "print" /\ pc' = "answered" /\ n \in 0..Max /\ addr \in Address
        /\ addr >= Lo /\ addr + n < Lo + Size /\ n < Max /\ i = n
        /\ mem' = mem /\ addr' = addr /\ n' = n /\ i' = i /\ msg' = msg
        /\ held' = held /\ stores' = stores /\ loads' = loads
    BY DEF IInv, TypeOK, PlaceInv, CopyInv, Emit
  <1>2. /\ msg[n] = Nul
        /\ \A k \in 0..(n - 1) : addr + k \in Arena /\ msg[k] \in held[addr + k]
    BY <1>1 DEF IInv, CopyInv
  <1>3. PICK len \in 0..n :
          /\ msg[len] = Nul
          /\ Text(msg) = [k \in 1..len |-> msg[k - 1]]
          /\ \A k \in 0..(len - 1) : msg[k] # Nul
    BY <1>1, <1>2, TextOfString
  <1>4. printed' = [k \in 1..len |-> msg[k - 1]]
    BY <1>3 DEF Emit
  <1>5. (TypeOK /\ LoadsStayInArena /\ HeldInv)'
    <2>1. DOMAIN printed' \subseteq 1..(Max + 1)
      BY <1>1, <1>4
    <2>2. QED
      BY <1>1, <2>1 DEF IInv, TypeOK, LoadsStayInArena, HeldInv
  <1>6. (PlaceInv /\ CopyInv /\ QuietInv)'
    BY <1>1 DEF PlaceInv, CopyInv, QuietInv
  <1>7. PrintsOnlyTheString'
    <2> SUFFICES ASSUME NEW k \in 1..len
                 PROVE  /\ k <= n /\ msg[k - 1] # Nul
                        /\ addr + k - 1 \in Arena /\ msg[k - 1] \in held[addr + k - 1]
      BY <1>1, <1>4 DEF PrintsOnlyTheString
    <2>1. k - 1 \in 0..(len - 1) /\ k - 1 \in 0..(n - 1) /\ addr + k - 1 = addr + (k - 1)
      BY <1>1
    <2>2. k <= n
      BY <1>1
    <2>3. QED BY <1>2, <1>3, <2>1, <2>2
  <1>8. UndisturbedExact'
    <2> SUFFICES ASSUME stores = 0
                 PROVE  /\ n \in 0..(Max - 1) /\ StringAt(mem, addr, n)
                        /\ printed' = [k \in 1..n |-> mem[addr + k - 1]]
      BY <1>1 DEF UndisturbedExact
    <2>1. /\ \A k \in 0..(n - 1) : mem[addr + k] # Nul
          /\ mem[addr + n] = Nul
          /\ \A k \in 0..(n - 1) : msg[k] = mem[addr + k]
      BY <1>1 DEF IInv, QuietInv
    <2>2. StringAt(mem, addr, n)
      BY <1>1, <2>1 DEF StringAt, Arena
    <2>3. len = n
      BY <1>1, <1>3, <2>1
    <2>4. ASSUME NEW k \in 1..n
          PROVE  msg[k - 1] = mem[addr + k - 1]
      <3>1. k - 1 \in 0..(n - 1) /\ addr + k - 1 = addr + (k - 1)
        BY <1>1
      <3>2. QED BY <2>1, <3>1
    <2>5. QED BY <1>1, <1>4, <2>2, <2>3, <2>4
  <1>9. QED BY <1>5, <1>6, <1>7, <1>8 DEF IInv

LEMMA ResumeIInv ==
    ASSUME IInv, Resume
    PROVE  IInv'
  BY DEF IInv, Resume, TypeOK, LoadsStayInArena, PlaceInv, CopyInv, HeldInv, QuietInv,
         PrintsOnlyTheString, UndisturbedExact

-----------------------------------------------------------------------------
\* The inductive invariant of a SYS_PUTS call: where the kernel is in the
\* string, and what the bytes it has counted and copied are.
THEOREM PutsInvariant == Spec => []IInv
<1>1. IInv /\ UNCHANGED vars => IInv'
  BY DEF vars, IInv, TypeOK, LoadsStayInArena, PlaceInv, CopyInv, HeldInv, QuietInv,
         PrintsOnlyTheString, UndisturbedExact
<1>2. IInv /\ Next => IInv'
  BY CallIInv, StoreIInv, CheckIInv, ScanIInv, CopyIInv, TerminateIInv, EmitIInv,
     ResumeIInv DEF Next, Kernel
<1>3. QED BY InitIInv, <1>1, <1>2, PTL DEF Spec

\* Every variable of SYS_PUTS keeps its type: in particular len and the index of
\* the copy never leave msg[SYS_PUTS_MAX].
THEOREM PutsTypesHold == Spec => []TypeOK
  <1>1. IInv => TypeOK
    BY DEF IInv
  <1>2. QED BY <1>1, PutsInvariant, PTL

\* user_strlen() and the copy load from the caller's arena only, wherever the
\* pointer points and whatever other users store meanwhile.
THEOREM LoadsStayHome == Spec => []LoadsStayInArena
  <1>1. IInv => LoadsStayInArena
    BY DEF IInv
  <1>2. QED BY <1>1, PutsInvariant, PTL

\* However the string changes between the two readings, the line printed ends
\* inside the length measured and each of its bytes stood at its place.
THEOREM OnlyTheStringIsPrinted == Spec => []PrintsOnlyTheString
  <1>1. IInv => PrintsOnlyTheString
    BY DEF IInv
  <1>2. QED BY <1>1, PutsInvariant, PTL

\* Undisturbed, SYS_PUTS lets through exactly the strings that end in the arena
\* and are shorter than SYS_PUTS_MAX, and prints them as they are.
THEOREM UndisturbedIsExact == Spec => []UndisturbedExact
  <1>1. IInv => UndisturbedExact
    BY DEF IInv
  <1>2. QED BY <1>1, PutsInvariant, PTL
=============================================================================

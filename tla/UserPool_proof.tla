-------------------------- MODULE UserPool_proof --------------------------
(***************************************************************************)
(* For any number of slots and any sizes the build assertions admit, the   *)
(* users' arenas do not overlap and SYS_WRITE lets through exactly the     *)
(* buffers that lie in the caller's arena.                                 *)
(***************************************************************************)
EXTENDS UserPool, TLAPS

\* The remainders the rounding is made of.
LEMMA Remainder ==
    ASSUME NEW x \in Nat
    PROVE  x % Align \in 0..(Align - 1)
  BY SizeAssumption

\* An arena is a whole number of granules, so rounding leaves its size alone.
LEMMA ArenaIsRound == RoundUp(ArenaSize) = ArenaSize
  BY SizeAssumption DEF RoundUp

\* Multiplication as the allocator's mark uses it.
LEMMA OneMore ==
    ASSUME NEW k \in Nat
    PROVE  (k + 1) * ArenaSize = k * ArenaSize + ArenaSize
  BY SizeAssumption

LEMMA Monotone ==
    ASSUME NEW j \in Nat, NEW k \in Nat, j <= k
    PROVE  j * ArenaSize <= k * ArenaSize
  BY SizeAssumption

\* Words stay words when they are added.
LEMMA PlusIsAWord ==
    ASSUME NEW a \in Address, NEW b \in Address
    PROVE  Plus(a, b) \in Address
  BY WordAssumption DEF Plus, Address

-----------------------------------------------------------------------------
\* user_range_ok() accepts a buffer of at least one byte exactly if every byte
\* of it, with wrapping addresses, is in the arena: for every word width, every
\* arena below the top of the address space and every buffer.
THEOREM RangeOkIsExact ==
    ASSUME NEW lo \in Nat, NEW size \in Nat, lo + size < Word,
           NEW addr \in Address, NEW len \in Address, len > 0
    PROVE  RangeOk(lo, size, addr, len) <=>
             \A k \in 0..(len - 1) : Plus(addr, k) \in lo..(lo + size - 1)
  <1> USE WordAssumption DEF Address
  <1>1. Plus(lo, size) = lo + size
    BY DEF Plus
  <1>2. ASSUME RangeOk(lo, size, addr, len), NEW k \in 0..(len - 1)
        PROVE  Plus(addr, k) \in lo..(lo + size - 1)
    BY <1>1, <1>2 DEF RangeOk, Plus
  <1>3. ASSUME \A k \in 0..(len - 1) : Plus(addr, k) \in lo..(lo + size - 1)
        PROVE  RangeOk(lo, size, addr, len)
    <2>1. addr \in lo..(lo + size - 1)
      <3>1. Plus(addr, 0) = addr
        BY DEF Plus
      <3>2. QED
        BY <1>3, <3>1
    \* No byte of the buffer is the last of the address space, so it does not wrap.
    <2>2. addr + len <= Word - 1
      <3>1. SUFFICES ASSUME addr + len > Word - 1
                     PROVE  FALSE
        OBVIOUS
      <3>2. Word - 1 - addr \in 0..(len - 1)
        BY <3>1
      <3>3. Plus(addr, Word - 1 - addr) = Word - 1
        BY DEF Plus
      <3>4. QED
        BY <1>3, <3>2, <3>3
    <2>3. addr + (len - 1) \in lo..(lo + size - 1)
      <3>1. Plus(addr, len - 1) = addr + (len - 1)
        BY <2>2 DEF Plus
      <3>2. len - 1 \in 0..(len - 1)
        OBVIOUS
      <3>3. QED
        BY <1>3, <3>1, <3>2
    <2>4. Plus(addr, len) = addr + len
      BY <2>2 DEF Plus
    <2>5. QED
      BY <1>1, <2>1, <2>3, <2>4 DEF RangeOk
  <1>4. QED
    BY <1>2, <1>3

-----------------------------------------------------------------------------
LEMMA InitIInv == Init => IInv
  BY SizeAssumption, WordAssumption
     DEF Init, IInv, TypeOK, PoolInv, ContextInv, WriteInv, Address, Slots, NoStack

\* A context exists only once the slot table is finished.
LEMMA ContextOf ==
    ASSUME IInv, NEW u \in Slots, stack[u] # NoStack
    PROVE  /\ made = SlotCount
           /\ stack[u] = [min |-> arena[u] + RodataSize,
                          max |-> RoundDown(Plus(arena[u], ArenaSize))]
  BY Zenon DEF IInv, ContextInv

LEMMA CreateSlotIInv == IInv /\ CreateSlot => IInv'
  <1> SUFFICES ASSUME IInv, CreateSlot
               PROVE  IInv'
    OBVIOUS
  <1> USE SizeAssumption, WordAssumption
  <1>1. /\ made \in Nat /\ made < SlotCount /\ used \in Nat
        /\ used + ArenaSize <= PoolSize
        /\ made' = made + 1 /\ used' = used + ArenaSize
        /\ arena' = [arena EXCEPT ![made + 1] = PoolBase + used]
        /\ UNCHANGED <<stack, write>>
    BY ArenaIsRound DEF IInv, TypeOK, CreateSlot
  <1>2. made + 1 \in Slots /\ PoolBase + used \in Address
    BY <1>1 DEF Slots, Address
  <1>3. TypeOK'
    BY <1>1, <1>2 DEF IInv, TypeOK, Slots
  <1>4. \A u \in 1..made : u \in Slots /\ arena'[u] = arena[u]
    BY <1>1 DEF IInv, TypeOK, Slots
  <1>5. arena'[made + 1] = PoolBase + used
    BY <1>1, <1>2 DEF IInv, TypeOK
  <1>6. \A u \in 1..made' : u \in 1..made \/ u = made + 1
    BY <1>1
  <1>7. PoolInv'
    <2>1. used' = made' * ArenaSize
      BY <1>1, OneMore DEF IInv, PoolInv
    <2>2. ASSUME NEW u \in 1..made'
          PROVE  PoolBase <= arena'[u] /\ arena'[u] + ArenaSize <= PoolBase + used'
      <3>1. CASE u \in 1..made
        <4>1. arena[u] \in Nat
          BY <1>4, <3>1 DEF IInv, TypeOK, Address
        <4>2. QED
          BY <1>1, <1>4, <3>1, <4>1 DEF IInv, PoolInv
      <3>2. CASE u = made + 1
        BY <1>1, <1>5, <3>2
      <3>3. QED
        BY <1>6, <3>1, <3>2
    <2>3. ASSUME NEW u \in 1..made', NEW v \in 1..made', u < v
          PROVE  arena'[u] + ArenaSize <= arena'[v]
      <3>1. u \in 1..made
        BY <1>1, <2>3
      <3>2. CASE v \in 1..made
        BY <1>4, <2>3, <3>1, <3>2 DEF IInv, PoolInv
      <3>3. CASE v = made + 1
        BY <1>4, <1>5, <3>1, <3>3 DEF IInv, PoolInv
      <3>4. QED
        BY <1>6, <3>2, <3>3
    <2>4. QED
      BY <2>1, <2>2, <2>3 DEF PoolInv
  \* No context and no call is there before the table is finished.
  <1>8. ContextInv'
    <2>1. \A u \in Slots : stack[u] = NoStack
      <3>1. made # SlotCount
        BY <1>1
      <3>2. QED
        BY <3>1, ContextOf, Zenon
    <2>2. \A u \in Slots : ~(stack[u] # NoStack)'
      BY <1>1, <2>1
    <2>3. QED
      BY <2>2 DEF ContextInv
  <1>9. WriteInv'
    BY <1>1 DEF IInv, WriteInv
  <1>10. QED
    BY <1>3, <1>7, <1>8, <1>9 DEF IInv

\* Where every arena is once the slots are made.
LEMMA ArenaPlace ==
    ASSUME IInv, NEW u \in 1..made
    PROVE  /\ arena[u] \in Nat
           /\ PoolBase <= arena[u] /\ arena[u] + ArenaSize <= PoolBase + PoolSize
           /\ arena[u] + ArenaSize < Word
  <1> USE SizeAssumption, WordAssumption
  <1>1. /\ made \in 0..SlotCount /\ used \in 0..PoolSize
        /\ arena \in [Slots -> Address]
    BY DEF IInv, TypeOK
  <1>2. u \in Slots /\ arena[u] \in Nat
    BY <1>1 DEF Slots, Address
  <1>3. PoolBase <= arena[u] /\ arena[u] + ArenaSize <= PoolBase + used
    BY DEF IInv, PoolInv
  <1>4. QED
    BY <1>1, <1>2, <1>3

LEMMA InitContextIInv == IInv /\ (\E u \in Slots : InitContext(u)) => IInv'
  <1> SUFFICES ASSUME IInv, NEW u \in Slots, InitContext(u)
               PROVE  IInv'
    OBVIOUS
  <1> USE SizeAssumption, WordAssumption
  <1> DEFINE top == Plus(arena[u], ArenaSize)
             frame == [min |-> arena[u] + RodataSize, max |-> RoundDown(top)]
  <1>1. made = SlotCount /\ stack' = [stack EXCEPT ![u] = frame]
        /\ UNCHANGED <<used, made, arena, write>>
    BY DEF InitContext
  <1>2. top \in Nat /\ top < Word /\ arena[u] + RodataSize \in Address
    <2>1. u \in 1..made
      BY <1>1 DEF Slots
    <2>2. QED
      BY <2>1, ArenaPlace DEF Plus, Address
  <1>3. RoundDown(top) \in Address
    <2> HIDE DEF top
    <2>1. top % Align \in 0..(Align - 1) /\ top % Align <= top
      BY <1>2, Remainder
    <2>2. QED
      BY <1>2, <2>1 DEF RoundDown, Address
  <1>4. frame \in [min : Address, max : Address]
    BY <1>2, <1>3
  <1> HIDE DEF frame
  <1>5. TypeOK'
    BY <1>1, <1>4 DEF IInv, TypeOK
  <1>6. PoolInv' /\ WriteInv'
    BY <1>1 DEF IInv, PoolInv, WriteInv
  <1>7. ContextInv'
    BY <1>1 DEF IInv, TypeOK, ContextInv, frame
  <1>8. QED
    BY <1>5, <1>6, <1>7 DEF IInv

LEMMA SysWriteIInv ==
    IInv /\ (\E u \in Slots, addr, len \in Address : SysWrite(u, addr, len)) => IInv'
  <1> SUFFICES ASSUME IInv, NEW u \in Slots, NEW addr \in Address,
                      NEW len \in Address, SysWrite(u, addr, len)
               PROVE  IInv'
    OBVIOUS
  <1> USE SizeAssumption
  <1>1. /\ stack[u] # NoStack /\ UNCHANGED <<used, made, arena, stack>>
        /\ write' = [slot |-> u, addr |-> addr, len |-> len,
                     ok |-> RangeOk(arena[u], ArenaSize, addr, len)]
    BY DEF SysWrite
  <1>2. RangeOk(arena[u], ArenaSize, addr, len) \in BOOLEAN
    BY DEF RangeOk
  <1>3. TypeOK'
    BY <1>1, <1>2 DEF IInv, TypeOK, Slots
  <1>4. PoolInv' /\ ContextInv'
    BY <1>1 DEF IInv, PoolInv, ContextInv
  <1>5. WriteInv'
    <2>1. made = SlotCount
      BY <1>1, ContextOf
    <2>2. /\ write'.slot = u /\ write'.addr = addr /\ write'.len = len
          /\ write'.ok = RangeOk(arena[u], ArenaSize, addr, len)
      BY <1>1, Zenon
    <2>3. u # 0
      BY DEF Slots
    <2>4. arena' = arena /\ made' = made
      BY <1>1
    <2>5. QED
      BY <1>2, <2>1, <2>2, <2>3, <2>4, Zenon DEF WriteInv
  <1>6. QED
    BY <1>3, <1>4, <1>5 DEF IInv

\* The invariant holds in every reachable state.
THEOREM Invariance == Spec => []IInv
  <1>1. IInv /\ UNCHANGED vars => IInv'
    BY DEF vars, IInv, TypeOK, PoolInv, ContextInv, WriteInv
  <1>2. IInv /\ [Next]_vars => IInv'
    BY <1>1, CreateSlotIInv, InitContextIInv, SysWriteIInv DEF Next
  <1>3. QED
    BY InitIInv, <1>2, PTL DEF Spec

-----------------------------------------------------------------------------
\* Every variable keeps its type.
THEOREM TypeCorrect == Spec => []TypeOK
  <1>1. IInv => TypeOK
    BY DEF IInv
  <1>2. QED
    BY Invariance, <1>1, PTL

\* user_pool_alloc() never fails its assertion, whatever the sizes, as long as
\* the static assertion on the pool holds and an arena is a whole number of
\* granules.
THEOREM AllocationSucceeds == Spec => []AllocatorNeverAsserts
  <1>1. IInv => AllocatorNeverAsserts
    <2> SUFFICES ASSUME IInv, made < SlotCount
                 PROVE  used + ArenaSize <= PoolSize
      BY ArenaIsRound DEF AllocatorNeverAsserts
    <2>1. made \in Nat /\ made + 1 <= SlotCount /\ used = made * ArenaSize
      BY SizeAssumption DEF IInv, TypeOK, PoolInv
    <2>2. used + ArenaSize = (made + 1) * ArenaSize
      BY <2>1, OneMore
    <2>3. (made + 1) * ArenaSize <= SlotCount * ArenaSize
      BY <2>1, Monotone, SizeAssumption
    <2> DEFINE whole == SlotCount * ArenaSize
    <2>4. whole \in Nat /\ whole <= PoolSize
      BY StaticAssert, SizeAssumption
    <2>5. used \in Nat
      BY SizeAssumption DEF IInv, TypeOK
    <2>6. used + ArenaSize <= whole
      BY <2>2, <2>3
    <2> HIDE DEF whole
    <2>7. QED
      BY <2>4, <2>5, <2>6, SizeAssumption
  <1>2. QED
    BY Invariance, <1>1, PTL

\* The arenas lie in the pool and no two of them share a byte.
THEOREM ArenasDoNotOverlap == Spec => []ArenasApart
  <1>1. IInv => ArenasApart
    <2> SUFFICES ASSUME IInv, NEW u \in 1..made
                 PROVE  /\ Arena(u) \subseteq PoolBase..(PoolBase + PoolSize - 1)
                        /\ \A v \in (1..made) \ {u} : Arena(u) \cap Arena(v) = {}
      BY DEF ArenasApart
    <2>1. Arena(u) \subseteq PoolBase..(PoolBase + PoolSize - 1)
      BY ArenaPlace, SizeAssumption DEF Arena
    <2>2. ASSUME NEW v \in (1..made) \ {u}
          PROVE  Arena(u) \cap Arena(v) = {}
      <3>1. arena[u] \in Nat /\ arena[v] \in Nat
        BY ArenaPlace
      <3>2. \/ arena[u] + ArenaSize <= arena[v]
            \/ arena[v] + ArenaSize <= arena[u]
        BY DEF IInv, TypeOK, PoolInv
      <3>3. QED
        BY <3>1, <3>2, SizeAssumption DEF Arena
    <2>3. QED
      BY <2>1, <2>2
  <1>2. QED
    BY Invariance, <1>1, PTL

\* SYS_WRITE lets through exactly the buffers that lie in the caller's arena,
\* and so never a byte of another user's.
THEOREM WritesAreChecked == Spec => []WriteCheckedExactly
  <1>1. IInv => WriteCheckedExactly
    <2> SUFFICES ASSUME IInv, write.len > 0
                 PROVE  /\ write.ok <=> \A k \in 0..(write.len - 1) :
                                Plus(write.addr, k) \in Arena(write.slot)
                        /\ write.ok => \A v \in Slots \ {write.slot},
                                           k \in 0..(write.len - 1) :
                                         Plus(write.addr, k) \notin Arena(v)
      BY DEF WriteCheckedExactly
    <2> DEFINE u == write.slot
    <2>1. /\ u \in 0..SlotCount /\ write.addr \in Address /\ write.len \in Address
          /\ u # 0 /\ made = SlotCount
          /\ write.ok <=> RangeOk(arena[u], ArenaSize, write.addr, write.len)
      BY WordAssumption DEF IInv, TypeOK, WriteInv, Address
    <2>2. u \in 1..made /\ Slots = 1..made
      BY <2>1, SizeAssumption DEF Slots
    <2>3. arena[u] \in Nat /\ arena[u] + ArenaSize < Word
      BY <2>2, ArenaPlace
    <2>4. write.ok <=> \A k \in 0..(write.len - 1) : Plus(write.addr, k) \in Arena(u)
      BY <2>1, <2>3, RangeOkIsExact, SizeAssumption DEF Arena
    <2>5. \A v \in Slots \ {u} : Arena(u) \cap Arena(v) = {}
      <3>1. ASSUME NEW v \in Slots \ {u}
            PROVE  Arena(u) \cap Arena(v) = {}
        <4>1. v \in 1..made /\ arena[v] \in Nat
          BY <2>2, ArenaPlace
        <4>2. \/ arena[u] + ArenaSize <= arena[v]
              \/ arena[v] + ArenaSize <= arena[u]
          BY <2>2, <4>1 DEF IInv, PoolInv
        <4>3. QED
          BY <2>3, <4>1, <4>2, SizeAssumption DEF Arena
      <3>2. QED
        BY <3>1
    <2>6. QED
      BY <2>4, <2>5
  <1>2. QED
    BY Invariance, <1>1, PTL

\* The stack a window is watched on is in its own arena.
THEOREM StacksStayHome == Spec => []StackInOwnArena
  <1>1. IInv => StackInOwnArena
    <2> SUFFICES ASSUME IInv, NEW u \in Slots, stack[u] # NoStack
                 PROVE  Stack(u) \subseteq
                          (arena[u] + RodataSize)..(arena[u] + ArenaSize - 1)
      BY DEF StackInOwnArena
    <2> DEFINE top == Plus(arena[u], ArenaSize)
    <2>1. /\ made = SlotCount
          /\ stack[u].min = arena[u] + RodataSize /\ stack[u].max = RoundDown(top)
      <3> DEFINE low == arena[u] + RodataSize
                 high == RoundDown(top)
      <3>1. made = SlotCount /\ stack[u] = [min |-> low, max |-> high]
        BY ContextOf, Zenon
      <3> HIDE DEF low, high
      <3>2. stack[u].min = low /\ stack[u].max = high
        BY <3>1
      <3>3. QED
        BY <3>1, <3>2 DEF low, high
    <2>2. arena[u] \in Nat /\ top = arena[u] + ArenaSize /\ top \in Nat
      <3>1. u \in 1..made
        BY <2>1 DEF Slots
      <3>2. QED
        BY <3>1, ArenaPlace, SizeAssumption DEF Plus
    <2>3. RoundDown(top) \in Int /\ RoundDown(top) <= top
      <3> HIDE DEF top
      <3>1. top % Align \in 0..(Align - 1)
        BY <2>2, Remainder, SizeAssumption
      <3>2. top % Align \in Nat /\ top \in Nat
        BY <2>2, <3>1, SizeAssumption
      <3> DEFINE r == top % Align
      <3> HIDE DEF r
      <3>3. QED BY <3>2 DEF RoundDown, r
    <2> HIDE DEF top
    <2>4. QED
      BY <2>1, <2>2, <2>3, SizeAssumption DEF Stack
  <1>2. QED
    BY Invariance, <1>1, PTL
=============================================================================

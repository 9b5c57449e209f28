------------------------------ MODULE UserPool ------------------------------
(***************************************************************************)
(* The users' memory: user_pool_alloc() hands the arenas out of one pool   *)
(* while kernel_main() builds the slot table, user_ctx_init() lays out the *)
(* stack and the range the hardware guard watches, and SYS_WRITE passes a  *)
(* buffer on to the console if user_range_ok() accepts it.                 *)
(*                                                                         *)
(* Keeping the users apart is the job of these sums alone: the PMP grants  *)
(* every user the whole pool.                                              *)
(***************************************************************************)
EXTENDS UserPointer

CONSTANTS
    SlotCount,  \* USER_SLOTS
    ArenaSize,  \* USER_ARENA_SIZE
    PoolBase,   \* the address of g_user_pool
    PoolSize,   \* USER_POOL_SIZE
    Align,      \* 16: the allocator's granule and the stack's alignment
    RodataSize  \* sizeof(user_rodata_t)

Slots == 1..SlotCount

\* What the build gives: arenas are whole granules, and the pool, aligned, ends
\* before the address space does.
ASSUME SizeAssumption ==
    /\ SlotCount \in Nat /\ ArenaSize \in Nat \ {0} /\ PoolSize \in Nat
    /\ Align \in Nat \ {0} /\ RodataSize \in 1..ArenaSize
    /\ PoolBase \in Nat /\ PoolBase + PoolSize < Word
    /\ PoolBase % Align = 0 /\ ArenaSize % Align = 0

\* The static assertion on USER_POOL_SIZE.
ASSUME StaticAssert == PoolSize >= SlotCount * ArenaSize

VARIABLES
    used,       \* g_user_pool_used
    made,       \* slots kernel_main() has set up
    arena,      \* the address of each slot's arena
    stack,      \* [Slots -> the u_sp_min and u_sp_max of its context]
    write       \* the last SYS_WRITE: its slot and buffer, and the verdict

vars == <<used, made, arena, stack, write>>

NoStack == [min |-> 0, max |-> 0]

Init ==
    /\ used = 0
    /\ made = 0
    /\ arena = [u \in Slots |-> 0]
    /\ stack = [u \in Slots |-> NoStack]
    /\ write = [slot |-> 0, addr |-> 0, len |-> 0, ok |-> FALSE]

-----------------------------------------------------------------------------
\* (len + 15u) & ~15u, and x & ~15
RoundUp(len) == IF len % Align = 0 THEN len ELSE len + Align - (len % Align)
RoundDown(x) == x - (x % Align)

\* Mutant: the length is rounded up past the granule it already ends on.
CreateSlot_RoundsPast ==
    LET len == ArenaSize + Align - (ArenaSize % Align)
    IN  /\ made < SlotCount /\ used + len <= PoolSize
        /\ arena' = [arena EXCEPT ![made + 1] = PoolBase + used]
        /\ used' = used + len
        /\ made' = made + 1
        /\ UNCHANGED <<stack, write>>

\* Mutant: the mark moves past the stack only.
CreateSlot_Overlaps ==
    /\ made < SlotCount /\ used + RoundUp(ArenaSize) <= PoolSize
    /\ arena' = [arena EXCEPT ![made + 1] = PoolBase + used]
    /\ used' = used + RoundUp(ArenaSize - RodataSize)
    /\ made' = made + 1
    /\ UNCHANGED <<stack, write>>

\* Mutant: one pass too many, in a build without assertions.
CreateSlot_OneTooMany ==
    /\ made <= SlotCount
    /\ arena' = [arena EXCEPT ![made + 1] = PoolBase + used]
    /\ used' = used + RoundUp(ArenaSize)
    /\ made' = made + 1
    /\ UNCHANGED <<stack, write>>

\* One pass of kernel_main()'s loop over the slots.  The guard on used is
\* user_pool_alloc()'s configASSERT: the system stops where it is false.
CreateSlot ==
    /\ made < SlotCount /\ used + RoundUp(ArenaSize) <= PoolSize
    /\ arena' = [arena EXCEPT ![made + 1] = PoolBase + used]
    /\ used' = used + RoundUp(ArenaSize)
    /\ made' = made + 1
    /\ UNCHANGED <<stack, write>>

\* Mutant: the stack starts at the top of the pool.
InitContext_PoolTop(u) ==
    /\ made = SlotCount /\ stack[u] = NoStack
    /\ stack' = [stack EXCEPT ![u] =
                   [min |-> arena[u] + RodataSize,
                    max |-> RoundDown(PoolBase + PoolSize)]]
    /\ UNCHANGED <<used, made, arena, write>>

\* user_ctx_init(), in a host task kernel_main() creates after all the slots.
InitContext(u) ==
    /\ made = SlotCount /\ stack[u] = NoStack
    /\ stack' = [stack EXCEPT ![u] =
                   [min |-> arena[u] + RodataSize,
                    max |-> RoundDown(Plus(arena[u], ArenaSize))]]
    /\ UNCHANGED <<used, made, arena, write>>

\* SYS_WRITE with any buffer at all, once the context exists.
SysWrite(u, addr, len) ==
    /\ stack[u] # NoStack
    /\ write' = [slot |-> u, addr |-> addr, len |-> len,
                 ok |-> RangeOk(arena[u], ArenaSize, addr, len)]
    /\ UNCHANGED <<used, made, arena, stack>>

Next ==
    \/ CreateSlot
    \/ \E u \in Slots : InitContext(u)
    \/ \E u \in Slots, addr, len \in Address : SysWrite(u, addr, len)

Spec == Init /\ [][Next]_vars

-----------------------------------------------------------------------------
Arena(u) == arena[u]..(arena[u] + ArenaSize - 1)
Stack(u) == stack[u].min..(stack[u].max - 1)

\* Every variable keeps its type.
TypeOK ==
    /\ used \in 0..PoolSize
    /\ made \in 0..SlotCount
    /\ arena \in [Slots -> Address]
    /\ stack \in [Slots -> [min : Address, max : Address]]
    /\ write \in [slot : 0..SlotCount, addr : Address, len : Address, ok : BOOLEAN]

\* The assertion in user_pool_alloc() holds for every slot: the static
\* assertion, which knows nothing of rounding, is enough.
AllocatorNeverAsserts ==
    made < SlotCount => used + RoundUp(ArenaSize) <= PoolSize

\* No byte of the pool belongs to two users, and no arena leaves the pool.
ArenasApart ==
    \A u \in 1..made :
        /\ Arena(u) \subseteq PoolBase..(PoolBase + PoolSize - 1)
        /\ \A v \in (1..made) \ {u} : Arena(u) \cap Arena(v) = {}

\* A buffer of at least one byte is let through exactly if each of its bytes,
\* counted as the processor counts addresses, is in the caller's arena; and
\* then none is in another user's.
WriteCheckedExactly ==
    write.len > 0 =>
        /\ write.ok <=> \A k \in 0..(write.len - 1) :
                            Plus(write.addr, k) \in Arena(write.slot)
        /\ write.ok => \A v \in Slots \ {write.slot}, k \in 0..(write.len - 1) :
                            Plus(write.addr, k) \notin Arena(v)

\* The range a window's stack guard allows lies in the user's own arena, clear
\* of the strings at its bottom, so no other user's data can be used as a stack
\* unnoticed.
StackInOwnArena ==
    \A u \in Slots :
        stack[u] # NoStack =>
            Stack(u) \subseteq (arena[u] + RodataSize)..(arena[u] + ArenaSize - 1)

-----------------------------------------------------------------------------
(* The invariant the proofs carry: where the allocator has put things, and     *)
(* that the contexts and the last verdict come from the finished slot table.   *)

PoolInv ==
    /\ used = made * ArenaSize
    /\ \A u \in 1..made : /\ PoolBase <= arena[u]
                          /\ arena[u] + ArenaSize <= PoolBase + used
    /\ \A u, v \in 1..made : u < v => arena[u] + ArenaSize <= arena[v]

ContextInv ==
    \A u \in Slots :
        stack[u] # NoStack =>
            /\ made = SlotCount
            /\ stack[u] = [min |-> arena[u] + RodataSize,
                           max |-> RoundDown(Plus(arena[u], ArenaSize))]

WriteInv ==
    /\ write.slot = 0 => write.len = 0
    /\ write.slot # 0 =>
         /\ made = SlotCount
         /\ write.ok <=> RangeOk(arena[write.slot], ArenaSize, write.addr, write.len)

IInv == TypeOK /\ PoolInv /\ ContextInv /\ WriteInv
=============================================================================

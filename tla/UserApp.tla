------------------------------ MODULE UserApp ------------------------------
(***************************************************************************)
(* user_main(): one instance of the user application.  It sleeps, counts   *)
(* its ticks, and on two cadences composes a message in a buffer on its    *)
(* stack, digit by digit, and passes it to the kernel.                     *)
(*                                                                         *)
(* Its counters are unsigned and never stop, so every one of them wraps.   *)
(***************************************************************************)
EXTENDS Integers, Sequences

CONSTANTS
    Word,           \* uint32_t counts modulo Word
    TmpSize,        \* the digits buffer of u_append_u32()
    Power,          \* [i -> 10^i], up to TmpSize
    MsgMax,         \* USER_MSG_MAX
    TextLen,        \* characters in each string of user_rodata_t
    MsgPeriod, SyscallPeriod,   \* USER_MSG_PERIOD, SYSCALL_PERIOD
    Burst,          \* USER_BURST
    TickMs,         \* USER_TICK_MS
    Rate, Second,   \* configTICK_RATE_HZ, and milliseconds to a second
    Ids, Cores      \* the slots, and the answers of SYS_GETCORE

Numbers == 0 .. Word - 1
Texts   == {"user_prefix", "core_infix", "syscall_prefix"}

ASSUME WordAssumption == Word \in Nat /\ Word > 1 /\ Ids \subseteq Numbers /\ Cores \subseteq Numbers
ASSUME TextAssumption == TextLen \in [Texts -> Nat]
ASSUME LoopAssumption ==
    {MsgPeriod, SyscallPeriod, Burst, TickMs, Rate, Second} \subseteq Nat \ {0}

\* char tmp[10] holds every uint32_t.
ASSUME PowerAssumption ==
    /\ TmpSize \in Nat /\ Power \in [0 .. TmpSize -> Nat]
    /\ Power[0] = 1 /\ Word <= Power[TmpSize]
    /\ \A i \in 0 .. TmpSize - 1 : Power[i + 1] = 10 * Power[i]

\* In the build 5 + 10 + 1 + 10 + 9 + 10 + 1 = 46 of 48 bytes, and 8 + 22.
ASSUME BufferAssumption ==
    /\ MsgMax \in Nat
    /\ TextLen["user_prefix"] + TextLen["core_infix"] + 3 * TmpSize + 2 <= MsgMax
    /\ TextLen["syscall_prefix"] + 2 * TmpSize + 2 <= MsgMax

VARIABLES
    id,         \* its argument
    pc,         \* where it is
    i,          \* yields of this burst
    tick, user_n, syscall_n,
    kind,       \* the message it composes, or "none"
    part,       \* how many parts of the message are done
    msg,        \* the buffer, up to pos
    val, tmp,   \* u_append_u32()'s value and the digits it has taken off
    core,       \* what SYS_GETCORE last answered
    slept       \* the ticks of the last SYS_DELAY_MS

vars == <<id, pc, i, tick, user_n, syscall_n, kind, part, msg, val, tmp, core, slept>>

Init ==
    /\ id \in Ids
    /\ pc = "start" /\ i = 0
    /\ tick = 0 /\ user_n = 1 /\ syscall_n = 1
    /\ kind = "none" /\ part = 0
    /\ msg = <<>> /\ val = 0 /\ tmp = <<>>
    /\ core \in Cores /\ slept = 0

-----------------------------------------------------------------------------
\* vTaskDelay(pdMS_TO_TICKS(ms)): the product is taken in 32 bits.
DelayTicks(ms) == ((ms * Rate) % Word) \div Second

Stagger ==
    /\ pc = "start"
    /\ slept' = DelayTicks((id * (TickMs \div 3)) % Word)
    /\ pc' = "burst"
    /\ UNCHANGED <<id, i, tick, user_n, syscall_n, kind, part, msg, val, tmp, core>>

Yield ==
    /\ pc = "burst" /\ i < Burst
    /\ i' = i + 1
    /\ UNCHANGED <<id, pc, tick, user_n, syscall_n, kind, part, msg, val, tmp, core, slept>>

\* Mutant: the delay is passed in microseconds.
Sleep_InMicroseconds ==
    /\ pc = "burst" /\ i = Burst
    /\ slept' = DelayTicks((TickMs * Second) % Word)
    /\ i' = 0
    /\ tick' = (tick + 1) % Word
    /\ pc' = "write?"
    /\ UNCHANGED <<id, user_n, syscall_n, kind, part, msg, val, tmp, core>>

\* The end of the burst, SYS_DELAY_MS, and tick++.
Sleep ==
    /\ pc = "burst" /\ i = Burst
    /\ slept' = DelayTicks(TickMs)
    /\ i' = 0
    /\ tick' = (tick + 1) % Word
    /\ pc' = "write?"
    /\ UNCHANGED <<id, user_n, syscall_n, kind, part, msg, val, tmp, core>>

\* Mutant: pos goes on from the message before.
Begin_KeepsPos(k) ==
    /\ kind' = k /\ part' = 0
    /\ pc' = "compose"
    /\ UNCHANGED <<id, i, tick, user_n, syscall_n, msg, val, tmp, core, slept>>

\* The first u_append() starts at position 0.
Begin(k) ==
    /\ kind' = k /\ part' = 0 /\ msg' = <<>>
    /\ pc' = "compose"
    /\ UNCHANGED <<id, i, tick, user_n, syscall_n, val, tmp, core, slept>>

Skip(from, to) ==
    /\ pc = from /\ pc' = to
    /\ UNCHANGED <<id, i, tick, user_n, syscall_n, kind, part, msg, val, tmp, core, slept>>

MaybeWrite == IF tick % MsgPeriod = 0 THEN pc = "write?" /\ Begin("write")
                                      ELSE Skip("write?", "puts?")
MaybePuts  == IF tick % SyscallPeriod = 0 THEN pc = "puts?" /\ Begin("puts")
                                          ELSE Skip("puts?", "burst")

\* The parts of each message, in order.
Parts == [write |-> <<"user_prefix", "id", ".", "user_n", "core_infix", "core", "newline">>,
          puts  |-> <<"syscall_prefix", "id", ".", "syscall_n", "nul">>]

Todo == Parts[kind][part + 1]
More == pc = "compose" /\ part < Len(Parts[kind])

\* u_append(), or one character stored at pos.
AppendText ==
    /\ More /\ Todo \notin {"id", "user_n", "syscall_n", "core"}
    /\ msg' = msg \o (IF Todo \in Texts THEN [j \in 1 .. TextLen[Todo] |-> Todo]
                                        ELSE <<Todo>>)
    /\ part' = part + 1
    /\ UNCHANGED <<id, pc, i, tick, user_n, syscall_n, kind, val, tmp, core, slept>>

\* The call of u_append_u32(): the counters move on as they are passed, and
\* SYS_GETCORE is made for its argument.
CallNumber ==
    /\ More /\ Todo \in {"id", "user_n", "syscall_n", "core"}
    /\ core' \in (IF Todo = "core" THEN Cores ELSE {core})
    /\ val' = CASE Todo = "id" -> id [] Todo = "user_n" -> user_n
                [] Todo = "syscall_n" -> syscall_n [] OTHER -> core'
    /\ user_n' = IF Todo = "user_n" THEN (user_n + 1) % Word ELSE user_n
    /\ syscall_n' = IF Todo = "syscall_n" THEN (syscall_n + 1) % Word ELSE syscall_n
    /\ pc' = "number"
    /\ UNCHANGED <<id, i, tick, kind, part, msg, tmp, slept>>

\* Mutant: 0 is not special, and leaves no digit.
Zero_NoDigit ==
    /\ pc = "number" /\ val = 0
    /\ part' = part + 1 /\ pc' = "compose"
    /\ UNCHANGED <<id, i, tick, user_n, syscall_n, kind, msg, val, tmp, core, slept>>

Zero ==
    /\ pc = "number" /\ val = 0
    /\ msg' = Append(msg, 0)
    /\ part' = part + 1 /\ pc' = "compose"
    /\ UNCHANGED <<id, i, tick, user_n, syscall_n, kind, val, tmp, core, slept>>

\* while (val != 0), least significant digit first
TakeDigit ==
    /\ pc \in {"number", "take"} /\ val # 0
    /\ tmp' = Append(tmp, val % 10) /\ val' = val \div 10
    /\ pc' = "take"
    /\ UNCHANGED <<id, i, tick, user_n, syscall_n, kind, part, msg, core, slept>>

\* while (n != 0), back from the end of tmp
PutDigit ==
    /\ pc = "take" /\ val = 0 /\ tmp # <<>>
    /\ msg' = Append(msg, tmp[Len(tmp)])
    /\ tmp' = SubSeq(tmp, 1, Len(tmp) - 1)
    /\ UNCHANGED <<id, pc, i, tick, user_n, syscall_n, kind, part, val, core, slept>>

NumberDone ==
    /\ pc = "take" /\ val = 0 /\ tmp = <<>>
    /\ part' = part + 1 /\ pc' = "compose"
    /\ UNCHANGED <<id, i, tick, user_n, syscall_n, kind, msg, val, tmp, core, slept>>

\* SYS_WRITE or SYS_PUTS with the message
Send ==
    /\ pc = "compose" /\ part = Len(Parts[kind])
    /\ pc' = IF kind = "write" THEN "puts?" ELSE "burst"
    /\ kind' = "none" /\ part' = 0
    /\ UNCHANGED <<id, i, tick, user_n, syscall_n, msg, val, tmp, core, slept>>

Next ==
    \/ Stagger \/ Yield \/ Sleep \/ MaybeWrite \/ MaybePuts
    \/ AppendText \/ CallNumber \/ Zero \/ TakeDigit \/ PutDigit \/ NumberDone
    \/ Send

Spec == Init /\ [][Next]_vars

\* The host task opens a window again after every call, and the user computes
\* in it: UmodeWindow and HostLoop show as much.
FairSpec == Spec /\ WF_vars(Next)

-----------------------------------------------------------------------------
\* Nothing is stored past the end of the message buffer, or of the ten digits
\* u_append_u32() collects, whatever the counters have come to.
BuffersHold == Len(msg) <= MsgMax /\ Len(tmp) <= TmpSize

\* A number in decimal, without leading zeros, most significant digit first.
Digits(x) == CHOOSE d \in 1 .. TmpSize : x < Power[d] /\ (d > 1 => Power[d - 1] <= x)
Decimal(x) == [j \in 1 .. Digits(x) |-> (x \div Power[Digits(x) - j]) % 10]

Previous(x) == (x + Word - 1) % Word

\* What user_main() hands to the kernel is what the source spells out, each
\* message under the number after the one before it, also when the counter
\* has wrapped to 0.
MessagesExact ==
    pc = "compose" /\ kind # "none" /\ part = Len(Parts[kind]) =>
      msg = IF kind = "write"
            THEN [j \in 1 .. TextLen["user_prefix"] |-> "user_prefix"]
                   \o Decimal(id) \o <<".">> \o Decimal(Previous(user_n))
                   \o [j \in 1 .. TextLen["core_infix"] |-> "core_infix"]
                   \o Decimal(core) \o <<"newline">>
            ELSE [j \in 1 .. TextLen["syscall_prefix"] |-> "syscall_prefix"]
                   \o Decimal(id) \o <<".">> \o Decimal(Previous(syscall_n))
                   \o <<"nul">>

\* "The user application is not a spin loop stealing a core": every burst of
\* yields, and every message, is followed by another sleep, and the kernel
\* makes it last as long as it was asked to.
SleepsAgain ==
    []<>(pc = "write?" /\ slept = (TickMs * Rate) \div Second /\ slept > 0)
=============================================================================

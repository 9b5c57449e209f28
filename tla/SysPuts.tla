------------------------------ MODULE SysPuts ------------------------------
(***************************************************************************)
(* SYS_PUTS: user_strlen() measures the caller's string in its arena, byte *)
(* by byte, the dispatcher reads it a second time to copy it into a buffer *)
(* on its own stack, and prints the copy.  The caller is parked meanwhile, *)
(* but every user is granted the whole pool, so a user on another core may *)
(* store into the string between any two of these loads.                   *)
(***************************************************************************)
EXTENDS UserPointer, FiniteSets

CONSTANTS
    Lo, Size,   \* the caller's arena
    Max,        \* SYS_PUTS_MAX
    Chars,      \* the bytes a string can hold
    Nul,        \* the byte that ends one
    Junk,       \* what an unwritten byte of the kernel's buffer holds
    MaxStores   \* bound: stores by other users during one call

ASSUME ArenaAssumption == Lo \in Nat /\ Size \in Nat \ {0} /\ Lo + Size < Word
ASSUME BufferAssumption == Max \in Nat \ {0} /\ MaxStores \in Nat
ASSUME BytesAssumption == Nul \notin Chars /\ Junk \notin Chars \cup {Nul}

Arena == Lo..(Lo + Size - 1)
Bytes == Chars \cup {Nul}

VARIABLES
    mem,        \* [Arena -> Bytes]
    pc,         \* where the call is; "user" between calls
    addr,       \* arg0
    n,          \* the length counted so far, then len
    i,          \* the bytes copied so far
    msg,        \* [0..Max -> byte] the kernel's buffer
    printed,    \* the bytes printed
    loads,      \* the addresses the kernel has loaded from in this call
    held,       \* [Arena -> every byte held at this address in this call]
    stores      \* stores by other users in this call

vars == <<mem, pc, addr, n, i, msg, printed, loads, held, stores>>

Unwritten == [k \in 0..Max |-> Junk]

Init ==
    /\ mem = [a \in Arena |-> Nul]
    /\ held = [a \in Arena |-> {Nul}]
    /\ pc = "user" /\ addr = 0 /\ n = 0 /\ i = 0 /\ stores = 0
    /\ msg = Unwritten /\ printed = <<>> /\ loads = {}

-----------------------------------------------------------------------------
\* The user has left what it likes in its arena and makes the call.
Call(a) ==
    /\ pc = "user"
    /\ \E m \in [Arena -> Bytes] :
         /\ mem' = m
         /\ held' = [b \in Arena |-> {m[b]}]
    /\ pc' = "check" /\ addr' = a
    /\ n' = 0 /\ i' = 0 /\ stores' = 0
    /\ msg' = Unwritten /\ printed' = <<>> /\ loads' = {}

\* Another user stores into the arena while the call is served.
Store(a, b) ==
    /\ pc \in {"check", "scan", "copy", "print"} /\ stores < MaxStores
    /\ mem' = [mem EXCEPT ![a] = b]
    /\ held' = [held EXCEPT ![a] = @ \cup {b}]
    /\ stores' = stores + 1
    /\ UNCHANGED <<pc, addr, n, i, msg, printed, loads>>

\* user_range_ok(u, addr, 1)
Check ==
    /\ pc = "check"
    /\ pc' = IF RangeOk(Lo, Size, addr, 1) THEN "scan" ELSE "rejected"
    /\ UNCHANGED <<mem, addr, n, i, msg, printed, loads, held, stores>>

\* The byte at &p[n]; an address outside the arena holds anything.
Loads(a, b) ==
    /\ IF a \in Arena THEN b = mem[a] ELSE b \in Bytes
    /\ loads' = loads \cup {a}

\* Mutant: the loop looks at one byte more.
Scan_OneMore ==
    /\ pc = "scan"
    /\ LET p == Plus(addr, n)
       IN  IF n > Max \/ p >= Plus(Lo, Size)
           THEN pc' = "rejected" /\ UNCHANGED <<n, loads>>
           ELSE \E b \in Bytes :
                  /\ Loads(p, b)
                  /\ IF b = Nul THEN pc' = "copy" /\ n' = n ELSE pc' = pc /\ n' = n + 1
    /\ UNCHANGED <<mem, addr, i, msg, printed, held, stores>>

\* Mutant: the loop does not look where the arena ends.
Scan_NoArenaEnd ==
    /\ pc = "scan"
    /\ LET p == Plus(addr, n)
       IN  IF n >= Max
           THEN pc' = "rejected" /\ UNCHANGED <<n, loads>>
           ELSE \E b \in Bytes :
                  /\ Loads(p, b)
                  /\ IF b = Nul THEN pc' = "copy" /\ n' = n ELSE pc' = pc /\ n' = n + 1
    /\ UNCHANGED <<mem, addr, i, msg, printed, held, stores>>

\* Mutant: a string may not end on the arena's last byte.
Scan_OneLess ==
    /\ pc = "scan"
    /\ LET p == Plus(addr, n)
       IN  IF n >= Max \/ p >= Plus(Lo, Size) - 1
           THEN pc' = "rejected" /\ UNCHANGED <<n, loads>>
           ELSE \E b \in Bytes :
                  /\ Loads(p, b)
                  /\ IF b = Nul THEN pc' = "copy" /\ n' = n ELSE pc' = pc /\ n' = n + 1
    /\ UNCHANGED <<mem, addr, i, msg, printed, held, stores>>

\* One pass of user_strlen()'s loop.
Scan ==
    /\ pc = "scan"
    /\ LET p == Plus(addr, n)
       IN  IF n >= Max \/ p >= Plus(Lo, Size)
           THEN pc' = "rejected" /\ UNCHANGED <<n, loads>>
           ELSE \E b \in Bytes :
                  /\ Loads(p, b)
                  /\ IF b = Nul THEN pc' = "copy" /\ n' = n ELSE pc' = pc /\ n' = n + 1
    /\ UNCHANGED <<mem, addr, i, msg, printed, held, stores>>

\* msg[i] = src[i]
Copy ==
    /\ pc = "copy" /\ i < n
    /\ \E b \in Bytes :
         /\ Loads(Plus(addr, i), b)
         /\ msg' = [msg EXCEPT ![i] = b]
    /\ i' = i + 1
    /\ UNCHANGED <<mem, pc, addr, n, printed, held, stores>>

\* msg[len] = '\0'
Terminate ==
    /\ pc = "copy" /\ i = n
    /\ msg' = [msg EXCEPT ![n] = Nul]
    /\ pc' = "print"
    /\ UNCHANGED <<mem, addr, n, i, printed, loads, held, stores>>

\* The string in the kernel's buffer, as "%s" prints it: up to the first NUL,
\* or the whole buffer and on if there is none.
Text(buf) ==
    LET ends == {k \in 0..Max : buf[k] = Nul}
        len  == IF ends = {} THEN Max + 1 ELSE CHOOSE k \in ends : \A j \in ends : k <= j
    IN  [k \in 1..len |-> buf[k - 1]]

\* Mutant: the string is printed out of the arena, not out of the copy.
Emit_FromArena ==
    /\ pc = "print"
    /\ printed' = [k \in 1..n |-> mem[addr + k - 1]]
    /\ pc' = "answered"
    /\ UNCHANGED <<mem, addr, n, i, msg, loads, held, stores>>

\* kprintf("%s\n", msg)
Emit ==
    /\ pc = "print"
    /\ printed' = Text(msg)
    /\ pc' = "answered"
    /\ UNCHANGED <<mem, addr, n, i, msg, loads, held, stores>>

\* The user is resumed with 0 or SYS_ERR_FAULT.
Resume ==
    /\ pc \in {"answered", "rejected"}
    /\ pc' = "user"
    /\ UNCHANGED <<mem, addr, n, i, msg, printed, loads, held, stores>>

Kernel == Check \/ Scan \/ Copy \/ Terminate \/ Emit \/ Resume

Next ==
    \/ Kernel
    \/ \E a \in Address : Call(a)
    \/ \E a \in Arena, b \in Bytes : Store(a, b)

Spec == Init /\ [][Next]_vars

-----------------------------------------------------------------------------
\* Every variable keeps its type.
TypeOK ==
    /\ mem \in [Arena -> Bytes]
    /\ pc \in {"user", "check", "scan", "copy", "print", "answered", "rejected"}
    /\ addr \in Address
    /\ n \in 0..Max /\ i \in 0..Max /\ stores \in 0..MaxStores
    /\ DOMAIN msg = 0..Max /\ \A k \in 0..Max : msg[k] \in Bytes \cup {Junk}
    /\ DOMAIN printed \subseteq 1..(Max + 1)
    /\ loads \subseteq Address
    /\ held \in [Arena -> SUBSET Bytes]

\* Wherever the pointer points and whatever is stored meanwhile, the kernel
\* loads from the caller's arena only.
LoadsStayInArena == loads \subseteq Arena

\* Whatever is stored between the two readings, the line printed ends inside
\* the length that was measured, has no NUL and no byte of the kernel's stack
\* in it, and each of its bytes stood at its place in the string.
PrintsOnlyTheString ==
    \A k \in DOMAIN printed :
        /\ k <= n /\ printed[k] # Nul
        /\ addr + k - 1 \in Arena /\ printed[k] \in held[addr + k - 1]

\* A string of len bytes starts at a and ends in the arena.
StringAt(m, a, len) ==
    /\ a..(a + len) \subseteq Arena
    /\ m[a + len] = Nul /\ \A k \in 0..(len - 1) : m[a + k] # Nul

\* With no store from elsewhere, a call is let through exactly if the string
\* ends in the arena and is shorter than SYS_PUTS_MAX, and then it is printed.
UndisturbedExact ==
    stores = 0 =>
        /\ pc = "rejected" => \A len \in 0..(Max - 1) : ~StringAt(mem, addr, len)
        /\ pc = "answered" =>
             \E len \in 0..(Max - 1) :
               /\ StringAt(mem, addr, len)
               /\ printed = [k \in 1..len |-> mem[addr + k - 1]]

\* SYS_PUTS_MAX is called the "longest SYS_PUTS message the kernel will copy
\* out of the arena", so a message of that length would be copied.
LongestMessageAccepted ==
    (stores = 0 /\ StringAt(mem, addr, Max)) => pc # "rejected"
=============================================================================

# A verification of the ESP32-P4 protected-mode sample

This directory holds TLA+ models of the sample kernel in `src/main`, the TLC
configurations that check them, and proofs that TLAPS checks. The kernel runs
several unprivileged programs on two cores: an ordinary FreeRTOS task opens a
*window* into U-mode with `umode_enter()`, and every trap of the user comes back
as the return of that call.

1. [The system](#the-system)
2. [The modules](#the-modules)
3. [What the runs show](#what-the-runs-show)
4. [What is proved](#what-is-proved)
5. [Disagreements with the comments](#disagreements-with-the-comments)
6. [What is not modelled](#what-is-not-modelled)
7. [Plan](#plan)

## The system

| Component | State | Operations | What makes it correct |
|---|---|---|---|
| U-mode window (`umode.S`, `umode.h`) | per core: `mstatus`, `mcause`, `mtvec`, `mtvt`, `mscratch`, `mintstatus`, CLIC threshold; per task: `umode_ctx_t` and the frame of `umode_enter()` | `umode_enter`, `umode_trap_entry`, `.Lkresume` | every borrowed register comes home on the core it was taken from; the user runs in U-mode with no interrupt able to enter |
| Stack-guard hand-over (`umode.S`) | per core: monitor enable, bounds, sticky latch, interrupt routing | stop, clear, park, install, start and their undoing | no false alarm, no missed one, none charged to the wrong party |
| Host loop (`user_host_task`) | `user_slot_t`: core, migrations, counters, `running` | open a window, account, decide, retire | every window is accounted for once; a stack fault outranks the trap that revealed it |
| Syscall dispatcher (`syscall_dispatch`) | the saved `pc` and `a0`, `umode_confirmed` | seven calls and the default | one answer per ecall, stepped past exactly once, exits excepted |
| Pointer checks (`user_range_ok`, `user_strlen`) | none | range check, bounded length | exactly the caller's own bytes pass, at every boundary |
| User pool and slot table (`user_pool_alloc`, `kernel_main`, `user_ctx_init`) | `g_user_pool_used`, the slots' arenas and stacks | allocate, lay out | arenas and stacks are disjoint |
| Console and `kernel_task` | `g_console_mux` | `kprintf`, `kwrite`, the periodic report | one writer at a time, nobody waits for ever |
| PMP programming and report (`pmp_apply*`, `umode_pmp_program`, `pmp_report`) | sixteen entries per core | program, decode, sort, merge | every core grants exactly the same before a window opens on it |
| Boot (`kernel_main`, `boot_report`) | order of the above | un-route, program, allocate, create tasks | no task uses what is not there yet |
| User application (`user_main.c`, `user_syscall.S`) | its stack | the demo's loop | its messages fit its buffer |
| Hardware probe (`probe/p4_umode_mret.c`) | the two vectors, the interrupt threshold, `g_save`, `g_out` | `p4_mret_probe`, `p4_handler`, `run`, eight tests | the caller gets back the core it lent; OK means that something was measured |
| Scripts (`scripts`, `*.sh`) | files | build, emulate, flash | – |

**How they interact.** `kernel_main()` builds the slots and creates one unpinned
host task each, and `kernel_task`. A host task calls `umode_enter(&u->ctx)`; the
context pointer travels in `a0` on the way down and in `mscratch` while the user
runs. FreeRTOS preempts and migrates host tasks whenever the core takes
interrupts. What the tasks share is the console mutex, each core's registers in
turn, one interrupt source for both stack guards, and the pool, which the PMP
grants to every user as a whole.

**What is hard here.** A task may change cores between any two instructions that
run with interrupts enabled, and `umode_enter()` starts and ends with such
instructions. Sticky latches remember other people's faults. `mcause` and
`mstatus` alias. Users on another core can store into a string while the kernel
reads it. None of this is visible in a unit test on one core.

## The modules

| Module | Models | Checked by |
|---|---|---|
| `UmodeWindow` | `umode.S` and the part of the kernel it meets: scheduler, interrupts, stack guard | `MCUmodeWindow`, `Window*.cfg` |
| `UmodeWindow_proof` | proofs about it | TLAPS |
| `WindowContract` | what `umode.h` promises of a window; `UmodeWindow` implements it | as a property of `WindowLiveness.cfg` |
| `WindowContract_proof` | the proof that it does | TLAPS |
| `HostLoop` | `user_host_task`, `syscall_dispatch`, console, `kernel_task` | `MCHostLoop`, `Host*.cfg` |
| `UserService` | what a user program is promised; `HostLoop` implements it | as a property of `Host.cfg` |
| `HostLoop_proof` | proofs about both | TLAPS |
| `UserPointer` | `user_range_ok` on wrapping words | through the two below |
| `UserPool` | allocator, slot loop, `user_ctx_init`, `SYS_WRITE`'s check | `PoolPointers.cfg` |
| `UserPool_proof` | proofs about both | TLAPS |
| `SysPuts` | `user_strlen` and the copy of `SYS_PUTS`, byte by byte | `MCSysPuts`, `Puts*.cfg` |
| `SysPuts_proof` | proofs about it | TLAPS |
| `Pmp` | a core's PMP entries: matching, locked writes, the table of `pmp_apply`, the decoding and merging of `pmp_report` | through `Boot` |
| `Boot` | `kernel_main` and `boot_report`, against the tasks they create | `MCBoot`, `Boot.cfg` |
| `Boot_proof` | proofs about both | TLAPS |
| `UserApp` | `user_main`, `u_append`, `u_append_u32`, `pdMS_TO_TICKS` | `MCUserApp`, `UserApp.cfg` |
| `UserApp_proof` | proofs about it | TLAPS |
| `Probe` | `probe/p4_umode_mret.c` | `Probe.cfg` |
| `Probe_proof` | proofs about it | TLAPS |

Definitions named `X_Y` after an action `X`, marked *Mutant*, are that action
with a plausible mistake in it; each property is known to fail for one of them.

**`UmodeWindow`.** One action per block of instructions with one effect on the
hart; the labels of `PC` follow the source from top to bottom. Values of
registers are what matters about them: a hart's own name is the value IDF left in
its registers, so "comes home" is `csr[h] = Home(h)`. `prev` is the mret state,
kept once because `mcause[29:28]` and `mstatus.MPP` are one field. `a0` is the
context pointer, and it is data: every access to a context goes through it, so a
wrong pointer would touch a wrong context. A pending interrupt is taken before
the hart's next instruction if the hart is open (`Interrupted`, `Open`), and it
may hand the hart to any task that runs nowhere else; this is preemption and
migration. `KernelOverflow` puts a stale latch into the guard at any time
interrupts are on. The hardware (`Mret`, `Watch`, the CLIC) and FreeRTOS
(`Dispatch`, `Ready`) are external and are modelled as the comments of `umode.S`
and the macros it uses describe them. The scheduler installs any coprocessor
state in `FS` on a switch.

**`WindowContract`.** A window as its caller sees it: open on one core, alone
there, until it closes with a cause and a verdict on the stack pointer. In
`UmodeWindow` a window is open from the mret of the entry to the mret of the
exit (`Within`); the result is what the context holds when it is closed. This is
the joint between the two levels: `HostLoop` takes a window as one step, and the
contract says it may.

**`HostLoop`.** Everything but the window is at the grain at which a task can
lose its core or wait for the console. `x_pc` counts the ecalls a user has been
stepped past. A pointer is "good" or "bad" (`write`, `write_bad`); what good means
is `UserPool`'s subject. `kernel_task` goes through the slots one by one and reads
`core` and `migrations` without a lock, in two steps, between any two steps of
the host task that writes them; `table` is what its line shows. The two may belong
to different moments, so nothing is claimed of the line's core, only of the slot's. `app_main`'s main
task is pinned to core 0 by ESP-IDF, host tasks and `kernel_task` are not.

**`UserService`.** A program is new, running, asking or stopped; it gets one
answer of the right kind to each question, and is not left waiting. `HostLoop`
maps to it by `Phase`, the pending request, and the saved `a0`.

**`UserPool`, `UserPointer`.** Sizes and the word width are parameters. The
`configASSERT` of the allocator is the guard of `CreateSlot`: where it is false
the system stops, and `AllocatorNeverAsserts` says it never is. The tests in
`user_range_ok()` overlap: dropping the length test or the wrap test alone
changes nothing, given that no arena ends at the top of the address space.

**`SysPuts`.** One load per step, and another user's store between any two. `held`
remembers what each byte of the arena has been during the call.

**`Pmp`.** The registers of one core as an array of entries. `Matches` and `Reach` are
the privileged specification's rules for TOR, NA4 and NAPOT, lowest entry first;
a write to a locked entry, or to the address below a locked TOR entry, has no effect.
Addresses are in the PMP's unit of four bytes. `Report` decodes, orders, merges
and walks the regions the way `pmp_report` does; each loop is a function of the
number of its turns (an entry goes to its place in the sort as it is collected),
and `ReportTruthful` compares the result with `Matches`, address by address.

**`Boot`.** One action per turn of each loop of `kernel_main`, and one per CSR
write of `umode_pmp_program`, which is what makes a half-written table visible
(no user runs yet: the property is about the order of the writes).
The tasks it creates may open windows at once, because they outrank the main
task. What may lie where comes from the linker (`Layouts`), what the PMP holds
at the start from the boot loader (`Resets`, foreign locked entries included).
`told` keeps every report printed.
`umode_pmp_grant_extram` is never called and is not modelled.

**`UserApp`.** The user program with its buffer, one digit a step; the strings are
lengths, the numbers are real decimals, which `Decimal` states by division and not by the
code's loop. Every counter wraps at `Word`. The ecall
is a step: what it does is `HostLoop`'s subject. The product in `pdMS_TO_TICKS`
wraps too, and `SleepsAgain` needs it to be right for the delay this program asks
for; of longer delays, which `SYS_DELAY_MS` accepts and may cut short, nothing is
claimed.

**`Probe`.** All eight tests in the order of `app_main`, one action per block of
assembly, interrupts between any two of them that the core admits. The core
behaves as the architecture says: the silicon defect that the probe looks for
is not modelled, so what is shown is that the probe measures, not what.

## What the runs show

| Run | Instance | Shows |
|---|---|---|
| `window_safety` | 2 harts, 2 tasks, symmetric; 2.3 million states | registers, vectors, threshold and guard come home on the right core; the window is sealed; the verdict is this user's; a violation on one core reaches no core as an interrupt |
| `window_liveness` | 2 harts, 1 task, both coprocessor states, fair; 67 thousand states | the proofs' invariant; no interrupt consumed by the private vector; the exit keeps FS; interrupts are served and windows return; `WindowContract` is implemented, liveness included |
| `host` | 1 slot and `kernel_task`, 2 cores, every call, 2 windows, 1 move, fair | each window counted once as syscall or interrupt, each ecall stepped past once, the reason for retirement, neither the move counter nor `kernel_task`'s line exceeds real moves, a recorded core that is not the task's means a move yet to be counted, one writer; `UserService` is implemented; every line gets printed |
| `pool_pointers` | 2 arenas of 8 bytes, 5-bit words, every buffer | arenas apart, stacks inside, the range check exact |
| `puts_double_read` | arena of 4, `SYS_PUTS_MAX` 3, 2 stores, every pointer and content | loads stay in the arena, the copy has nothing foreign in it, exact when undisturbed |
| `boot` | 2 cores, 2 slots, 32 addresses, every layout and reset state of `MCBoot` | no half-written table grants too much; a user reaches exactly its grants on any core; no task runs before what it reads is there; the report is true on every core |
| `user_app` | a word of 30, numbers of one and two digits, three ids, until all counters have wrapped | buffers hold, every message is the one the source spells out, the program sleeps again and again |
| `probe` | 2 and 5 iterations, a progress line every 2, PMP grant present or not | threshold, caller's state, and the meaning of OK |
| `window_entry_coprocessor`, `window_kernel_gp`, `host_getcore`, `puts_longest` | small | the disagreements below |

**Bounds.** The window model has no counters: its state space is finite and
complete for the given harts and tasks. Two harts is what the code asserts
(`SOC_CPU_CORES_NUM == 2`). Two tasks are enough for the two interactions there
are: two windows at once, and one task leaving residue on a hart for another;
the proofs cover any number. `window_liveness` has one task, as two with fairness
take too long for a regular run. What happens beside another window is covered by
`window_safety` for its invariants, and by the theorems for these, for the two
action properties and for the safety half of `WindowContract`; that interrupts are
served and windows return is shown for one task only. `HostLoop` bounds windows (`MaxWindows`) and moves
(`MaxMoves`): two windows allow each ordered pair of serve, interrupt and
retire, and one move suffices to separate any two reads of the core; slots meet
only at the console, where `kernel_task` is the other party. The safety
properties, and the safety half of `ServiceProvided`, are proved without these
bounds. Five-bit words with arenas of eight bytes have room for buffers below,
above, across and around each arena. In `SysPuts` the arena is longer than the
longest message, so both bounds of `user_strlen` are met, and two stores can put
a NUL in and take one out.

`Boot` keeps all sixteen entries and twenty register writes. Its 32 addresses
hold six regions of one to five units; layouts let the pool touch IRAM text or
not and end at the end of SRAM or before it, and put `user_main` in IRAM or in
flash. In the reset states stale addresses lie below, between and above the
grants, and one locked entry takes every mode at the index of a base, of a limit
and outside the table. No block ends at the top of the address space: the report
shifts a `pmpaddr` back into 32 bits, where such an end reads as 0 and the range
is left out, so the report would call a reachable range unmatched. Neither
`pmp_apply` nor the chip's regions come near it, and neither does what is locked in
the reset states (`ResetAssumption`).

In `UserApp` a word of 30 makes numbers of one and two digits, and the
periods of the two messages and of the counters differ, so all combinations
occur before everything repeats. The buffer bound is an assumption on the
constants that the build meets: 5 + 10 + 1 + 10 + 9 + 10 + 1 = 46 of 48 bytes,
and 8 + 22 for the other message. `Probe`'s iterations reach
each line of `run` with the first bad trap before, at and after a progress line.
Its interrupts are of level 1, as the levels the tests compare are 0 and 1.

**Fairness.** In `UmodeWindow`: a hart goes on executing the code it is in, takes
an interrupt it is open to, and a user traps eventually. The last is the
cooperative user that `umode.S` names as its price: with interrupts masked, a
user that computes for ever does hold its core. In `HostLoop`: equal-priority
tasks share the cores, so each goes on (weak fairness); the mutex serves its
waiters in order and `kernel_task` sleeps between its lines, so a task that
finds the console free again and again gets it (strong fairness of `Take`).
In `UserApp`: the program goes on, which is what the two others show. `Boot` and
`Probe` have safety properties only; in particular nothing says that
`kernel_main` ends while early users hold core 0.
No fairness is assumed of what a user asks or of the scheduler moving a task.

Deadlock is checked in every run.

## What is proved

**The window, for any number of harts and tasks.** `UmodeWindow_proof` proves the type
invariant, the six safety invariants of `window_safety` and the two action
properties of `window_liveness`. The assumptions are that harts, tasks and the
special register values are distinct and there is at least one hart.

The properties talk about harts that are preemptible or in U-mode, which says
nothing of the thirty instruction blocks in between, so none of them is
inductive. `IInv` says where everything is at each label. Its parts:

- `ModeInv`, `CsrInv`, `GuardInv`, `ParkedInv`: what a hart holds is a function of the
  label of the code it runs (`Label(h)`) — and, for the parked copies, that what
  a context holds is what this very hart must get back;
- `TaskInv`: what a task and its context hold is a function of the task's label,
  wherever the task is;
- `SchedInv`: a task runs on at most one hart, and a task inside the masked part
  of a window runs on one.

`EnterMask` is the crux: before it nothing hart-specific may have been parked,
after it the task cannot leave the hart until the second mret. There is one lemma
per action; interrupts preserve `IInv` because they only happen at labels whose
hart-side facts mention no context.

**The contract of a window.** `ContractIsKept` (`WindowContract_proof`) shows that
every step of `UmodeWindow` is a step of `WindowContract` or leaves its view
unchanged. Only three steps are seen: `EnterMret` opens, `UserMoveSp` strays,
`TrapMret` closes. That all others are not is one lemma for the steps of a task
(`QuietSteps`) and one for the rest (`OutsideUnseen`): the first because a task
inside a window stays on its hart, the second because an interrupt is only taken
where no window is. The step that closes needs the exact verdict from `IInv`, and
`CauseInv`: a trap has a cause from the moment it is taken until the host loop
reads it.

**The host loop, for any number of slots, cores, windows and moves.**
`HostLoop_proof` proves the five invariants of `host` and, as `ServiceIsProvided`,
that every step of the host loop is a step of `UserService` or none. The properties look
at a slot at one or two labels, so again they are not inductive. `IInv` adds:

- `PlaceInv`: a task is only at labels its code has, and goes on after a line
  only where the code does;
- `OneWriter`, which is inductive by itself;
- `AnswerInv`: between the dispatch and the stored `a0`, `ret` is one of the
  answers the request may have;
- `RunInv`: `running` says which part of `user_host_task` the slot is in;
- `BooksInv`: at each label, which of the window, the counter and the stepped
  pc are one ahead of the others;
- `MoveInv`: the core a slot records and the one it has just sampled account for
  as many moves as the counter says, and `kernel_task`'s copy is never newer;
- `SaidInv`: what has been reported so far is what the verdict and the cause
  of the last window call for.

The refinement then has one lemma per visible step (a program starts, asks, is
interrupted, answered, stopped) and one for those that leave every program's
phase and answer alone.

**The user pool.** `UserPool_proof` proves, for any word width, sizes and number of slots that the
build's assertions admit: the allocator's run-time assertion follows from the
static one (`AllocationSucceeds`), arenas are disjoint (`ArenasDoNotOverlap`),
`user_range_ok()` is exact byte by byte with wrapping addresses
(`RangeOkIsExact`), so `SYS_WRITE` passes on exactly the caller's bytes
(`WritesAreChecked`), and stacks stay in their arenas (`StacksStayHome`). The
assumption beyond the static assertion is that `USER_ARENA_SIZE` is a multiple of
16, as the present 8192 is, so that the allocator's rounding adds nothing.

**SYS_PUTS, for any arena, message limit, pointer and stores.** `SysPuts_proof` proves the
type invariant and the three safety invariants of `puts_double_read`. They are
about the loads made and the line printed; what connects the two is in between:
`PlaceInv` (how far the scan and the copy are, and that a counted string ends inside
the arena and below `SYS_PUTS_MAX`), `CopyInv` (each byte copied stood at its place),
`HeldInv` and `QuietInv` (without stores, what was counted and copied is what
stands). That the text printed is the copy up to its *first* NUL, which a store
may have moved forward, is the lemma `TextOfString`.

**The boot, for any number of cores, slots and PMP entries, and any memory map.**
`Boot_proof` proves the type invariant, `TasksFindAllPrepared`,
`NeverGrantsMore`, `UsersReachExactly` and `ReportTruthful`. `OrderInv` says what each part of
`kernel_main` leaves for the next, `TaskInv` that only a created task opens a window. The
crux is `PmpInv`: after k of its register writes, a core's PMP is the table up to
where it is written, and off from there on. `NeverMore` follows because the
addresses come first: an entry that is on has its own address and its base. That
an entry once on cannot be disturbed by a later write needs the order of
`umode_pmp_program`; that all of the grants are reached (`AllOfThem`) needs the
ranges to be disjoint, or an earlier entry would decide with other permissions.

For the report, `ReportIs` says that what it names of a region is what no entry
matches in it, for registers of any kind and number. It goes through the code: an
entry covers, as decoded, what it matches (`DecodeIs`); the ranges sorted so far are
in order and cover what the entries so far match (`SortedIs`); the merged ones are
apart, the last starts no later than what comes next, and they cover the same
(`MergedIs`); the walk has told all that is free of what it has gone past, and none
of the ranges it has seen is still ahead (`GapsIs`). That the report of one core
holds of all is `SameInv`: each core's registers are what its writes so far have made
of one reset state (`After`), so all are the same once each has had them all;
`ToldInv` adds that nobody writes a register after the report, and `TopInv` that no
locked or written entry reaches the end of the address space. TLC has checked these
three over every state of `boot` too.

Assumptions: `LayoutAssumption`, the linker and the chip keep the three ranges
apart and out of TCM; `RegionAssumption`, the regions of the report are within the
address space; and `ResetAssumption`: where nobody has locked an entry the reset has
left all of them off, as the comment of `pmp_apply` says, and a locked one does not
match the last four bytes of the address space. Without the last the theorem is
false (see the bounds).

**The user program, for any word width, strings and periods.** `UserApp_proof` proves
`BuffersHold` and `MessagesExact`. For the first, `RoomInv` gives each part of a message
the characters used up to it, and `DigitInv` says that the value still to be divided is
below the power of ten for which `tmp[]` has room left. For the second, `TextInv` says
that `msg` is the text of the parts done (`SoFar`), and within `u_append_u32` that
`tmp` holds the lowest digits while `val` is the rest, or the highest have already
followed the text. The counters are bumped as they are passed, so the number in the
text is the one *before* the counter's, modulo the word. Assumptions: `tmp[]` has a
digit for every power of ten a word reaches (`PowerAssumption`), and
`BufferAssumption`, the sum the build satisfies.

**The probe, for any numbers of iterations.** `Probe_proof` proves its three invariants.
`VectorInv` says whose vectors are installed and that `g_save` holds the caller's,
`ThresholdInv` and `LevelInv` what stands between two probes, `MeasureInv` that, while no trap was
bad, as many probes came to the stub as were counted. The number of iterations
is positive (`ItersAssumption`): with none, `run` would report OK without having
measured anything, and the theorem would be false.

**Inductions.** The provers cannot instantiate a theorem that takes a predicate, so each
induction over numbers here is a least counterexample (`LeastNumber`): that powers
grow, that a number has a length, that a string has a first NUL. A loop that is a
recursive function is shown to have its values first (`Turns`), up to the number of
its turns, and its invariant turn by turn then (`UpTo`).

**Only model-checked.** Liveness, which is out of the prover's reach.

## Disagreements with the comments

Each is a run that TLC finds violated.

- `EntryKeepsCoprocessorState`: the entry path writes back the whole `mstatus` it
  read before masking interrupts, FS and VS included; the comments say that only
  MIE of it is used. After a switch in between, those bits are another moment's.
- `KernelGpWhenPreemptible`: `gp` and `tp` are restored after the mret that
  re-enables interrupts.
- `GetcoreNamesTheCore`: the core is sampled after the window, when the task may
  have moved, so the answer of `SYS_GETCORE` need not be where the user goes on.
- `LongestMessageAccepted`: the longest message is `SYS_PUTS_MAX - 1`.

Wording without a run:

- `SYS_MAX` is 5 with a call number 6; comments still speak of tasks pinned to
  their slot's core, and of IDF's locked PMP entries.
- `kernel_task`'s comment allows for figures "one window stale"; the slot's own
  `core` may already name another core than its last window's.
- `pmp_report` says of what some entry matches that U-mode reaches it. An entry
  of somebody else's may match and grant nothing; `ReportTruthful` therefore
  claims reach only where nothing was locked before.
- In the probe, a live test can be interrupted between the installation of its
  vectors and its mret, although a comment says nothing but the stub may trap
  there; `p4_handler` copes, and `CallerUndisturbed` includes the case. The first
  probe of test 6 is entered at level 0, being the first to return at level 1.

## What is not modelled

- Which bytes a message consists of, formatting, fault names, time.
- The general registers other than `sp`, `gp` (which stands for `tp` too) and `a0`:
  they are saved and loaded one by one, with nothing shared.
- The user's `pc`, except as a count of ecalls.
- A kernel stack overflow that was latched before a window: its prologue clears
  it and nobody reports it. The code accepts this; `VerdictExact` shows that it
  is at least never charged to a user.
- A bootloader or IDF configuration with memory protection on: with locked
  entries of somebody else's, what U-mode reaches depends on them, and
  `NeverGrantsMore` and `UsersReachExactly` speak of cores without any
  (`Unlocked`).
- The silicon defect the probe looks for.
- Emulator and board scripts: tool invocations and the layout of an eFuse image,
  file in and file out.
- IDF, FreeRTOS and the core themselves, except where the code meets them.

## Plan

Done: 1 `UmodeWindow` and its proof; 2 `HostLoop`, `UserService` and the proofs of
both; 3 `UserPointer`, `UserPool` and its proof; 4 `SysPuts`; 5 `Pmp` and `Boot`,
the report included; 6 `kernel_task`'s lock-free reads; 7 `UserApp`; 8
`WindowContract` and the proof that joins the two levels; 9 `Probe`.

All invariants and all action properties of the runs are proved; what TLC alone
shows are the liveness properties.

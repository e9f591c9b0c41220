# SmokeBomb: a TLA+ model of the cache mitigation

SmokeBomb keeps the sensitive table of a program (an S-box, say) in the L1
cache while the program works on it. A compiler pass marks the functions that
touch an annotated variable, a rewriter replaces their `ldr` instructions by
undefined words ("LDRFLUSH"), a user library tells a kernel module where the
variable lies, and the module catches the undefined words, performs the loads
and puts lines back that a miss displaced. This directory holds TLA+ modules of
that code, TLC configurations that check them, and TLAPS proofs.

## 1. Inventory

| Component | State | Operations | Interacts with |
|---|---|---|---|
| Kernel module: tables and commands (`smoke-bomb/lkm/sb_lkm.c`) | `sdata_region`, `sdata_l1_arr`, `sdata_l2_arr`, one row per `pid % 64`; prime/probe arrays | INIT, EXIT; INIT_PMU, PRINT_CPUID, GET_SET_IDX, PRIME, PROBE; load and unload of the module | commands from the library through a proc file; tables shared with the trap handler |
| Trap: preload and refill (`lkm/addr.c`, `arm*/insn.c`) | none of its own; reads the tables, sets `preload_flag` | `smoke_bomb_ex_handler`: `sb_preload`, the dispatchers | the undef-instruction hook of the kernel, the caches and PMU (`arm*/cache.h`), page tables |
| LDRFLUSH codec (`arm64/insn.c`, `arm/insn.c`) | none | checkers, converters, decoders, dispatchers | rewriter (must produce the same words), hook mask in `patch.c` |
| User-memory patching (`arm*/patch.c`) | page tables of the program | `patch_user_memory`, `write_opcode`, `__replace_page`; hook registration | not called at this commit: the rewriter patches the file |
| User library (`llvm-based/src/sb_api.c`) | descriptor, saved scheduling attributes, manual flag: globals of the process | `smoke_bomb_init/exit`, `smoke_bomb_manually_init/exit` | instrumented functions call it, it sends INIT and EXIT |
| User library for hand-placed calls (`smoke-bomb/lib/sb_api.c`) | the caller's variables | the same calls, debug commands | `sb_test.c` |
| LLVM pass (`llvm-based/smokebomb-pass`) | none at run time | inserts init at the entry and exit at the end of a function | library |
| Static rewriter (`llvm-based/script/rewriter.py`) | patch list | scan of the disassembly, checkers, converters | kernel codec |
| `mem_finder.py`, `cache-test/`, `sb_test.c`, `hello.c` | - | experiments and samples | - |

What is hard here:

* **Concurrency.** The module takes no lock. INIT tests a row and stores three
  fields, EXIT resets them, a trap reads them in several places, and rows are
  shared by threads whose ids agree modulo 64. The library's globals are shared
  by all threads of the process.
* **Failure.** A page that is not mapped makes INIT stop in the middle of its
  loop; the preload and the lookup ignore the same failure; `open` and
  `sched_setscheduler` fail; the library ignores the result of INIT.
* **Ordering.** The preload is put off until the first trap; sections follow
  each other on the same row, nest, or lie inside a manual section.
* **Bit-level agreement.** Two encoders (C, python), a decoder per architecture
  and the mask of the hook must fit together, and the emulated load must be the
  load the program had. The words that name a set and a way of a cache have
  fields of their own, which differ from level to level.
* **Hardware.** What a prefetch leaves in a cache depends on the other lines of
  the set, on the replacement policy and on everything else that runs on the
  core; the module infers a miss from a counter that others use.

What makes each component correct: registrations are whole and belong to one
thread; the section is warm before its first load; the tables answer for every
line of the section; a refill fetches a line of the set it flushes, and of the
section; what the module brought into the cache stays there until another line
enters the set; every handler returns; the emulated program is the native one;
a granted section stays registered until its exit, and the thread gets its
scheduling back; patching text in memory loses no word, no page and no lock; a
command in the loaded module finds the handler and the buffers it needs.

`PROJECT.json` lists every hazard at its line with the properties that cover it.

## 2. Modules

```
CacheGeometry ─┬─ SmokeBombLkm ─┬─ MCSmokeBombLkm ── MCCalls
               │   (implements  │
               │  SlotRegistry) │
               └─ L1Cache ──────┴─ SectionCache ── MCSectionCache ──┐
                     └──────────── PrimeProbe ──────────────────────┼─ MCCaches
                                   Lifecycle ───────────────────────┘

SlotRegistry ─┬─ SbApi ── MCSbApi ──┐
              └─ HandApi ───────────┴─ MCLibraries

InsnWord ─┬─ Armv8Load ── LdrFlush64 ┐
          ├─ Armv7Load ── LdrFlush32 ├─ LdrFlush ── MCLdrFlush ── MCLdrAddressing
          └─ Rewriter ───────────────┘

Instrumentation ── MCInstrumentation        PatchUser ── MCPatchUser

SmokeBombLkmProofs ── CachesProofs (of MCCaches)
SbApiProofs ── LibrariesProofs (of MCLibraries)
LdrFlushProofs      InstrumentationProofs      PatchUserProofs
```

A module `XProofs` holds the theorems about X, or about MCX (section 5).
`SmokeBombLkmProofs` also has the lemmas about set numbers, `CachesProofs` the
theorems about SectionCache, PrimeProbe and Lifecycle, `LibrariesProofs` those
about HandApi. `CachesProofs` and `LibrariesProofs` end with the specifications
that the runs `caches` and `libraries` check.

**CacheGeometry** (`arm64/cache.h`): physical address to set number, and the
line mask. `GeometryAssumption`: numbers of sets are powers of two the loop of
`_get_set_idx_from_addr` tries, L1 has no more sets than L2, and a row of the
tables has an entry for every L2 set (2048 in the code).

**SmokeBombLkm** (`sb_lkm.c`, `addr.c`, cache half of `arm64/insn.c`): each task
runs handlers through `pc[t]`; every access to a table that another handler can
see is an action. `InitRefuse`/`InitAccept` are the test of the row, `InitLine`
the loop body (conversion, two entries), `InitLineFails` its error return,
`InitStoreSva/Eva/Flag` and `ExitStoreSva/Eva/Flag` the stores, `ExitFlush` the
flush loop of EXIT. `Trap` starts `sb_preload` (`Preload*`), then `LoadHit` or
`LoadMiss` (the PMU decides: both are possible), `LookupZ`,
`LookupUnrelated/Related`, `Refill`. `PageIn` and `PageOut` are the kernel's
memory manager (external). `ret` is the result of the last command, `granted`
a history variable: the request of the section the task believes is open.
`prefetched[t]` holds the lines the module fetched for `t` that no handler has
flushed by address since; which way of a set holds a line is left to
SectionCache. A page of any task may lie in any frame: threads of one process
have the same memory, and the flush of INIT (`sb_lkm.c:65`) or EXIT (`:123`)
takes a line out for every task that has it mapped (`Flush`). `lost[t]`, a
history variable, keeps the lines of `t` that another task has flushed so.
`LkmAssumption` says that a request does not touch page 0 and that loads address
user pages.

**L1Cache** is the level 1 data cache of one core: a function from set and way
to the address of a line, `Invalid` or `Foreign`. A line that comes in takes an
invalid way or any way (the replacement policy is external and arbitrary).
`flush_l1_word`, `flush_l2_word64` and `flush_l2_word32` are the words the code
puts together for a set and a way, bit by bit, and `CleanInvalidate` what the
processor makes of such a word (external): it takes the level, the way and the
set from their fields, so that a word with the wrong level acts on L1.

**SectionCache** is SmokeBombLkm with that cache. Each action of the handlers
that touches the cache is conjoined with what its instructions do to it:
`PutLine` is the four lines of the preload and of a refill (make room in L1,
flush L2, prefetch, flush L2), `LoadHitCached` allows the answer "hit" only
when the counter, if it counts refills, saw none. `OtherLoad` is any other load
on the core. `spoiled[t]` is a history variable: the sets that something has
entered since the module last brought the section's line into them.

**PrimeProbe** (`sb_lkm.c:201-257`) is PRIME and PROBE, a turn of their loops a
step, on the same cache, beside a program that loads its lines and others.
`entered` remembers when another line last entered the set.

**Lifecycle** (`sb_lkm.c:340-406`) is insmod and rmmod, step by step, while
threads write commands: the order of proc file, hook, number of ways, buffers
and tables, functions that are not found, buffers that are not allocated.
`Rundown` is `remove_proc_entry` waiting for commands in progress (external).
The commands are whole here; their steps are SmokeBombLkm's.

**SlotRegistry** is what the module promises: a row is free or holds one whole
range, and is taken only while free. `SmokeBombLkm!RegistrySpec` maps the
tables to it (a row is held when both ends are stored), and **SbApi** and
**HandApi** use it as their kernel.

**SbApi** (`llvm-based/src/sb_api.c`): threads that enter and leave
instrumented functions and manual sections. Accesses to the process's globals
are actions of their own, those to the file descriptor among them: the test
(`AlreadyOpen`, `NotOpen`), the store of what `open` returned (`Open`, or
`OpenFails`, which stores -1 even over another thread's descriptor), the second
test (`OpenChecked`, `OpenRefused`), and the read by `write` (`WriteFails` when
it finds -1, or the module has gone). What is written is INIT (registers, or
fails) or EXIT (frees the row of the thread whatever it holds). `sections[t]` is the stack of sections the program believes open,
`chosen[t]` the scheduling it had outside them.

**HandApi** (`smoke-bomb/lib/sb_api.c`, called as in `test/sb_test.c`): the same
library with the saved attributes in two ints of the caller, which start
uninitialised, and the proc file opened for every command. Nothing is shared by
threads but the kernel. `failed` collects the threads of which a scheduling call
or a command failed.

**PatchUser** (`arm64/patch.c`, `arm/patch.c`): threads in `patch_user_memory`.
A page of text lies in a frame (`home`) and its page table entry may be gone
(`mapped`); `count` is the number of references to a frame, `locked` its page
lock, `patched` the words of it that are LDRFLUSH. `GetUserPages`, `CopyPage`,
`Charge`, `LockPage`, `Replace` or `ReplaceAgain`, `UnlockPage`, `PutNew`,
`PutOld` are `write_opcode` and `__replace_page` with their error returns and
the retry. `Unmap` and `Migrate` are the kernel's (external).

**InsnWord** represents a word as the set of its one bits; a C shift is an
image. **LdrFlush64/32** translate the checkers, converters, decoders and the
register effect of the dispatchers; **Armv8Load/Armv7Load** (external) say what
the processor does with the instruction that was rewritten; **Rewriter** is the
python encoder. **LdrFlush** puts them together: a machine of either
architecture that runs a program of loads, each native and rewritten.

**Instrumentation** goes from a program to its protected binary. `Instrument`
is the LLVM pass (`test.cpp`: markers before annotated instructions, init at
the front of the function, exit before the last instruction of the last block),
`PatchList` the scan of `rewriter.py` with its flags `smoke_bomb_ctx` and
`hit_ctx`, `Patched` what `patch()` makes of the list: words that neither of its
converters accepts stay as they are. A load therefore has a form: `ldr32` is
accepted, `ldr` is listed and skipped (64 bits, a register or an offset out of
range), `ldrb` is never listed. The actions run the result: branches go to any
block, so every path is covered. The state keeps the disassembled lines, the
numbers of the rewritten ones, and the open section. `ClangProgram` is the
layout the pass relies on and does not check: a function returns at the end of
its last block and nowhere else. `InstrumentationAssumption` asks it of the
programs. A function may use any number of annotated variables.

Mutants (`...Unchecked`, `...MinusOne` and the like, marked `Mutant:`) are
wrong versions of a definition next to the definition; they are not used by
any specification, and each shows that a property notices that mistake.

MC modules give the small instances. Where one run asks the same kind of
question of several models (MCLibraries, MCCaches), the MC module chooses one of
them in the initial state, for good, and the variables of the others keep their
initial values; the models do not interact. What the second instance has other
than the first (`FlatVariables`) is a CONSTANT of its own, so that the theorems
hold for any.

## 3. Runs

| Run | Instance | Shows |
|---|---|---|
| `lkm_isolated` | 2 threads of one process, own rows; 2 pages of a line each, in any of 2 frames, the same for both threads (`ProcessSpec`); 2 L1 and 4 L2 sets; two requests that overlap in a line; a page stays once it is mapped, and is absent at first | `TypeOK`, `OpenOwnsRegion`, `SectionPreloaded`, `SectionCovered`, `RefillSameSet`, `RegistrySpec` |
| `lkm_calls` | 2 threads on one row, a page that is taken away and mapped at any step, a section of one line, a load | `CallsReturn` |
| `lkm_double_grant` | 2 threads on one row | violation of `NoDuplicateGrant` |
| `lkm_stale_table` | 2 threads, own rows, 1 page each, two requests | violation of `RefillFromSection` |
| `ldrflush` | 8-bit registers, four of them with sp (three on ARMv7), two loads in a row, the lookups compilers write | `RewrittenDecodes`, `RewriterAgrees`, `EmulatesNative` |
| `ldr_addressing` | ARMv8 with every index form the checker accepts and ARMv7 with offset 1024, in lockstep | violation of `OneEmulatesNative`: in one step neither machine does the load that was rewritten |
| `libraries` | instrumented program: 2 threads that open the proc file together, open and write may fail; 1 thread, 2 variables, manual sections around instrumented functions. Hand-placed calls: 2 threads, commands and scheduling calls may fail, three kinds of garbage | `SectionsProtected`, `AttributesRestored` |
| `api_nested` | 1 thread, 2 nested functions | violation of `SectionProtected` |
| `instrumentation` | every pair of functions, the first of up to 3 blocks with one expression each or one block with two: loads and stores of either variable, byte and 64-bit loads, lookups through an index from the stack; with and without -optimize | `AccessInSection`, `SectionClosed`, `SectionRewritten`, `OutsideOriginal` |
| `patch_user` | 2 threads, ranges [0,1] and [1,2] over 2 pages of 2 words, 4 frames, one unmapping or migration at any step | `TypeOK`, `RefsBalanced`, `PatchedExactly`, `CallReturns` |
| `caches` | 4 L1 sets of 4 ways, 8 L2 sets of 16; a section of one or two lines, the longer on two pages, in any frames, a load inside and one outside; a program with one line; 2 threads with commands and 2 buffers | `SectionResident`, `PrimeClears`, `ProbeNotices`, `CommandsServed` |
| `l2_flush` | the section of `caches` on ARMv7 | violation of `SectionResident` |

Bounds. Nothing in the kernel model counts without limit: sections are repeated
for ever, addresses are those of one or two pages. With lines of 2 bytes a
request can start inside a line; pages of one line (`lkm_isolated`) let the
lines of a section lie in any order, or both in one frame, in one L1 set or in
two. One section contains the other's only line, so that INIT and EXIT of one
thread flush what the other has preloaded. In `lkm_calls` a section of one line
is enough for the loop to read the end of the region again while the other
thread stores it. Two threads are enough for every race of INIT, EXIT and a trap on one row; rows
do not otherwise interact. Three blocks let a path skip the block of the first
or last use, and an expression may reload its index from the stack between
marker and load. One limit of the instrumented code bounds that run: functions
have their only return in the last block (clang's layout without optimisation),
because the pass closes the section in the last block only.
`MaxSections` bounds nesting in SbApi, `LastPc` the number of loads in the codec
runs (which is why they switch the deadlock check off). In `patch_user` every
thread makes one call, then stops, so that run does not check deadlock either,
and `MaxMoves` bounds how often the kernel takes a page away: without it the
retry may go on for ever, as it may in the code. The other runs check deadlock.

The caches have four ways, as the Cortex-A53 (`way << 30` is right for four
only), and four sets, so that the two lines of a section and a load beside it
can share a set or not; a line of 64 bytes keeps the shifts of the code. The
two sections follow each other, so that one is preloaded into what the other
left. `SectionResident` claims what the increments of `set1` and `set2` can give:
the frames of the section are adjacent and each line has an L1 set of its own
(`OneLineASet`); a section with scattered frames is in the run and not promised.

Fairness (`MCCalls!CallsSpec`). A task inside a handler keeps being scheduled
(WF of its handler steps): the handlers never sleep except in a page fault,
which the kernel serves (WF of `FaultIn`). Strong fairness of the load itself
says the reclaimer does not take the page away for ever between the fault and
the retry. Nothing is assumed of the program: it need not call EXIT.
`PatchUser!FairSpec` likewise says that a thread in the kernel keeps running;
waiting for a page lock needs no strong fairness, since a lock is taken once for
each copy and the calls are finite.

## 4. Where the code and its comments part

1. Two threads whose ids agree modulo 64 can both be granted the row that
   "duplicated pid!!" is meant to protect (`lkm_double_grant`).
2. EXIT resets the region and leaves the tables, so a miss in the next section
   can refill a line of the previous one (`lkm_stale_table`).
3. ARMv8: the dispatcher ignores `option` and `S`, though it encodes them, and
   always scales by 4 (`ldr_addressing`).
4. ARMv7: `sb_get_imm12` shifts by 27 instead of 20 (`ldr_addressing`).
5. Sections are not counted: the exit of an inner instrumented function frees
   the registration of the outer one (`api_nested`). For the same reason the
   outer exit finds nothing to restore and the thread stays SCHED_FIFO.

6. ARMv7: the word that is to flush a way of L2 has its level in bit 0 instead
   of bits 3:1, so it names L1, and way 15 of it is the way that `sb_preload`
   has just filled: preloaded lines are flushed out again (`l2_flush`). On ARMv8
   the same section stays (`caches`).

What the code does not do, and no comment of it claims, is in the properties as
an exception, so that they say how far the protection goes:

* A line that another thread's INIT or EXIT has flushed is not preloaded again,
  as `preload_flag` stays 1: `SectionPreloaded` excepts the lines in `lost`.
* A miss that shares only the L1 set with the section leaves the set as it is
  (`LookupUnrelated`): `SectionResident` counts it among what entered the set.
* The pass registers the first annotated variable of a function and no other:
  `AccessInSection` names that one.
* Loads that no converter accepts stay, and under -optimize the first hit after
  a marker, also when the marker's use was a store and the hit is in a later
  function: `SectionRewritten` is about the rest.

## 5. Proofs

Each theorem holds for every value of the constants that satisfies the module's
`ASSUME`s and the hypotheses the theorem names. A hypothesis is a definition with
a comment, and what it excludes is said below. Each inductive invariant was
checked by TLC on the instance of a run before it was proved.

| Theorem | Hypotheses | Inductive invariant |
|---|---|---|
| `SmokeBombLkmProofs!TypeCorrect` | - | `TypeOK` |
| `OpenOwnsRegionHolds`, `ImplementsRegistry` | `SlotsDistinct` | `RegistrationInv` |
| `RefillSameSetHolds` | `SlotsDistinct`, `SectionsStay` | `TableInv` |
| `SectionPreloadedHolds`, `SectionCoveredHolds` | `SlotsDistinct`, `SectionsStay` | `SectionInv` |
| `ApartPreloaded` | `SlotsDistinct`, `SectionsStay`, `[]FramesApart` | `SectionInv`, `NothingLost` |
| `SameL2SameL1` | - | - |
| `CachesProofs!FlushNamesSetHolds` | - | - |
| `FlushNamesWayHolds` | four ways | - |
| `SectionResidentHolds` | ARMv8, `SlotsDistinct`, `SectionsStay`, `[]OthersFit` | `KernelInv`, `SectionResident` |
| `AloneResidentHolds` | ARMv8, `SectionsStay`, one task | (from the one above) |
| `SectionResidentInRun` | as `SectionResidentHolds` | `SectionUse` |
| `PrimeClearsHolds` (`PrimeLeavesClear`) | `BaseAligned`, `ProgramElsewhere`, `FourWays` | `PrimeInv` |
| `ProbeNoticesHolds` (`ProbeTells`) | `BaseAligned`, `ProgramElsewhere` | `ProbeInv` |
| `CommandsServedHolds` (`LifecycleServesCommands`) | - | `LifecycleInv` |
| `LibrariesProofs!SectionsProtectedHolds` | `NoNesting`, `FlagIsOwn`, `SlotsDistinct` | `ThreadsInv`, `FlatInv`, `ByHandInv` |
| `AttributesRestoredHolds` | `NoNesting` | `FlatInv`, `SavedInv` |
| `HandSectionProtectedHolds` | `SlotsDistinct` | `HandInv` |
| `HandSchedRestoredHolds` | `AttributesValid` | `HandInv`, `SavedInv` |
| `SbApiProofs!SectionProtectedHolds` | `NoNesting`, `FlagIsOwn`, `SlotsDistinct` | `SbInv`, `NestInv`, `AcceptedInv` |
| `SchedRestoredHolds` | `NoNesting`, `Alone` | `SbInv`, `NestInv`, `SchedInv` |
| `LdrFlushProofs!RewrittenDecodesHolds`, `RewriterAgreesHolds` | - | `MachineInv` |
| `EmulatesNativeHolds` | `AsDispatched64`, `AsDispatched32` for the program's words | `MachineInv` |
| `InstrumentationProofs!AccessInSectionHolds`, `SectionClosedHolds`, `SectionRewrittenHolds`, `OutsideOriginalHolds` | - (programs of clang's layout, `InstrumentationAssumption`) | `RunInv` |
| `PatchUserProofs!PatchTypeCorrect`, `RefsBalancedHolds`, `PatchedExactlyHolds` | - | `PatchInv` |

A theorem in brackets is the one about the model alone; the one before it has
the same invariant and the specification of the run.

**Set numbers.** `SmokeBombLkmProofs` begins with proofs that set numbers index
the rows of the tables, of `SameL2SameL1` (addresses of one L2 set are in one L1
set, because the smaller power of two divides the larger), and that the set
number of a line `d` lines further on is `d` more, modulo the number of sets
(`SetOfLater`, `SetsApart`), on which the increments of the preload rest.

**Kernel module.** `TypeOK` is inductive: it also says that the L2 set kept
between `LookupZ` and the test is an index of a row. `OpenOwnsRegion` is not, as
it says nothing of the stores in progress: `RegistrationInv` (`PhaseOK`) states
what the three fields hold at every place of INIT and EXIT. The lemma
`OthersKept` shows that a step of one task leaves the row and the locals of the
others alone, so that only a task's own steps remain. In the refinement, storing
eva is the moment of registration and clearing sva that of release; every other
step stutters. Without `SlotsDistinct` (no two threads share a row) both fail:
that is `lkm_double_grant`. `TableInv` says that an entry is filed under the L2
set of its address and that a lookup in progress read such an entry;
`SectionsStay` (no page a request covers is reclaimed; others may be) keeps it
true. `SectionInv` states how far INIT has entered the request's lines
(`InitProgress`: each line below the loop's variable has an entry of its set
that names it or a later line), what the table keeps of that afterwards
(`RegionCovered`), and how far the preload has come (`PreloadProgress`): of the
lines it has passed each is prefetched or `lost`. No theorem of the module asks
who shares memory with whom. Tasks that share none (`FramesApart` at every
state) lose nothing, and `ApartPreloaded` states `SectionPreloaded` for them
without the exception.

**Caches.** `SectionResident` is proved for any number of tasks on the core, any
number of sets and ways, any replacement policy and any other loads. `KernelInv`
adds to the invariants above that a row of a thread without a section is empty
(`Unregistered`), that no line of a section that INIT is about to grant is
prefetched (`NotYet`: INIT flushes each by address), and that `set1` counts the
sets up from that of the first line (`Counted`). Then a flush by set and way
touches the set of the line that comes in only, a flush by address only lines
that it also takes from the `prefetched` of every task that has them mapped,
and two lines of a section are in different sets. `OthersFit` says that the other open sections on
the core are such as the increments can serve; a section for which `set1` is
wrong flushes sets of which `spoiled` knows nothing, so the theorem could not
hold without it. On ARMv7 the property fails (`l2_flush`), which is why the
theorem is about ARMv8.

`ProbeInv` says that a line that entered the set since the PRIME leaves one of
the buffers' lines missing, at a way the PROBE has yet to come to while it has
counted nothing. `PrimeInv` says that PRIME has cleared the ways below its loop
variable. The word of each flush must name that way. `BaseAligned` is what the
code's allocation gives (buffers that begin at a multiple of their own size),
`ProgramElsewhere` that the program does not map the buffers.

The word of the L1 flush is put together by shifts, and the processor reads the
level, the set and the way from fields of it (`L1Cache!CleanInvalidate`).
`FlushNamesSet` says that it reads level 1 and the set, modulo the number of
sets: `set1` passes the last set when a section wraps around. It holds for every
length of a line and every number of sets. The number a field stands for is a
sum over its bits: `ModDouble` says what one further bit adds to a number modulo
a power of two, and the sum follows by induction over the bits. `FlushNamesWay`
says that the way is read as well. The processor takes it from the uppermost
bits, as many as number the ways, and the code always shifts it by 30: right for
four ways, wrong for two or eight, hence `FourWays`.

In the run a model is chosen at the start and the others stand still. The
invariants of SectionCache and PrimeProbe hold where theirs is chosen; elsewhere
no section is open (`SectionUse`) and nothing is measured (`NothingMeasured`).

**Codecs.** `MachineInv` says only that the machine holds a word of its program;
the work is in the lemmas. A left shift by a and a right shift by b of a word
cut out a field and place it (`ShiftsAreField`, `FieldInPlace`), so every
converter leaves each operand where the decoder looks for it, whatever the other
bits are: `RewrittenDecodes` and `RewriterAgrees` hold for every 32-bit word.
`RewrittenDecodes` compares the registers, the operation, the ARMv8 immediate and
the ARMv7 shift amount, and says of an ARMv7 immediate that it comes back exactly
when it is 0. The extension and `S` of an ARMv8 index and the type of an ARMv7
shift have no decoder; what follows from that is `ldr_addressing`.
`EmulatesNative` asks of a program's words what the dispatchers do with them
(`AsDispatched64/32`): on ARMv8 a 32-bit index shifted by two and neither
register named 31 where wzr would be meant, on ARMv7 a left shift, offset 0 and
no pc. What this excludes is `ldr_addressing` and the operands that pt_regs
reads differently. TLC evaluates the hypothesis for the words of the run
(`MCLdrFlush!LookupsAsDispatched`).

**Module.** `LifecycleInv` names what exists at each step of insmod and rmmod and
that a command in progress keeps the module there.

**Instrumentation.** The four properties hold for every set of programs of
clang's layout, with any number of functions, blocks, instructions and annotated
variables, also several in one function. `RunInv` is an invariant of the running program; what it needs of the
text is proved once, of whatever the pass and the scan compute. `InstrumentRight`
says what the pass makes of a function: init first, with the variable used first,
exit before the only return. `DisassemblyLaidOut` carries that over to
the lines (`LaidOut`): each function's lines follow each other, the library's
come last. `ScanContext` shows that the scan is in its context at exactly the
lines between the calls of a function, and `PatchedRight` that the loads there
which a converter takes are replaced, but under -optimize for a hit that follows
a marker: since the second flag is lowered by a hit only, a marker with no hit
between lies before it (`ScanHits`). What is
computed over sequences is defined by recursion (FlattenSeq, the scan): the
values of those functions are established from their equations by induction, in
the form that a set of numbers with 0 and closed under successor is all of Nat
(`AllNumbers`, from the least element of its complement), so that no operator has
to be passed to a theorem.

**Patching.** `PatchInv` is the three properties with `CallOK`, which says for
each place of a call what it holds: a reference in `old_page`, one in
`new_page`, the lock. `RefsBalanced` then balances because every action moves
references between a mapping and a local variable; `PatchedExactly` because a
copy made before the lock is only used if the page is still the one copied, and
the reference a call holds keeps that frame from coming back as another page.

**Libraries.** In `HandApi` the saved attributes lie in the caller, so what a
thread does is nobody else's: `SectionProtected` needs distinct rows only, and
`SchedRestored` nothing but attributes the kernel accepts. In `SbApi` they are
the process's: `SectionProtected` is proved for programs whose instrumented
functions do not call each other (`NoNesting`; otherwise `api_nested`) and whose
manual sections are used by one thread only (`FlagIsOwn`); `SchedRestored` for
one thread whose proc file can be opened and written (`Alone`). A thread may
find another thread's -1 in the descriptor at either test and at the write, or
open the file a second time: `AcceptedInv` is indifferent to it, because the
result of a command is 0 only when its bytes have reached the kernel. `NestInv` bounds what can be open at
once, `AcceptedInv` what the kernel holds while a command is under way,
`SchedInv` where the chosen attributes are at each place of a call.

`LibrariesProofs` ends with the three programs of the run. The one with manual
sections is an instance of SbApi with other constants. What is proved of such an instance
comes from a second copy of it, instantiated with the proofs (`F`): lemmas say that the initial states, the steps and the properties
of the two copies are the same (`SameInit`, `SameNext`, `SameProperties`), and
the hypotheses of the theorems are proved of the constants.

Only model-checked: `CallsReturn` and `CallReturns`, liveness properties under
fairness, which are out of the prover's reach. Every other property of a passing
run is stated by a theorem above.

## 6. Not modelled

* The contents of L2 (its flushes matter for what they do to L1), more than one
  core: a thread that moves takes `preload_flag` along and leaves its lines.
* Commands that reset the counter between the two reads of a dispatcher.
* PRIME and PROBE of an address that is not mapped, which take the -1 of the
  failed conversion for a set number.
* The ARMv7 page walk, which reports success for an absent section of memory.
* A trap in progress while the hook is removed; the selection of a cache and the
  read of its geometry in two instructions.
* The accounting of memory cgroups and of mapped pages in `__replace_page`, and
  the vma, which it uses without the lock that keeps it.
* The store handlers (disabled) and `lsr`-shifted or pc-relative ARMv7 loads.
* The forms a use of a variable has in LLVM's IR, and what the compiler's later
  passes do to the instrumented code, beyond reloads from the stack.
  `smokeBomb.cpp`, an earlier version of the pass, is not built
  (`CMakeLists.txt` names `test.cpp`).
* `mem_finder.py`, `cache-test/`, samples: experiments without a contract.

## 7. Plan

Done: the kernel module with its tables, traps, caches, commands, loading and
text patching; both libraries; the pass, the rewriter's scan and the codecs;
proofs of every safety property that a passing run checks.
Left: the ARMv7 page walk, as a variant of the conversion in SmokeBombLkm.

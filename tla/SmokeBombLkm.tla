----------------------------- MODULE SmokeBombLkm -----------------------------
(***************************************************************************)
(* The kernel module's section tables: INIT and EXIT (lkm/sb_lkm.c), the   *)
(* preload of the first trap (lkm/addr.c) and the cache half of an         *)
(* LDRFLUSH trap (arm64/insn.c).  Tasks run the handlers concurrently, no  *)
(* lock is taken, and every access to a table that another handler can see *)
(* is a step of its own.                                                   *)
(***************************************************************************)
EXTENDS CacheGeometry

CONSTANTS Tasks,       \* thread ids (current->pid)
          SB_MAX_PID,  \* rows of the tables
          PAGE_SIZE, Pages, Frames, \* user pages and the page frames behind them
          Requests,    \* the [dsva, deva] a program passes to INIT and EXIT
          Accesses,    \* the addresses its LDRFLUSH instructions load from
          GarbagePas,  \* what an uninitialised `pa' may hold
          Reclaimable  \* the pages that may be moved or paged out once mapped

VARIABLES sdata_region, \* slot -> [sva, eva, preload_flag]
          sdata_l1_arr, \* slot -> set index -> [set, va, pa]
          sdata_l2_arr,
          frame,        \* task -> page -> frame: the page tables
          prefetched,   \* task -> lines prefetched and not flushed by address
          lost,         \* task -> lines prefetched for it that a command of
                        \* another task has flushed (history of a section)
          ret,          \* task -> the ret field of its last command
          granted,      \* task -> the request of its open section
          pc, loc       \* task -> place in the handler, local variables

tables == <<sdata_region, sdata_l1_arr, sdata_l2_arr>>
vars == <<tables, frame, prefetched, lost, ret, granted, pc, loc>>

NoFrame == -1
NoRequest == [dsva |-> 0, deva |-> 0]
NoLocals == [q |-> NoRequest, va |-> 0, x |-> 0, pa |-> 0,
             set1 |-> 0, set2 |-> 0, va_z |-> 0]
NoData == [set |-> 0, va |-> 0, pa |-> 0]
NoRegion == [sva |-> 0, eva |-> 0, preload_flag |-> 0]

Slots == 0 .. (SB_MAX_PID - 1)
get_pid_idx(t) == t % SB_MAX_PID

(* A request never touches page 0: nothing is mapped there.                *)
ASSUME LkmAssumption ==
    /\ Tasks \subseteq Nat
    /\ SB_MAX_PID \in Nat \ {0}
    /\ PAGE_SIZE \in Nat \ {0} /\ (PAGE_SIZE % CACHE_LINE_SIZE) = 0
    /\ Pages \subseteq Nat \ {0} /\ Frames \subseteq Nat
    /\ Requests \subseteq [dsva : Nat, deva : Nat]
    /\ \A q \in Requests : q.dsva >= PAGE_SIZE /\ q.deva >= q.dsva
    /\ Accesses \subseteq Nat /\ \A x \in Accesses : x \div PAGE_SIZE \in Pages
    /\ GarbagePas \subseteq Nat
    /\ Reclaimable \subseteq Pages

-----------------------------------------------------------------------------
(* Address translation.                                                    *)

PageOf(va) == va \div PAGE_SIZE
Mapped(t, va) == PageOf(va) \in Pages /\ frame[t][PageOf(va)] # NoFrame
Pa(t, va) == frame[t][PageOf(va)] * PAGE_SIZE + (va % PAGE_SIZE)

(* `pa' after a call of sb_convert_va_to_pa whose result is ignored: on an *)
(* error the call does not write it.                                       *)
ConvertIgnored(t, va) == IF Mapped(t, va) THEN {Pa(t, va)} ELSE GarbagePas

(* PRFM is a hint: on an address without translation it does nothing.      *)
Prefetch(t, va) ==
    IF Mapped(t, va)
    THEN /\ prefetched' = [prefetched EXCEPT ![t] = @ \cup {va}]
         /\ lost' = [lost EXCEPT ![t] = @ \ {va}]
    ELSE UNCHANGED <<prefetched, lost>>

(* DC CIVAC of the addresses vas of t: a line leaves the cache for every   *)
(* task that has it mapped, under whichever address.                       *)
FlushedOf(u, t, vas) ==
    {va \in prefetched[u] :
        \E w \in vas : Mapped(t, w) /\ Mapped(u, va) /\ Pa(u, va) = Pa(t, w)}
Flush(t, vas) ==
    /\ prefetched' = [u \in Tasks |-> prefetched[u] \ FlushedOf(u, t, vas)]
    /\ lost' = [u \in Tasks |-> IF u = t THEN lost[u]
                                         ELSE lost[u] \cup FlushedOf(u, t, vas)]

Region(t) == sdata_region[get_pid_idx(t)]
At(t, label) == pc[t] = label
Goto(t, label) == pc' = [pc EXCEPT ![t] = label]
Return(t) == /\ Goto(t, "idle")
             /\ loc' = [loc EXCEPT ![t] = NoLocals]

(* ret lives in a struct smoke_bomb_cmd of one call (sb_api.c), where it   *)
(* starts as 0: what the last call returned is forgotten by the next one.  *)
NewCommand(t) == ret' = [ret EXCEPT ![t] = 0]

StoreRegion(t, field, val) ==
    sdata_region' = [sdata_region EXCEPT ![get_pid_idx(t)][field] = val]

Init ==
    /\ sdata_region = [s \in Slots |-> NoRegion]
    /\ sdata_l1_arr = [s \in Slots |-> [i \in 0 .. (SDATA_LINES - 1) |-> NoData]]
    /\ sdata_l2_arr = [s \in Slots |-> [i \in 0 .. (SDATA_LINES - 1) |-> NoData]]
    /\ frame = [t \in Tasks |-> [p \in Pages |-> NoFrame]]
    /\ prefetched = [t \in Tasks |-> {}]
    /\ lost = [t \in Tasks |-> {}]
    /\ ret = [t \in Tasks |-> 0]
    /\ granted = [t \in Tasks |-> NoRequest]
    /\ pc = [t \in Tasks |-> "idle"]
    /\ loc = [t \in Tasks |-> NoLocals]

-----------------------------------------------------------------------------
(* SMOKE_BOMB_CMD_INIT: smoke_bomb_cmd_init, smoke_bomb_init_sdata.        *)

InitRefuse(t) ==
    /\ At(t, "idle")
    /\ Region(t).sva # 0
    /\ ret' = [ret EXCEPT ![t] = -1]
    /\ UNCHANGED <<tables, frame, prefetched, lost, granted, pc, loc>>

(* Mutant: INIT does not look for an earlier registration.                 *)
InitAcceptUnchecked(t, q) ==
    /\ At(t, "idle")
    /\ loc' = [loc EXCEPT ![t] = [@ EXCEPT !.q = q, !.va = LineOf(q.dsva)]]
    /\ Goto(t, "init_line")
    /\ NewCommand(t)
    /\ UNCHANGED <<tables, frame, prefetched, lost, granted>>

InitAccept(t, q) ==
    /\ At(t, "idle")
    /\ Region(t).sva = 0
    /\ loc' = [loc EXCEPT ![t] = [@ EXCEPT !.q = q, !.va = LineOf(q.dsva)]]
    /\ Goto(t, "init_line")
    /\ NewCommand(t)
    /\ UNCHANGED <<tables, frame, prefetched, lost, granted>>

(* The body of the loop, with the two set numbers it computed.  Of an      *)
(* entry other handlers read the field va only, so its stores are one step.*)
InitLineAt(t, set1, set2) ==
    LET va == loc[t].va
        s == get_pid_idx(t)
        Data(set) == [set |-> set, va |-> va, pa |-> Pa(t, va)]
    IN /\ At(t, "init_line")
       /\ va < LineOf(loc[t].q.deva)
       /\ Mapped(t, va)
       /\ Flush(t, {va})
       /\ sdata_l1_arr' = [sdata_l1_arr EXCEPT ![s][set1] = Data(set1)]
       /\ sdata_l2_arr' = [sdata_l2_arr EXCEPT ![s][set2] = Data(set2)]
       /\ loc' = [loc EXCEPT ![t].va = va + CACHE_LINE_SIZE]
       /\ UNCHANGED <<sdata_region, frame, ret, granted, pc>>

(* Mutants: both tables indexed by the L1 set; the sets of the virtual     *)
(* address.                                                                *)
InitLineWrongTable(t) ==
    InitLineAt(t, L1SetIdx(Pa(t, loc[t].va)), L1SetIdx(Pa(t, loc[t].va)))
InitLineByVa(t) == InitLineAt(t, L1SetIdx(loc[t].va), L2SetIdx(loc[t].va))

InitLine(t) ==
    InitLineAt(t, L1SetIdx(Pa(t, loc[t].va)), L2SetIdx(Pa(t, loc[t].va)))

(* The lines already entered stay in the tables.                           *)
InitLineFails(t) ==
    /\ At(t, "init_line")
    /\ loc[t].va < LineOf(loc[t].q.deva)
    /\ ~Mapped(t, loc[t].va)
    /\ ret' = [ret EXCEPT ![t] = -1]
    /\ Return(t)
    /\ UNCHANGED <<tables, frame, prefetched, lost, granted>>

InitStoreSva(t) ==
    /\ At(t, "init_line")
    /\ loc[t].va >= LineOf(loc[t].q.deva)
    /\ StoreRegion(t, "sva", LineOf(loc[t].q.dsva))
    /\ Goto(t, "init_eva")
    /\ UNCHANGED <<sdata_l1_arr, sdata_l2_arr, frame, prefetched, lost, ret, granted, loc>>

InitStoreEva(t) ==
    /\ At(t, "init_eva")
    /\ StoreRegion(t, "eva", LineOf(loc[t].q.deva))
    /\ Goto(t, "init_flag")
    /\ UNCHANGED <<sdata_l1_arr, sdata_l2_arr, frame, prefetched, lost, ret, granted, loc>>

InitStoreFlag(t) ==
    /\ At(t, "init_flag")
    /\ StoreRegion(t, "preload_flag", 0)
    /\ ret' = [ret EXCEPT ![t] = 0]
    /\ granted' = [granted EXCEPT ![t] = loc[t].q]
    /\ lost' = [lost EXCEPT ![t] = {}]
    /\ Return(t)
    /\ UNCHANGED <<sdata_l1_arr, sdata_l2_arr, frame, prefetched>>

-----------------------------------------------------------------------------
(* SMOKE_BOMB_CMD_EXIT: smoke_bomb_flush, smoke_bomb_init_sdata_arr.       *)

ExitFlush(t, q) ==
    /\ At(t, "idle")
    /\ Flush(t, Lines(LineOf(q.dsva), LineOf(q.deva)))
    /\ granted' = [granted EXCEPT ![t] = NoRequest]
    /\ Goto(t, "exit_sva")
    /\ NewCommand(t)
    /\ UNCHANGED <<tables, frame, loc>>

(* Mutant: a slot freed with the mark -1.                                  *)
ExitStoreMinusOne(t) ==
    /\ At(t, "exit_sva")
    /\ StoreRegion(t, "sva", -1)
    /\ Goto(t, "exit_eva")
    /\ UNCHANGED <<sdata_l1_arr, sdata_l2_arr, frame, prefetched, lost, ret, granted, loc>>

ExitStoreSva(t) ==
    /\ At(t, "exit_sva")
    /\ StoreRegion(t, "sva", 0)
    /\ Goto(t, "exit_eva")
    /\ UNCHANGED <<sdata_l1_arr, sdata_l2_arr, frame, prefetched, lost, ret, granted, loc>>

(* Mutant: EXIT leaves the end of the region.                              *)
ExitKeepEva(t) ==
    /\ At(t, "exit_eva")
    /\ Goto(t, "exit_flag")
    /\ UNCHANGED <<tables, frame, prefetched, lost, ret, granted, loc>>

ExitStoreEva(t) ==
    /\ At(t, "exit_eva")
    /\ StoreRegion(t, "eva", 0)
    /\ Goto(t, "exit_flag")
    /\ UNCHANGED <<sdata_l1_arr, sdata_l2_arr, frame, prefetched, lost, ret, granted, loc>>

ExitStoreFlag(t) ==
    /\ At(t, "exit_flag")
    /\ StoreRegion(t, "preload_flag", 0)
    /\ ret' = [ret EXCEPT ![t] = 0]
    /\ Return(t)
    /\ UNCHANGED <<sdata_l1_arr, sdata_l2_arr, frame, prefetched, lost, granted>>

-----------------------------------------------------------------------------
(* An LDRFLUSH instruction traps: smoke_bomb_ex_handler calls sb_preload.  *)

Trap(t, x) ==
    /\ At(t, "idle")
    /\ loc' = [loc EXCEPT ![t].x = x]
    /\ Goto(t, "preload")
    /\ NewCommand(t)
    /\ UNCHANGED <<tables, frame, prefetched, lost, granted>>

PreloadSkip(t) ==
    /\ At(t, "preload")
    /\ Region(t).preload_flag # 0
    /\ Goto(t, "load")
    /\ UNCHANGED <<tables, frame, prefetched, lost, ret, granted, loc>>

PreloadNeeded(t) ==
    /\ At(t, "preload")
    /\ Region(t).preload_flag = 0
    /\ Goto(t, "preload_sets")
    /\ UNCHANGED <<tables, frame, prefetched, lost, ret, granted, loc>>

(* The set numbers come from the first line of the region only.            *)
PreloadSets(t) ==
    /\ At(t, "preload_sets")
    /\ \E pa \in ConvertIgnored(t, Region(t).sva) :
          loc' = [loc EXCEPT ![t] = [@ EXCEPT !.set1 = L1SetIdx(pa), !.set2 = L2SetIdx(pa)]]
    /\ Goto(t, "preload_first")
    /\ UNCHANGED <<tables, frame, prefetched, lost, ret, granted>>

(* Mutant: the preload starts at the second line.                          *)
PreloadSecond(t) ==
    /\ At(t, "preload_first")
    /\ loc' = [loc EXCEPT ![t].va = Region(t).sva + CACHE_LINE_SIZE]
    /\ Goto(t, "preload_line")
    /\ UNCHANGED <<tables, frame, prefetched, lost, ret, granted>>

PreloadFirst(t) ==
    /\ At(t, "preload_first")
    /\ loc' = [loc EXCEPT ![t].va = Region(t).sva]
    /\ Goto(t, "preload_line")
    /\ UNCHANGED <<tables, frame, prefetched, lost, ret, granted>>

(* Mutant: the preload loop forgets to advance.                            *)
PreloadSameLine(t) ==
    /\ At(t, "preload_line")
    /\ loc[t].va < Region(t).eva
    /\ Prefetch(t, loc[t].va)
    /\ UNCHANGED <<tables, frame, ret, granted, pc, loc>>

(* Flush way ways-1 of L1 set1 and of L2 set2, prefetch, flush L2 again.   *)
PreloadLine(t) ==
    /\ At(t, "preload_line")
    /\ loc[t].va < Region(t).eva
    /\ Prefetch(t, loc[t].va)
    /\ loc' = [loc EXCEPT ![t] = [@ EXCEPT !.va = loc[t].va + CACHE_LINE_SIZE,
                                           !.set1 = loc[t].set1 + 1,
                                           !.set2 = loc[t].set2 + 1]]
    /\ UNCHANGED <<tables, frame, ret, granted, pc>>

PreloadEnd(t) ==
    /\ At(t, "preload_line")
    /\ loc[t].va >= Region(t).eva
    /\ Goto(t, "preload_done")
    /\ UNCHANGED <<tables, frame, prefetched, lost, ret, granted, loc>>

PreloadDone(t) ==
    /\ At(t, "preload_done")
    /\ StoreRegion(t, "preload_flag", 1)
    /\ Goto(t, "load")
    /\ UNCHANGED <<sdata_l1_arr, sdata_l2_arr, frame, prefetched, lost, ret, granted, loc>>

-----------------------------------------------------------------------------
(* dispatch_ldr32_reg and dispatch_ldr32_imm after the address is decoded. *)
(* The refill count of the PMU tells a hit from a miss; either may happen. *)

LoadHit(t) ==
    /\ At(t, "load")
    /\ Mapped(t, loc[t].x)
    /\ Return(t)
    /\ UNCHANGED <<tables, frame, prefetched, lost, ret, granted>>

LoadMiss(t) ==
    /\ At(t, "load")
    /\ Mapped(t, loc[t].x)
    /\ Goto(t, "lookup")
    /\ UNCHANGED <<tables, frame, prefetched, lost, ret, granted, loc>>

LookupZ(t) ==
    /\ At(t, "lookup")
    /\ \E pa \in ConvertIgnored(t, loc[t].x) :
          loc' = [loc EXCEPT ![t] = [@ EXCEPT
                     !.pa = pa, !.set2 = L2SetIdx(pa),
                     !.va_z = sdata_l2_arr[get_pid_idx(t)][L2SetIdx(pa)].va]]
    /\ Goto(t, "check_z")
    /\ UNCHANGED <<tables, frame, prefetched, lost, ret, granted>>

(* The entry is read a second time for the test.                           *)
LookupUnrelated(t) ==
    /\ At(t, "check_z")
    /\ sdata_l2_arr[get_pid_idx(t)][loc[t].set2].va = 0
    /\ Return(t)
    /\ UNCHANGED <<tables, frame, prefetched, lost, ret, granted>>

LookupRelated(t) ==
    /\ At(t, "check_z")
    /\ sdata_l2_arr[get_pid_idx(t)][loc[t].set2].va # 0
    /\ loc' = [loc EXCEPT ![t].set1 = L1SetIdx(loc[t].pa)]
    /\ Goto(t, "refill")
    /\ UNCHANGED <<tables, frame, prefetched, lost, ret, granted>>

Refill(t) ==
    /\ At(t, "refill")
    /\ Prefetch(t, loc[t].va_z)
    /\ Return(t)
    /\ UNCHANGED <<tables, frame, ret, granted>>

-----------------------------------------------------------------------------
(* The kernel's memory manager, as far as the module can see it.           *)

(* Any page may get any frame: threads of one process have the pages of a  *)
(* variable in common, processes those of a file.  That a page comes to    *)
(* all threads of a process at once is not asked for.                      *)
PageIn(t, p, f) ==
    /\ frame[t][p] = NoFrame
    /\ frame' = [frame EXCEPT ![t][p] = f]
    /\ UNCHANGED <<tables, prefetched, lost, ret, granted, pc, loc>>

PageOut(t, p) ==
    /\ frame[t][p] # NoFrame
    /\ frame' = [frame EXCEPT ![t][p] = NoFrame]
    /\ prefetched' = [prefetched EXCEPT ![t] = {va \in @ : PageOf(va) # p}]
    /\ UNCHANGED <<tables, lost, ret, granted, pc, loc>>

Handler(t) ==
    \/ InitLine(t) \/ InitLineFails(t)
    \/ InitStoreSva(t) \/ InitStoreEva(t) \/ InitStoreFlag(t)
    \/ ExitStoreSva(t) \/ ExitStoreEva(t) \/ ExitStoreFlag(t)
    \/ PreloadSkip(t) \/ PreloadNeeded(t) \/ PreloadSets(t)
    \/ PreloadFirst(t) \/ PreloadLine(t) \/ PreloadEnd(t) \/ PreloadDone(t)
    \/ LoadHit(t) \/ LoadMiss(t)
    \/ LookupZ(t) \/ LookupUnrelated(t) \/ LookupRelated(t) \/ Refill(t)

User(t) ==
    \/ InitRefuse(t)
    \/ \E q \in Requests : InitAccept(t, q) \/ ExitFlush(t, q)
    \/ \E x \in Accesses : Trap(t, x)

Memory(t) ==
    \/ \E p \in Pages, f \in Frames : PageIn(t, p, f)
    \/ \E p \in Reclaimable : PageOut(t, p)

Next == \E t \in Tasks : User(t) \/ Handler(t) \/ Memory(t)

Spec == Init /\ [][Next]_vars

(* A load of an unmapped word faults and the page is brought in.           *)
FaultIn(t) ==
    /\ At(t, "load")
    /\ \E f \in Frames : PageIn(t, PageOf(loc[t].x), f)

-----------------------------------------------------------------------------
(* Properties.                                                             *)

Labels == {"idle", "init_line", "init_eva", "init_flag",
           "exit_sva", "exit_eva", "exit_flag",
           "preload", "preload_sets", "preload_first", "preload_line", "preload_done",
           "load", "lookup", "check_z", "refill"}

Indices == 0 .. (SDATA_LINES - 1)
Datas == [set : Nat, va : Nat, pa : Nat]
Locals == [q : Requests \cup {NoRequest}, va : Nat, x : Nat, pa : Nat,
           set1 : Nat, set2 : Nat, va_z : Nat]

(* The values of every variable, and the two indices into sdata_l2_arr    *)
(* that LookupZ and the test after it use stay inside the table.           *)
TypeOK ==
    /\ sdata_region \in [Slots -> [sva : Nat, eva : Nat, preload_flag : {0, 1}]]
    /\ sdata_l1_arr \in [Slots -> [Indices -> Datas]]
    /\ sdata_l2_arr \in [Slots -> [Indices -> Datas]]
    /\ frame \in [Tasks -> [Pages -> Frames \cup {NoFrame}]]
    /\ prefetched \in [Tasks -> SUBSET Nat]
    /\ lost \in [Tasks -> SUBSET Nat]
    /\ ret \in [Tasks -> {-1, 0}]
    /\ granted \in [Tasks -> Requests \cup {NoRequest}]
    /\ pc \in [Tasks -> Labels]
    /\ loc \in [Tasks -> Locals]
    /\ \A t \in Tasks : At(t, "check_z") => loc[t].set2 \in Indices

(* A task between INIT and EXIT, as its own calls tell it.                 *)
Open(t) == granted[t] # NoRequest
RegionLines(t) == Lines(Region(t).sva, Region(t).eva)
Loading(t) == pc[t] \in {"load", "lookup", "check_z", "refill"}

(* No two threads share a row of the tables.                               *)
SlotsDistinct == \A t, u \in Tasks : get_pid_idx(t) = get_pid_idx(u) => t = u

(* While a section is open, the region the trap handler works on is the    *)
(* range the task's INIT was granted: a registration is not torn, replaced *)
(* or dropped by another handler (sb_lkm.c:58-105, :140).                  *)
OpenOwnsRegion ==
    \A t \in Tasks : Open(t) =>
        /\ Region(t).sva = LineOf(granted[t].dsva)
        /\ Region(t).eva = LineOf(granted[t].deva)

(* An emulated load of an open section finds every line of the section     *)
(* prefetched, but for the lines that INIT or EXIT of another task has     *)
(* flushed since then (sb_lkm.c:65, :123 flush the memory, whoever has it  *)
(* mapped): preload_flag stays 1 and nothing prefetches those again, a     *)
(* refill by Refill apart (addr.c:142-163).                                *)
SectionPreloaded ==
    \A t \in Tasks : Open(t) /\ Loading(t) =>
        RegionLines(t) \subseteq prefetched[t] \cup lost[t]

(* The L2 table of an open section answers for every line of the section:  *)
(* the entry of the line's set names a line of the section, that line or a *)
(* later one of the same set (sb_lkm.c:64-84).                             *)
SectionCovered ==
    \A t \in Tasks : Open(t) =>
        \A va \in RegionLines(t) :
            LET z == sdata_l2_arr[get_pid_idx(t)][L2SetIdx(Pa(t, va))].va
            IN z \in RegionLines(t) /\ z >= va

(* "Z (ptr_z) : pre-loaded data of which set is the same as X"             *)
(* (insn.c:135): the line a miss prefetches lies in the L2 set and in the  *)
(* L1 set that the handler flushes for it (insn.c:157-167).                *)
RefillSameSet ==
    \A t \in Tasks : At(t, "refill") =>
        /\ Mapped(t, loc[t].va_z)
        /\ L2SetIdx(Pa(t, loc[t].va_z)) = loc[t].set2
        /\ L1SetIdx(Pa(t, loc[t].va_z)) = loc[t].set1

(* The abstract registry this module implements: a slot is held from the   *)
(* store of eva on, when both ends of the region are there.                *)
Ranges == {[sva |-> LineOf(q.dsva), eva |-> LineOf(q.deva)] : q \in Requests}
Free == [sva |-> 0, eva |-> 0]
HeldOf(r) == IF r.sva = 0 \/ r.eva = 0 THEN Free ELSE [sva |-> r.sva, eva |-> r.eva]
Registry == INSTANCE SlotRegistry WITH held <- [s \in Slots |-> HeldOf(sdata_region[s])]

(* Registrations follow the registry's protocol: a slot takes one whole    *)
(* granted range while free and gives it up whole (sb_lkm.c:40-45, 58-62,  *)
(* 103-105).                                                               *)
RegistrySpec == Registry!Spec

(* A row changes hands only through EXIT: two threads never have a section *)
(* open on the same row ("duplicated pid!!", sb_lkm.c:60).                 *)
NoDuplicateGrant ==
    \A t, u \in Tasks : Open(t) /\ Open(u) /\ get_pid_idx(t) = get_pid_idx(u) => t = u

(* A miss inside an open section refills a line of that section: Z is data *)
(* the section preloaded (insn.c:135, sb_lkm.c:40-45).                     *)
RefillFromSection ==
    \A t \in Tasks : Open(t) /\ At(t, "refill") => loc[t].va_z \in RegionLines(t)
=============================================================================

------------------------------- MODULE PatchUser -------------------------------
(***************************************************************************)
(* The kernel module rewriting a program's text in memory: patch_user_-    *)
(* memory and the functions below it (arm64/patch.c, arm/patch.c), which   *)
(* smoke_bomb_cmd_init would call.  A word is changed by putting a copy of *)
(* its page in the place of the page.  Threads of one program patch        *)
(* ranges of its text concurrently while the kernel moves and migrates    *)
(* pages; the page lock and the count of references are all that keeps     *)
(* them apart.                                                             *)
(***************************************************************************)
EXTENDS Integers, FiniteSets

CONSTANTS Patchers,
          WORDS_PER_PAGE, TextPages, \* the text: addresses count words
          Loads,       \* words that convert_insn_to_sb_insn converts
          Ranges,      \* the [sva, eva] a call is given
          Frames,      \* page frames
          TextHome,    \* where the text lies at first
          MaxMoves     \* how often the kernel unmaps or moves a page

VARIABLES home,        \* page of the text -> frame that holds it
          mapped,      \* page of the text -> does its pte name that frame?
          patched,     \* frame -> words of its page that are LDRFLUSH
          count,       \* frame -> references to it
          locked,      \* frame -> thread that holds the page lock
          moves,       \* how often the kernel has unmapped or moved a page
          pc, loc      \* thread -> place in the call, local variables

vars == <<home, mapped, patched, count, locked, moves, pc, loc>>

EAGAIN == -11
Nobody == "nobody"
NoFrame == -1
NoLocals == [ptr |-> 0, range |-> [sva |-> 0, eva |-> -1], ret |-> 0,
             old_page |-> NoFrame, new_page |-> NoFrame]

PageOf(w) == w \div WORDS_PER_PAGE

ASSUME PatchAssumption ==
    /\ WORDS_PER_PAGE \in Nat \ {0}
    /\ IsFiniteSet(Patchers) /\ IsFiniteSet(TextPages)
    /\ TextPages \subseteq Nat /\ Frames \subseteq Nat /\ Loads \subseteq Nat
    /\ Ranges \subseteq [sva : Nat, eva : Nat]
    /\ \A r \in Ranges : \A w \in r.sva .. r.eva : PageOf(w) \in TextPages
    /\ Nobody \notin Patchers
    /\ TextHome \in [TextPages -> Frames]
    /\ \A p, q \in TextPages : TextHome[p] = TextHome[q] => p = q
    /\ MaxMoves \in Nat

At(t, label) == pc[t] = label
Goto(t, label) == pc' = [pc EXCEPT ![t] = label]
ptr(t) == loc[t].ptr
Page(t) == PageOf(ptr(t))
Put(counts, f) == [counts EXCEPT ![f] = @ - 1]
Get(counts, f) == [counts EXCEPT ![f] = @ + 1]
Unused == {f \in Frames : count[f] = 0}

(* Is convert_insn_to_sb_insn of the word 0?  An LDRFLUSH is not a load.   *)
Convertible(t) == ptr(t) \in Loads \ patched[home[Page(t)]]

Init == /\ home = TextHome
        /\ mapped = [p \in TextPages |-> TRUE]
        /\ patched = [f \in Frames |-> {}]
        /\ count = [f \in Frames |-> Cardinality({p \in TextPages : TextHome[p] = f})]
        /\ locked = [f \in Frames |-> Nobody]
        /\ moves = 0
        /\ pc = [t \in Patchers |-> "user"]
        /\ loc = [t \in Patchers |-> NoLocals]

-----------------------------------------------------------------------------
(* patch_user_memory: every word from sva to eva, both included.           *)

Call(t, range) ==
    /\ At(t, "user")
    /\ loc' = [loc EXCEPT ![t] = [@ EXCEPT !.ptr = range.sva, !.range = range]]
    /\ Goto(t, "word")
    /\ UNCHANGED <<home, mapped, patched, count, locked, moves>>

(* Reading *ptr brings the page in.                                        *)
SkipWord(t) ==
    /\ At(t, "word") /\ ptr(t) <= loc[t].range.eva
    /\ ~Convertible(t)
    /\ mapped' = [mapped EXCEPT ![Page(t)] = TRUE]
    /\ loc' = [loc EXCEPT ![t].ptr = @ + 1]
    /\ UNCHANGED <<home, patched, count, locked, pc, moves>>

ConvertWord(t) ==
    /\ At(t, "word") /\ ptr(t) <= loc[t].range.eva
    /\ Convertible(t)
    /\ mapped' = [mapped EXCEPT ![Page(t)] = TRUE]
    /\ Goto(t, "get_user_pages")
    /\ UNCHANGED <<home, patched, count, locked, loc, moves>>

Finish(t) ==
    /\ At(t, "word") /\ ptr(t) > loc[t].range.eva
    /\ Goto(t, "returned")
    /\ UNCHANGED <<home, mapped, patched, count, locked, loc, moves>>

-----------------------------------------------------------------------------
(* write_opcode.                                                           *)

GetUserPages(t) ==
    /\ At(t, "get_user_pages")
    /\ mapped' = [mapped EXCEPT ![Page(t)] = TRUE]
    /\ loc' = [loc EXCEPT ![t].old_page = home[Page(t)]]
    /\ count' = Get(count, home[Page(t)])
    /\ Goto(t, "alloc_page")
    /\ UNCHANGED <<home, patched, locked, moves>>

(* patch_user_memory gives up at the first word that fails; the words      *)
(* before it stay rewritten.                                               *)
GetUserPagesFails(t) ==
    /\ At(t, "get_user_pages")
    /\ loc' = [loc EXCEPT ![t].ret = -1]
    /\ Goto(t, "returned")
    /\ UNCHANGED <<home, mapped, patched, count, locked, moves>>

(* Mutant: the error return forgets the page it pinned.                    *)
AllocFailsKeepsOld(t) ==
    /\ At(t, "alloc_page")
    /\ loc' = [loc EXCEPT ![t] = [@ EXCEPT !.ret = -1, !.old_page = NoFrame]]
    /\ Goto(t, "returned")
    /\ UNCHANGED <<home, mapped, patched, count, locked, moves>>

(* anon_vma_prepare or the allocation fails.                               *)
AllocFails(t) ==
    /\ At(t, "alloc_page")
    /\ loc' = [loc EXCEPT ![t].ret = -1]
    /\ Goto(t, "put_old")
    /\ UNCHANGED <<home, mapped, patched, count, locked, moves>>

(* The copy of the page with the opcode in it.                             *)
CopyPage(t) ==
    /\ At(t, "alloc_page")
    /\ \E f \in Unused :
          /\ loc' = [loc EXCEPT ![t].new_page = f]
          /\ count' = Get(count, f)
          /\ patched' = [patched EXCEPT ![f] = patched[loc[t].old_page] \cup {ptr(t)}]
    /\ Goto(t, "charge")
    /\ UNCHANGED <<home, mapped, locked, moves>>

PutNew(t) ==
    /\ At(t, "put_new")
    /\ count' = Put(count, loc[t].new_page)
    /\ loc' = [loc EXCEPT ![t].new_page = NoFrame]
    /\ Goto(t, "put_old")
    /\ UNCHANGED <<home, mapped, patched, locked, moves>>

(* The reference to the old page is given back; -EAGAIN starts over, 0     *)
(* goes on with the next word, another error ends the call.                *)
PutOld(t) ==
    /\ At(t, "put_old")
    /\ count' = Put(count, loc[t].old_page)
    /\ \/ /\ loc[t].ret = EAGAIN
          /\ loc' = [loc EXCEPT ![t] = [@ EXCEPT !.old_page = NoFrame, !.ret = 0]]
          /\ Goto(t, "get_user_pages")
       \/ /\ loc[t].ret = 0
          /\ loc' = [loc EXCEPT ![t] = [@ EXCEPT !.old_page = NoFrame, !.ptr = ptr(t) + 1]]
          /\ Goto(t, "word")
       \/ /\ loc[t].ret = -1
          /\ loc' = [loc EXCEPT ![t].old_page = NoFrame]
          /\ Goto(t, "returned")
    /\ UNCHANGED <<home, mapped, patched, locked, moves>>

-----------------------------------------------------------------------------
(* __replace_page.                                                         *)

ChargeFails(t) ==
    /\ At(t, "charge")
    /\ loc' = [loc EXCEPT ![t].ret = -1]
    /\ Goto(t, "put_new")
    /\ UNCHANGED <<home, mapped, patched, count, locked, moves>>

Charge(t) ==
    /\ At(t, "charge")
    /\ Goto(t, "lock_page")
    /\ UNCHANGED <<home, mapped, patched, count, locked, loc, moves>>

LockPage(t) ==
    /\ At(t, "lock_page")
    /\ locked[loc[t].old_page] = Nobody
    /\ locked' = [locked EXCEPT ![loc[t].old_page] = t]
    /\ Goto(t, "check_address")
    /\ UNCHANGED <<home, mapped, patched, count, loc, moves>>

(* page_check_address: does the pte still name the old page?               *)
StillThere(t) == mapped[Page(t)] /\ home[Page(t)] = loc[t].old_page

(* Mutant: the pte is replaced without looking at it.                      *)
ReplaceUnchecked(t) ==
    /\ At(t, "check_address")
    /\ home' = [home EXCEPT ![Page(t)] = loc[t].new_page]
    /\ count' = Put(Get(count, loc[t].new_page), home[Page(t)])
    /\ loc' = [loc EXCEPT ![t].ret = 0]
    /\ Goto(t, "unlock")
    /\ UNCHANGED <<mapped, patched, locked, moves>>

(* Under the lock of the page table: the pte names the new page, the       *)
(* mapping's reference moves from the old page to the new one.             *)
Replace(t) ==
    /\ At(t, "check_address")
    /\ StillThere(t)
    /\ home' = [home EXCEPT ![Page(t)] = loc[t].new_page]
    /\ count' = Put(Get(count, loc[t].new_page), loc[t].old_page)
    /\ loc' = [loc EXCEPT ![t].ret = 0]
    /\ Goto(t, "unlock")
    /\ UNCHANGED <<mapped, patched, locked, moves>>

(* Mutant: the reference of the mapping is put although the page is gone.  *)
ReplaceAgainPuts(t) ==
    /\ At(t, "check_address")
    /\ ~StillThere(t)
    /\ count' = Put(count, loc[t].old_page)
    /\ loc' = [loc EXCEPT ![t].ret = EAGAIN]
    /\ Goto(t, "unlock")
    /\ UNCHANGED <<home, mapped, patched, locked, moves>>

ReplaceAgain(t) ==
    /\ At(t, "check_address")
    /\ ~StillThere(t)
    /\ loc' = [loc EXCEPT ![t].ret = EAGAIN]
    /\ Goto(t, "unlock")
    /\ UNCHANGED <<home, mapped, patched, count, locked, moves>>

(* Mutant: only the successful path unlocks the page.                      *)
UnlockReplaced(t) ==
    /\ At(t, "unlock")
    /\ locked' = IF loc[t].ret = 0 THEN [locked EXCEPT ![loc[t].old_page] = Nobody] ELSE locked
    /\ Goto(t, "put_new")
    /\ UNCHANGED <<home, mapped, patched, count, loc, moves>>

UnlockPage(t) ==
    /\ At(t, "unlock")
    /\ locked' = [locked EXCEPT ![loc[t].old_page] = Nobody]
    /\ Goto(t, "put_new")
    /\ UNCHANGED <<home, mapped, patched, count, loc, moves>>

-----------------------------------------------------------------------------
(* The kernel's memory manager.                                            *)

(* An unmapped page waits in the page or the swap cache, which takes over  *)
(* the mapping's reference.                                                *)
Unmap(p) ==
    /\ mapped[p] /\ locked[home[p]] = Nobody
    /\ moves < MaxMoves
    /\ moves' = moves + 1
    /\ mapped' = [mapped EXCEPT ![p] = FALSE]
    /\ UNCHANGED <<home, patched, count, locked, pc, loc>>

(* A page nobody else refers to moves to another frame.                    *)
Migrate(p) ==
    /\ count[home[p]] = 1 /\ locked[home[p]] = Nobody
    /\ moves < MaxMoves
    /\ moves' = moves + 1
    /\ \E f \in Unused :
          /\ home' = [home EXCEPT ![p] = f]
          /\ patched' = [patched EXCEPT ![f] = patched[home[p]]]
          /\ count' = Put(Get(count, f), home[p])
    /\ UNCHANGED <<mapped, locked, pc, loc>>

-----------------------------------------------------------------------------
ReplacePage(t) ==
    \/ Charge(t) \/ ChargeFails(t) \/ LockPage(t)
    \/ Replace(t) \/ ReplaceAgain(t) \/ UnlockPage(t)

WriteOpcode(t) ==
    \/ GetUserPages(t) \/ GetUserPagesFails(t) \/ AllocFails(t) \/ CopyPage(t)
    \/ ReplacePage(t) \/ PutNew(t) \/ PutOld(t)

PatchUserMemory(t) == SkipWord(t) \/ ConvertWord(t) \/ WriteOpcode(t) \/ Finish(t)

Next == \/ \E t \in Patchers : PatchUserMemory(t) \/ \E r \in Ranges : Call(t, r)
        \/ \E p \in TextPages : Unmap(p) \/ Migrate(p)

Spec == Init /\ [][Next]_vars

(* A thread in the kernel keeps running.                                   *)
FairSpec == Spec /\ \A t \in Patchers : WF_vars(PatchUserMemory(t))

-----------------------------------------------------------------------------
(* Properties.                                                             *)

Labels == {"user", "word", "get_user_pages", "alloc_page", "charge", "lock_page", "check_address",
           "unlock", "put_new", "put_old", "returned"}

(* The values of every variable; a count is never negative.                *)
TypeOK ==
    /\ home \in [TextPages -> Frames]
    /\ mapped \in [TextPages -> BOOLEAN]
    /\ patched \in [Frames -> SUBSET Loads]
    /\ count \in [Frames -> Nat]
    /\ locked \in [Frames -> Patchers \cup {Nobody}]
    /\ moves \in 0 .. MaxMoves
    /\ pc \in [Patchers -> Labels]
    /\ \A t \in Patchers : /\ ptr(t) \in Nat
                          /\ {loc[t].old_page, loc[t].new_page} \subseteq Frames \cup {NoFrame}
                          /\ loc[t].ret \in {0, -1, EAGAIN}

(* Every reference is the one of a mapping or of a local variable that     *)
(* will be put: no page leaks on an error or a retry, and none is freed    *)
(* while the program or a call uses it (arm64/patch.c:179-203, 140-168).   *)
RefsBalanced ==
    \A f \in Frames :
        count[f] = Cardinality({p \in TextPages : home[p] = f})
                     + Cardinality({t \in Patchers : loc[t].old_page = f})
                     + Cardinality({t \in Patchers : loc[t].new_page = f})

(* What the calls have rewritten: the loads they have passed, and maybe    *)
(* the one they are at.                                                    *)
Passed(t) == loc[t].range.sva .. (ptr(t) - 1)
Reached(t) == IF pc[t] \in {"unlock", "put_new", "put_old"} /\ loc[t].ret = 0
              THEN Passed(t) \cup {ptr(t)} ELSE Passed(t)

(* The program's text has LDRFLUSH exactly where a call has passed a load: *)
(* a page replaced between another call's copy and its swap loses nothing, *)
(* and a call that fails leaves whole words behind (arm64/patch.c:171-231).*)
PatchedExactly ==
    LET reached == UNION {Reached(t) : t \in Patchers}
    IN \A p \in TextPages :
          patched[home[p]] = {w \in Loads \cap reached : PageOf(w) = p}

(* Every call returns, whatever pages move under it: a lock taken for a    *)
(* swap that fails is given back (arm64/patch.c:135-138, 164-167, 201).    *)
CallReturns == \A t \in Patchers : At(t, "word") ~> At(t, "returned")
=============================================================================

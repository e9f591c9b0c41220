--------------------------- MODULE PatchUserProofs ---------------------------
(***************************************************************************)
(* Patching text in memory: references balance and every load a call has  *)
(* passed is rewritten, for any number of threads, pages and frames and    *)
(* however often the kernel moves pages.                                   *)
(***************************************************************************)
EXTENDS PatchUser, FiniteSetTheorems, TLAPS

-----------------------------------------------------------------------------
(* The inductive invariant.                                                *)

LocalTypes == [ptr : Nat, range : [sva : Nat, eva : Int], ret : {0, -1, EAGAIN},
               old_page : Frames \cup {NoFrame}, new_page : Frames \cup {NoFrame}]

PatchType ==
    /\ home \in [TextPages -> Frames]
    /\ mapped \in [TextPages -> BOOLEAN]
    /\ patched \in [Frames -> SUBSET Loads]
    /\ count \in [Frames -> Nat]
    /\ locked \in [Frames -> Patchers \cup {Nobody}]
    /\ moves \in 0 .. MaxMoves
    /\ pc \in [Patchers -> Labels]
    /\ loc \in [Patchers -> LocalTypes]

(* Where the call holds references to the old and to the new page.         *)
HasOld(t) == pc[t] \notin {"user", "word", "get_user_pages", "returned"}
HasNew(t) == pc[t] \in {"charge", "lock_page", "check_address", "unlock", "put_new"}

PagesHeld(t) == /\ HasOld(t) <=> loc[t].old_page # NoFrame
                /\ HasNew(t) <=> loc[t].new_page # NoFrame

(* The word a call is at lies in its range, and is a load once the call    *)
(* has begun to rewrite it.                                                *)
InRange(t) ==
    /\ At(t, "user") => loc[t].range.sva = 0 /\ ptr(t) = 0
    /\ ~At(t, "user") => loc[t].range \in Ranges /\ loc[t].range.sva <= ptr(t)
    /\ pc[t] \notin {"user", "word", "returned"} => /\ ptr(t) <= loc[t].range.eva
                                                    /\ ptr(t) \in Loads

(* The copy that is about to replace the page differs in that word only.   *)
CopyOK(t) ==
    pc[t] \in {"charge", "lock_page", "check_address"} =>
        patched[loc[t].new_page] = patched[loc[t].old_page] \cup {ptr(t)}

CallOK(t) == PagesHeld(t) /\ InRange(t) /\ CopyOK(t)

PatchInv ==
    PatchType /\ RefsBalanced /\ PatchedExactly /\ \A t \in Patchers : CallOK(t)

(* A call at a word of its range is at a page of the text.                 *)
LEMMA PageOfText ==
    ASSUME PatchType, NEW t \in Patchers, InRange(t), ~At(t, "user"),
           ptr(t) <= loc[t].range.eva
    PROVE  Page(t) \in TextPages
<1>1. loc[t].range \in Ranges /\ loc[t].range.sva <= ptr(t) /\ ptr(t) \in Nat
  BY DEF InRange, PatchType, LocalTypes, ptr
<1>2. loc[t].range.sva \in Nat /\ loc[t].range.eva \in Nat
  BY <1>1, PatchAssumption
<1>3. ptr(t) \in loc[t].range.sva .. loc[t].range.eva
  BY <1>1, <1>2
<1> QED
  BY <1>1, <1>3, PatchAssumption DEF Page

-----------------------------------------------------------------------------
(* Counting references.                                                    *)

Homes(f) == {p \in TextPages : home[p] = f}
Olds(f) == {t \in Patchers : loc[t].old_page = f}
News(f) == {t \in Patchers : loc[t].new_page = f}
Has(S, x) == IF x \in S THEN 1 ELSE 0
Same(f, g) == IF f = g THEN 1 ELSE 0

LEMMA CardNat ==
    ASSUME NEW S, IsFiniteSet(S)
    PROVE  /\ Cardinality(S) \in Nat
           /\ \A T \in SUBSET S : IsFiniteSet(T) /\ Cardinality(T) \in Nat
BY FS_CardinalityType, FS_Subset

(* Sets that differ at most in x differ in size by whether they have it.   *)
LEMMA OneElement ==
    ASSUME NEW A, NEW B, NEW x, IsFiniteSet(A), A \ {x} = B \ {x}
    PROVE  Cardinality(B) + Has(A, x) = Cardinality(A) + Has(B, x)
<1> DEFINE C == A \ {x}
<1>1. IsFiniteSet(C) /\ Cardinality(C) \in Nat
  BY FS_Subset, FS_CardinalityType
<1>2. Cardinality(C \cup {x}) = Cardinality(C) + 1
  <2>1. x \notin C
    OBVIOUS
  <2> HIDE DEF C
  <2> QED
    BY <1>1, <2>1, FS_AddElement
<1>3. (x \in A => A = C \cup {x}) /\ (x \notin A => A = C)
  OBVIOUS
<1>4. (x \in B => B = C \cup {x}) /\ (x \notin B => B = C)
  OBVIOUS
<1> HIDE DEF C
<1>5. Cardinality(A) = Cardinality(C) + Has(A, x)
  <2>1. CASE x \in A
    BY <1>1, <1>2, <1>3, <2>1 DEF Has
  <2>2. CASE x \notin A
    BY <1>1, <1>3, <2>2 DEF Has
  <2> QED
    BY <2>1, <2>2
<1>6. Cardinality(B) = Cardinality(C) + Has(B, x)
  <2>1. CASE x \in B
    BY <1>1, <1>2, <1>4, <2>1 DEF Has
  <2>2. CASE x \notin B
    BY <1>1, <1>4, <2>2 DEF Has
  <2> QED
    BY <2>1, <2>2
<1> QED
  BY <1>1, <1>5, <1>6 DEF Has

LEMMA CountsInt ==
    ASSUME NEW c \in [Frames -> Int], NEW f \in Frames, NEW g \in Frames
    PROVE  Put(Get(c, f), g) \in [Frames -> Int]
<1>1. Get(c, f) \in [Frames -> Int]
  BY DEF Get
<1>2. ASSUME NEW d \in [Frames -> Int] PROVE Put(d, g) \in [Frames -> Int]
  BY DEF Put
<1> QED
  BY <1>1, <1>2

LEMMA RefsNat ==
    ASSUME NEW f
    PROVE  /\ IsFiniteSet(Homes(f)) /\ IsFiniteSet(Olds(f)) /\ IsFiniteSet(News(f))
           /\ Cardinality(Homes(f)) \in Nat
           /\ Cardinality(Olds(f)) \in Nat
           /\ Cardinality(News(f)) \in Nat
           /\ Cardinality(Homes(f)') \in Nat
           /\ Cardinality(Olds(f)') \in Nat
           /\ Cardinality(News(f)') \in Nat
<1>1. /\ {Homes(f), Homes(f)'} \subseteq SUBSET TextPages
      /\ {Olds(f), Olds(f)', News(f), News(f)'} \subseteq SUBSET Patchers
  BY DEF Homes, Olds, News
<1> QED
  BY <1>1, CardNat, PatchAssumption

LEMMA RefsCounted ==
    RefsBalanced <=> \A f \in Frames : count[f] = Cardinality(Homes(f))
                                       + Cardinality(Olds(f)) + Cardinality(News(f))
BY DEF RefsBalanced, Homes, Olds, News

(* A frame without references is nobody's.                                 *)
LEMMA UnusedFree ==
    ASSUME PatchType, RefsBalanced, NEW f \in Unused
    PROVE  /\ f \in Frames
           /\ \A p \in TextPages : home[p] # f
           /\ \A t \in Patchers : loc[t].old_page # f /\ loc[t].new_page # f
<1>1. f \in Frames /\ count[f] = 0
  BY DEF Unused
<1>2. count[f] = Cardinality(Homes(f)) + Cardinality(Olds(f)) + Cardinality(News(f))
  BY <1>1, RefsCounted
<1>3. /\ Cardinality(Homes(f)) = 0 /\ Cardinality(Olds(f)) = 0
      /\ Cardinality(News(f)) = 0
  BY <1>1, <1>2, RefsNat
<1>4. Homes(f) = {} /\ Olds(f) = {} /\ News(f) = {}
  BY <1>3, RefsNat, FS_EmptySet
<1> QED
  BY <1>1, <1>4 DEF Homes, Olds, News

(* The references of the mappings, when one page of the text moves.        *)
LEMMA HomesChange ==
    ASSUME PatchType, NEW p \in TextPages, NEW g, NEW f,
           \A q \in TextPages : home'[q] = IF q = p THEN g ELSE home[q]
    PROVE  Cardinality(Homes(f)') + Same(home[p], f) = Cardinality(Homes(f)) + Same(g, f)
<1>1. Homes(f) \ {p} = Homes(f)' \ {p}
  BY DEF Homes, PatchType
<1>2. Has(Homes(f), p) = Same(home[p], f) /\ Has(Homes(f)', p) = Same(g, f)
  BY DEF Homes, PatchType, Has, Same
<1>3. Cardinality(Homes(f)') + Has(Homes(f), p) = Cardinality(Homes(f)) + Has(Homes(f)', p)
  BY <1>1, RefsNat, OneElement
<1> QED
  BY <1>2, <1>3

(* The references of one call, when only its locals change.                *)
LEMMA LocalsChange ==
    ASSUME NEW t \in Patchers, \A u \in Patchers \ {t} : loc'[u] = loc[u], NEW f
    PROVE  /\ Cardinality(Olds(f)') + Same(loc[t].old_page, f)
                = Cardinality(Olds(f)) + Same(loc'[t].old_page, f)
           /\ Cardinality(News(f)') + Same(loc[t].new_page, f)
                = Cardinality(News(f)) + Same(loc'[t].new_page, f)
<1>1. Olds(f) \ {t} = Olds(f)' \ {t} /\ News(f) \ {t} = News(f)' \ {t}
  BY DEF Olds, News
<1>2. /\ Has(Olds(f), t) = Same(loc[t].old_page, f)
      /\ Has(Olds(f)', t) = Same(loc'[t].old_page, f)
      /\ Has(News(f), t) = Same(loc[t].new_page, f)
      /\ Has(News(f)', t) = Same(loc'[t].new_page, f)
  BY DEF Olds, News, Has, Same
<1>3. /\ Cardinality(Olds(f)') + Has(Olds(f), t) = Cardinality(Olds(f)) + Has(Olds(f)', t)
      /\ Cardinality(News(f)') + Has(News(f), t) = Cardinality(News(f)) + Has(News(f)', t)
  BY <1>1, RefsNat, OneElement
<1> QED
  BY <1>2, <1>3
(* A step of a call that takes and puts the references it says it does.    *)
LEMMA RefsOfCall ==
    ASSUME PatchType, RefsBalanced, NEW t \in Patchers,
           \A u \in Patchers \ {t} : loc'[u] = loc[u], home' = home,
           count' \in [Frames -> Int],
           \A f \in Frames :
              count'[f] + Same(loc[t].old_page, f) + Same(loc[t].new_page, f)
                = count[f] + Same(loc'[t].old_page, f) + Same(loc'[t].new_page, f)
    PROVE  RefsBalanced' /\ count' \in [Frames -> Nat]
<1>1. ASSUME NEW f \in Frames
      PROVE  /\ count'[f] = Cardinality(Homes(f)') + Cardinality(Olds(f)')
                              + Cardinality(News(f)')
             /\ count'[f] \in Nat
  <2>1. Homes(f)' = Homes(f)
    BY DEF Homes
  <2>2. /\ Cardinality(Olds(f)') + Same(loc[t].old_page, f)
             = Cardinality(Olds(f)) + Same(loc'[t].old_page, f)
        /\ Cardinality(News(f)') + Same(loc[t].new_page, f)
             = Cardinality(News(f)) + Same(loc'[t].new_page, f)
    BY LocalsChange
  <2>3. /\ Cardinality(Homes(f)) \in Nat
        /\ Cardinality(Olds(f)) \in Nat /\ Cardinality(News(f)) \in Nat
    BY RefsNat
  <2>4. /\ Cardinality(Olds(f)') \in Nat /\ Cardinality(News(f)') \in Nat
    BY RefsNat
  <2>5. count[f] = Cardinality(Homes(f)) + Cardinality(Olds(f)) + Cardinality(News(f))
    BY RefsCounted
  <2>6. /\ Same(loc[t].old_page, f) \in {0, 1} /\ Same(loc'[t].old_page, f) \in {0, 1}
        /\ Same(loc[t].new_page, f) \in {0, 1} /\ Same(loc'[t].new_page, f) \in {0, 1}
    BY DEF Same
  <2> QED
    BY <2>1, <2>2, <2>3, <2>4, <2>5, <2>6
<1> QED
  BY <1>1 DEF RefsBalanced, Homes, Olds, News

(* The mapping of one page moves from its frame to another.                *)
LEMMA RefsOfMapping ==
    ASSUME PatchType, RefsBalanced, NEW p \in TextPages, NEW g \in Frames,
           \A q \in TextPages : home'[q] = IF q = p THEN g ELSE home[q],
           count' \in [Frames -> Int],
           \A f \in Frames : count'[f] + Same(home[p], f) = count[f] + Same(g, f),
           \A t \in Patchers : /\ loc'[t].old_page = loc[t].old_page
                               /\ loc'[t].new_page = loc[t].new_page
    PROVE  RefsBalanced' /\ count' \in [Frames -> Nat]
<1>1. ASSUME NEW f \in Frames
      PROVE  /\ count'[f] = Cardinality(Homes(f)') + Cardinality(Olds(f)')
                              + Cardinality(News(f)')
             /\ count'[f] \in Nat
  <2>1. Olds(f)' = Olds(f) /\ News(f)' = News(f)
    BY DEF Olds, News
  <2>2. Cardinality(Homes(f)') + Same(home[p], f) = Cardinality(Homes(f)) + Same(g, f)
    BY HomesChange
  <2>3. /\ Cardinality(Homes(f)) \in Nat /\ Cardinality(Homes(f)') \in Nat
        /\ Cardinality(Olds(f)) \in Nat /\ Cardinality(News(f)) \in Nat
    BY RefsNat
  <2>4. count[f] = Cardinality(Homes(f)) + Cardinality(Olds(f)) + Cardinality(News(f))
    BY RefsCounted
  <2>5. Same(home[p], f) \in {0, 1} /\ Same(g, f) \in {0, 1}
    BY DEF Same
  <2> QED
    BY <2>1, <2>2, <2>3, <2>4, <2>5
<1> QED
  BY <1>1 DEF RefsBalanced, Homes, Olds, News

-----------------------------------------------------------------------------
(* Initially.                                                              *)

LEMMA PatchInit == Init => PatchInv
<1> SUFFICES ASSUME Init PROVE PatchInv
  OBVIOUS
<1> USE DEF Init
<1>1. loc \in [Patchers -> LocalTypes]
  BY DEF LocalTypes, NoLocals
<1>2. ASSUME NEW f \in Frames
      PROVE  /\ count[f] = Cardinality(Homes(f)) /\ count[f] \in Nat
             /\ Olds(f) = {} /\ News(f) = {}
  <2>1. Homes(f) = {p \in TextPages : TextHome[p] = f}
    BY DEF Homes
  <2>2. count[f] = Cardinality(Homes(f))
    BY <2>1
  <2>3. Olds(f) = {} /\ News(f) = {}
    BY PatchAssumption DEF Olds, News, NoLocals, NoFrame
  <2> QED
    BY <2>2, <2>3, RefsNat
<1>3. Cardinality({}) = 0
  BY FS_EmptySet
<1>4. PatchType
  BY <1>1, <1>2, PatchAssumption DEF PatchType, Labels
<1>5. RefsBalanced
  <2> SUFFICES ASSUME NEW f \in Frames
               PROVE  count[f] = Cardinality(Homes(f))
                                   + Cardinality(Olds(f)) + Cardinality(News(f))
    BY RefsCounted
  <2>1. PICK n \in Nat : n = count[f] /\ n = Cardinality(Homes(f))
    BY <1>2
  <2>2. Cardinality(Olds(f)) = 0 /\ Cardinality(News(f)) = 0
    BY <1>2, <1>3
  <2> HIDE DEF Init
  <2> QED
    BY <2>1, <2>2
<1>6. \A t \in Patchers : Reached(t) = {}
  BY DEF Reached, Passed, ptr, NoLocals
<1>7. PatchedExactly
  BY <1>6, PatchAssumption DEF PatchedExactly
<1>8. \A t \in Patchers : CallOK(t)
  BY DEF CallOK, PagesHeld, HasOld, HasNew, InRange, CopyOK, At, ptr, NoLocals, NoFrame
<1> QED
  BY <1>4, <1>5, <1>7, <1>8 DEF PatchInv

-----------------------------------------------------------------------------
(* Types, references and the state of each call.                           *)

(* What the step of one call leaves alone.                                 *)
LEMMA OtherCalls ==
    ASSUME PatchType, NEW t \in Patchers,
           PatchUserMemory(t) \/ \E r \in Ranges : Call(t, r)
    PROVE  \A u \in Patchers \ {t} : loc'[u] = loc[u] /\ pc'[u] = pc[u]
BY DEF PatchUserMemory, WriteOpcode, ReplacePage, Call, SkipWord, ConvertWord, Finish,
       GetUserPages, GetUserPagesFails, AllocFails, CopyPage, PutNew, PutOld, ChargeFails,
       Charge, LockPage, Replace, ReplaceAgain, UnlockPage, Goto, PatchType

(* A page that is copied to was nobody's, so no page in use is written.    *)
LEMMA PatchedKept ==
    ASSUME PatchType, RefsBalanced, [Next]_vars, NEW f \in Frames, f \notin Unused
    PROVE  patched'[f] = patched[f]
BY DEF Next, vars, PatchUserMemory, WriteOpcode, ReplacePage, Call, SkipWord, ConvertWord,
       Finish, GetUserPages, GetUserPagesFails, AllocFails, CopyPage, PutNew, PutOld,
       ChargeFails, Charge, LockPage, Replace, ReplaceAgain, UnlockPage, Unmap, Migrate,
       PatchType
LEMMA LocalOfCall ==
    ASSUME NEW l \in LocalTypes, NEW n \in Nat, NEW r \in [sva : Nat, eva : Int]
    PROVE  [l EXCEPT !.ptr = n, !.range = r] \in LocalTypes
<1> DEFINE R == [sva : Nat, eva : Int]
<1> HIDE DEF R
<1> QED
  BY DEF LocalTypes, R

(* The values of a call's own variables, and where it holds references.    *)
LEMMA CallLocals ==
    ASSUME PatchInv, NEW t \in Patchers,
           PatchUserMemory(t) \/ \E r \in Ranges : Call(t, r)
    PROVE  /\ loc' \in [Patchers -> LocalTypes] /\ pc' \in [Patchers -> Labels]
           /\ PagesHeld(t)' /\ InRange(t)'
<1>0. /\ loc \in [Patchers -> LocalTypes] /\ pc \in [Patchers -> Labels]
      /\ home \in [TextPages -> Frames] /\ Frames \subseteq Nat /\ Loads \subseteq Nat
      /\ PagesHeld(t) /\ InRange(t)
  BY PatchAssumption DEF PatchInv, PatchType, CallOK
<1>1. /\ loc[t].ptr \in Nat /\ loc[t].range \in [sva : Nat, eva : Int]
      /\ loc[t].ret \in {0, -1, EAGAIN}
  BY <1>0 DEF LocalTypes
<1> USE DEF PagesHeld, HasOld, HasNew, InRange, At, Goto, Labels, ptr, NoFrame
<1>2. ASSUME NEW r \in Ranges, Call(t, r)
      PROVE  /\ loc' \in [Patchers -> LocalTypes] /\ pc' \in [Patchers -> Labels]
             /\ PagesHeld(t)' /\ InRange(t)'
  <2>1. r.sva \in Nat /\ r \in [sva : Nat, eva : Int]
    BY PatchAssumption
  <2>2. /\ loc' = [loc EXCEPT ![t] = [loc[t] EXCEPT !.ptr = r.sva, !.range = r]]
        /\ pc[t] = "user" /\ pc' = [pc EXCEPT ![t] = "word"]
    BY <1>2 DEF Call
  <2>3. loc' \in [Patchers -> LocalTypes]
    <3>1. [loc[t] EXCEPT !.ptr = r.sva, !.range = r] \in LocalTypes
      BY <1>0, <2>1, LocalOfCall
    <3> QED
      BY <1>0, <2>2, <3>1
  <2>4. /\ loc'[t].ptr = r.sva /\ loc'[t].range = r
        /\ loc'[t].old_page = loc[t].old_page /\ loc'[t].new_page = loc[t].new_page
    BY <1>0, <2>2 DEF LocalTypes
  <2> QED
    BY <1>0, <2>1, <2>2, <2>3, <2>4
<1>3. CASE SkipWord(t)
  BY <1>0, <1>1, <1>3 DEF SkipWord, LocalTypes
<1>4. CASE ConvertWord(t)
  BY <1>0, <1>4 DEF ConvertWord, Convertible
<1>5. CASE Finish(t)
  BY <1>0, <1>5 DEF Finish
<1>6. CASE GetUserPages(t)
  <2>1. Page(t) \in TextPages
    BY <1>0, <1>6, PageOfText DEF GetUserPages, PatchInv
  <2> QED
    BY <1>0, <1>6, <2>1 DEF GetUserPages, LocalTypes
<1>7. CASE GetUserPagesFails(t)
  BY <1>0, <1>7 DEF GetUserPagesFails, LocalTypes
<1>8. CASE AllocFails(t)
  BY <1>0, <1>8 DEF AllocFails, LocalTypes
<1>9. CASE CopyPage(t)
  <2>1. PICK f \in Frames : loc' = [loc EXCEPT ![t].new_page = f]
    BY <1>9 DEF CopyPage, Unused
  <2>2. loc' \in [Patchers -> LocalTypes]
    BY <1>0, <2>1 DEF LocalTypes
  <2>3. /\ loc'[t].new_page = f /\ loc'[t].old_page = loc[t].old_page
        /\ loc'[t].ptr = loc[t].ptr /\ loc'[t].range = loc[t].range
    BY <1>0, <2>1 DEF LocalTypes
  <2> QED
    BY <1>0, <1>9, <2>2, <2>3 DEF CopyPage
<1>10. CASE PutNew(t)
  BY <1>0, <1>10 DEF PutNew, LocalTypes
<1>11. CASE PutOld(t)
  <2>1. pc[t] = "put_old" /\ ptr(t) + 1 \in Nat
    BY <1>1, <1>11 DEF PutOld
  <2>2. CASE /\ loc' = [loc EXCEPT ![t] = [@ EXCEPT !.old_page = NoFrame, !.ret = 0]]
             /\ pc' = [pc EXCEPT ![t] = "get_user_pages"]
    BY <1>0, <2>1, <2>2 DEF LocalTypes
  <2>3. CASE /\ loc' = [loc EXCEPT ![t] = [@ EXCEPT !.old_page = NoFrame, !.ptr = ptr(t) + 1]]
             /\ pc' = [pc EXCEPT ![t] = "word"]
    <3>1. PICK n \in Nat : n = ptr(t) + 1
      BY <2>1
    <3>2. loc' = [loc EXCEPT ![t] = [loc[t] EXCEPT !.old_page = NoFrame, !.ptr = n]]
      BY <2>3, <3>1
    <3>3. loc' \in [Patchers -> LocalTypes]
      <4>1. [loc[t] EXCEPT !.old_page = NoFrame, !.ptr = n] \in LocalTypes
        BY <1>0, <3>1 DEF LocalTypes
      <4> QED
        BY <1>0, <3>2, <4>1
    <3>4. /\ loc'[t].ptr = n /\ loc'[t].range = loc[t].range
          /\ loc'[t].old_page = NoFrame /\ loc'[t].new_page = loc[t].new_page
      BY <1>0, <3>2 DEF LocalTypes
    <3>5. loc[t].range.sva <= n
      BY <1>0, <1>1, <2>1, <3>1, PatchAssumption
    <3> QED
      BY <1>0, <2>1, <2>3, <3>3, <3>4, <3>5
  <2>4. CASE /\ loc' = [loc EXCEPT ![t].old_page = NoFrame]
             /\ pc' = [pc EXCEPT ![t] = "returned"]
    BY <1>0, <2>1, <2>4 DEF LocalTypes
  <2> QED
    BY <1>11, <2>2, <2>3, <2>4 DEF PutOld
<1>12. CASE ChargeFails(t)
  BY <1>0, <1>12 DEF ChargeFails, LocalTypes
<1>13. CASE Charge(t) \/ LockPage(t) \/ UnlockPage(t)
  BY <1>0, <1>13 DEF Charge, LockPage, UnlockPage
<1>14. CASE Replace(t) \/ ReplaceAgain(t)
  <2>1. PICK n \in {0, EAGAIN} : loc' = [loc EXCEPT ![t].ret = n]
    BY <1>14 DEF Replace, ReplaceAgain
  <2>2. loc' \in [Patchers -> LocalTypes]
    BY <1>0, <2>1 DEF LocalTypes
  <2>3. /\ loc'[t].ptr = loc[t].ptr /\ loc'[t].range = loc[t].range
        /\ loc'[t].old_page = loc[t].old_page /\ loc'[t].new_page = loc[t].new_page
    BY <1>0, <2>1 DEF LocalTypes
  <2>4. pc[t] = "check_address" /\ pc' = [pc EXCEPT ![t] = "unlock"]
    BY <1>14 DEF Replace, ReplaceAgain
  <2> QED
    BY <1>0, <2>2, <2>3, <2>4
<1> QED
  BY <1>2, <1>3, <1>4, <1>5, <1>6, <1>7, <1>8, <1>9, <1>10, <1>11, <1>12, <1>13, <1>14
     DEF PatchUserMemory, WriteOpcode, ReplacePage

LEMMA CallRefs ==
    ASSUME PatchInv, NEW t \in Patchers,
           PatchUserMemory(t) \/ \E r \in Ranges : Call(t, r)
    PROVE  RefsBalanced' /\ count' \in [Frames -> Nat]
<1>0. /\ PatchType /\ RefsBalanced /\ PagesHeld(t)
      /\ loc \in [Patchers -> LocalTypes] /\ count \in [Frames -> Nat] /\ Frames \subseteq Nat
      /\ \A u \in Patchers \ {t} : loc'[u] = loc[u]
  BY PatchAssumption, OtherCalls DEF PatchInv, PatchType, CallOK
<1> DEFINE old == loc[t].old_page
           new == loc[t].new_page
           old1 == loc'[t].old_page
           new1 == loc'[t].new_page
<1>1. SUFFICES
        \/ Replace(t)
        \/ /\ home' = home /\ count' \in [Frames -> Int]
           /\ \A f \in Frames : count'[f] + Same(old, f) + Same(new, f)
                                = count[f] + Same(old1, f) + Same(new1, f)
  <2>1. CASE Replace(t)
    <3>1. /\ pc[t] = "check_address" /\ home[Page(t)] = old
          /\ home' = [home EXCEPT ![Page(t)] = new]
          /\ count' = Put(Get(count, new), old)
      BY <2>1 DEF Replace, StillThere, At
    <3>2. Page(t) \in TextPages
      BY <1>0, <3>1, PageOfText DEF PatchInv, CallOK, InRange, At
    <3>3. old \in Frames /\ new \in Frames
      BY <1>0, <3>1 DEF PagesHeld, HasOld, HasNew, LocalTypes
    <3>4. \A u \in Patchers : /\ loc'[u].old_page = loc[u].old_page
                              /\ loc'[u].new_page = loc[u].new_page
      BY <1>0, <2>1 DEF Replace
    <3>5. \A q \in TextPages : home'[q] = IF q = Page(t) THEN new ELSE home[q]
      BY <1>0, <3>1 DEF PatchType
    <3>6. count' \in [Frames -> Int]
      <4>1. count \in [Frames -> Int]
        BY <1>0
      <4> QED
        BY <3>1, <3>3, <4>1, CountsInt
    <3>7. \A f \in Frames :
             count'[f] + Same(home[Page(t)], f) = count[f] + Same(new, f)
      BY <1>0, <3>1, <3>3 DEF Put, Get, Same
    <3> HIDE DEF old, new
    <3> QED
      BY <1>0, <3>2, <3>3, <3>4, <3>5, <3>6, <3>7, RefsOfMapping
  <2>2. CASE /\ home' = home /\ count' \in [Frames -> Int]
             /\ \A f \in Frames : count'[f] + Same(old, f) + Same(new, f)
                                  = count[f] + Same(old1, f) + Same(new1, f)
    BY <1>0, <2>2, RefsOfCall
  <2> QED
    BY <2>1, <2>2
<1>2. CASE \/ \E r \in Ranges : Call(t, r)
           \/ SkipWord(t) \/ ConvertWord(t) \/ Finish(t) \/ GetUserPagesFails(t)
           \/ AllocFails(t) \/ ChargeFails(t) \/ Charge(t) \/ LockPage(t)
           \/ ReplaceAgain(t) \/ UnlockPage(t)
  <2>1. home' = home /\ count' = count /\ old1 = old /\ new1 = new
    BY <1>0, <1>2, ZenonT(40)
       DEF Call, SkipWord, ConvertWord, Finish, GetUserPagesFails, AllocFails, ChargeFails,
           Charge, LockPage, ReplaceAgain, UnlockPage, LocalTypes
  <2> HIDE DEF old, new, old1, new1
  <2>2. count \in [Frames -> Int]
    BY <1>0
  <2> QED
    BY <2>1, <2>2
<1>3. CASE GetUserPages(t)
  <2>1. /\ pc[t] = "get_user_pages" /\ home' = home
        /\ loc' = [loc EXCEPT ![t].old_page = home[Page(t)]]
        /\ count' = Get(count, home[Page(t)])
    BY <1>3 DEF GetUserPages, At
  <2>2. Page(t) \in TextPages
    BY <1>0, <2>1, PageOfText DEF PatchInv, CallOK, InRange, At
  <2>3. PICK f \in Frames : f = home[Page(t)]
    BY <1>0, <2>2 DEF PatchType
  <2>4. old = NoFrame /\ new1 = new /\ old1 = f
    BY <1>0, <2>1, <2>3 DEF PagesHeld, HasOld, LocalTypes
  <2>5. NoFrame \notin Frames
    BY <1>0 DEF NoFrame
  <2> HIDE DEF old, new, old1, new1
  <2> QED
    BY <1>0, <2>1, <2>3, <2>4, <2>5 DEF Get, Same
<1>4. CASE CopyPage(t)
  <2>1. PICK f \in Unused : /\ loc' = [loc EXCEPT ![t].new_page = f]
                            /\ count' = Get(count, f)
    BY <1>4 DEF CopyPage
  <2>2. home' = home /\ pc[t] = "alloc_page" /\ f \in Frames
    BY <1>4 DEF CopyPage, At, Unused
  <2>3. new = NoFrame /\ new1 = f /\ old1 = old
    BY <1>0, <2>1, <2>2 DEF PagesHeld, HasNew, LocalTypes
  <2>4. NoFrame \notin Frames
    BY <1>0 DEF NoFrame
  <2> HIDE DEF old, new, old1, new1
  <2> QED
    BY <1>0, <2>1, <2>2, <2>3, <2>4 DEF Get, Same
<1>5. CASE PutNew(t)
  <2>1. /\ pc[t] = "put_new" /\ home' = home /\ count' = Put(count, new)
        /\ loc' = [loc EXCEPT ![t].new_page = NoFrame]
    BY <1>5 DEF PutNew, At
  <2>2. new \in Frames /\ new1 = NoFrame /\ old1 = old
    BY <1>0, <2>1 DEF PagesHeld, HasNew, LocalTypes
  <2>3. NoFrame \notin Frames
    BY <1>0 DEF NoFrame
  <2> HIDE DEF old, new, old1, new1
  <2> QED
    BY <1>0, <2>1, <2>2, <2>3 DEF Put, Same
<1>6. CASE PutOld(t)
  <2>1. pc[t] = "put_old" /\ home' = home /\ count' = Put(count, old)
    BY <1>6 DEF PutOld, At
  <2>2. old1 = NoFrame /\ new1 = new
    BY <1>0, <1>6 DEF PutOld, LocalTypes
  <2>3. old \in Frames /\ NoFrame \notin Frames
    BY <1>0, <2>1 DEF PagesHeld, HasOld, LocalTypes, NoFrame
  <2> HIDE DEF old, new, old1, new1
  <2> QED
    BY <1>0, <2>1, <2>2, <2>3 DEF Put, Same
<1> QED
  BY <1>2, <1>3, <1>4, <1>5, <1>6 DEF PatchUserMemory, WriteOpcode, ReplacePage
(* A frame that some call or mapping refers to is not written.             *)
LEMMA HeldKept ==
    ASSUME PatchInv, [Next]_vars
    PROVE  /\ \A p \in TextPages : patched'[home[p]] = patched[home[p]]
           /\ \A t \in Patchers : HasOld(t) => patched'[loc[t].old_page] = patched[loc[t].old_page]
           /\ \A t \in Patchers : HasNew(t) => patched'[loc[t].new_page] = patched[loc[t].new_page]
<1>1. /\ \A p \in TextPages : home[p] \in Frames /\ home[p] \notin Unused
      /\ \A t \in Patchers : loc[t].old_page \notin Unused /\ loc[t].new_page \notin Unused
  BY UnusedFree DEF PatchInv, PatchType
<1>2. \A t \in Patchers : /\ HasOld(t) => loc[t].old_page \in Frames
                          /\ HasNew(t) => loc[t].new_page \in Frames
  BY DEF PatchInv, PatchType, CallOK, PagesHeld, LocalTypes
<1> QED
  BY <1>1, <1>2, PatchedKept DEF PatchInv

LEMMA CopiesKept ==
    ASSUME PatchInv, NEW t \in Patchers,
           PatchUserMemory(t) \/ \E r \in Ranges : Call(t, r)
    PROVE  \A u \in Patchers : CopyOK(u)'
<1>0. [Next]_vars /\ loc \in [Patchers -> LocalTypes] /\ pc \in [Patchers -> Labels]
  BY DEF Next, PatchInv, PatchType
<1> SUFFICES ASSUME NEW u \in Patchers, pc'[u] \in {"charge", "lock_page", "check_address"}
             PROVE  patched'[loc'[u].new_page] = patched'[loc'[u].old_page] \cup {ptr(u)'}
  BY DEF CopyOK
<1>1. ASSUME pc[u] \in {"charge", "lock_page", "check_address"}, loc'[u] = loc[u]
      PROVE  patched'[loc'[u].new_page] = patched'[loc'[u].old_page] \cup {ptr(u)'}
  BY <1>0, <1>1, HeldKept DEF PatchInv, CallOK, CopyOK, HasOld, HasNew, ptr
<1>2. CASE u # t
  BY <1>1, <1>2, OtherCalls DEF PatchInv
<1>3. CASE u = t /\ CopyPage(t)
  <2>1. PICK f \in Unused :
           /\ loc' = [loc EXCEPT ![t].new_page = f]
           /\ patched' = [patched EXCEPT ![f] = patched[loc[t].old_page] \cup {ptr(t)}]
    BY <1>3 DEF CopyPage
  <2>2. HasOld(t)
    BY <1>3 DEF CopyPage, At, HasOld
  <2>3. f \in Frames /\ patched \in [Frames -> SUBSET Loads]
    BY DEF PatchInv, PatchType, Unused
  <2>4. /\ loc'[t].new_page = f /\ loc'[t].old_page = loc[t].old_page
        /\ ptr(t)' = ptr(t)
    BY <1>0, <2>1 DEF LocalTypes, ptr
  <2>5. patched'[f] = patched[loc[t].old_page] \cup {ptr(t)}
    BY <2>1, <2>3
  <2>6. patched'[loc[t].old_page] = patched[loc[t].old_page]
    BY <1>0, <2>2, HeldKept
  <2> QED
    BY <1>3, <2>4, <2>5, <2>6
<1>4. CASE u = t /\ (Charge(t) \/ LockPage(t))
  BY <1>1, <1>4 DEF Charge, LockPage, At
<1>5. CASE u = t /\ ~(CopyPage(t) \/ Charge(t) \/ LockPage(t))
  BY <1>0, <1>5
     DEF PatchUserMemory, WriteOpcode, ReplacePage, Call, SkipWord, ConvertWord, Finish,
         GetUserPages, GetUserPagesFails, AllocFails, PutNew, PutOld, ChargeFails, Replace,
         ReplaceAgain, UnlockPage, Goto, At
<1> QED
  BY <1>2, <1>3, <1>4, <1>5

LEMMA CallTypes ==
    ASSUME PatchInv, NEW t \in Patchers,
           PatchUserMemory(t) \/ \E r \in Ranges : Call(t, r)
    PROVE  PatchType'
<1>0. /\ PatchType /\ PagesHeld(t) /\ InRange(t) /\ Frames \subseteq Nat
  BY PatchAssumption DEF PatchInv, CallOK
<1>1. /\ HasOld(t) => loc[t].old_page \in Frames
      /\ HasNew(t) => loc[t].new_page \in Frames
  BY <1>0 DEF PagesHeld, PatchType, LocalTypes
<1>2. home' \in [TextPages -> Frames] /\ mapped' \in [TextPages -> BOOLEAN]
  BY <1>0, <1>1
     DEF PatchType, PatchUserMemory, WriteOpcode, ReplacePage, Call, SkipWord, ConvertWord,
         Finish, GetUserPages, GetUserPagesFails, AllocFails, CopyPage, PutNew, PutOld,
         ChargeFails, Charge, LockPage, Replace, ReplaceAgain, UnlockPage, HasNew, At
<1>3. patched' \in [Frames -> SUBSET Loads]
  <2>1. CASE CopyPage(t)
    <3>1. ptr(t) \in Loads /\ HasOld(t)
      BY <1>0, <2>1 DEF CopyPage, At, InRange, HasOld
    <3>2. PICK S \in SUBSET Loads : S = patched[loc[t].old_page] \cup {ptr(t)}
      BY <1>0, <1>1, <3>1 DEF PatchType
    <3>3. PICK f \in Frames : patched' = [patched EXCEPT ![f] = S]
      BY <2>1, <3>2 DEF CopyPage, Unused
    <3> QED
      BY <1>0, <3>3 DEF PatchType
  <2>2. CASE ~CopyPage(t)
    BY <1>0, <2>2
       DEF PatchType, PatchUserMemory, WriteOpcode, ReplacePage, Call, SkipWord, ConvertWord,
           Finish, GetUserPages, GetUserPagesFails, AllocFails, PutNew, PutOld, ChargeFails,
           Charge, LockPage, Replace, ReplaceAgain, UnlockPage
  <2> QED
    BY <2>1, <2>2
<1>4. moves' \in 0 .. MaxMoves
  BY <1>0
     DEF PatchType, PatchUserMemory, WriteOpcode, ReplacePage, Call, SkipWord, ConvertWord,
         Finish, GetUserPages, GetUserPagesFails, AllocFails, CopyPage, PutNew, PutOld,
         ChargeFails, Charge, LockPage, Replace, ReplaceAgain, UnlockPage
<1>5. locked' \in [Frames -> Patchers \cup {Nobody}]
  <2>1. CASE LockPage(t) \/ UnlockPage(t)
    BY <1>0, <2>1 DEF PatchType, LockPage, UnlockPage
  <2>2. CASE ~(LockPage(t) \/ UnlockPage(t))
    <3>1. locked' = locked
      BY <2>2
         DEF PatchUserMemory, WriteOpcode, ReplacePage, Call, SkipWord, ConvertWord, Finish,
             GetUserPages, GetUserPagesFails, AllocFails, CopyPage, PutNew, PutOld,
             ChargeFails, Charge, Replace, ReplaceAgain
    <3> QED
      BY <1>0, <3>1 DEF PatchType
  <2> QED
    BY <2>1, <2>2
<1> QED
  BY <1>2, <1>3, <1>4, <1>5, CallLocals, CallRefs DEF PatchType
-----------------------------------------------------------------------------
(* What is rewritten.                                                      *)

ExactAt(p) == \A w : w \in patched[home[p]] <=>
                         /\ w \in Loads /\ PageOf(w) = p
                         /\ \E t \in Patchers : w \in Reached(t)

LEMMA ExactForm == PatchedExactly <=> \A p \in TextPages : ExactAt(p)
BY DEF PatchedExactly, ExactAt

(* A call reaches one more word when it skips a word or replaces the page  *)
(* of one, and otherwise keeps what it has reached.                        *)
LEMMA ReachedStep ==
    ASSUME PatchInv, NEW t \in Patchers,
           PatchUserMemory(t) \/ \E r \in Ranges : Call(t, r)
    PROVE  Reached(t)' = IF SkipWord(t) \/ Replace(t) THEN Reached(t) \cup {ptr(t)}
                                                      ELSE Reached(t)
<1>0. /\ loc \in [Patchers -> LocalTypes] /\ pc \in [Patchers -> Labels] /\ InRange(t)
      /\ loc[t].ptr \in Nat /\ loc[t].range.sva \in Nat
  BY DEF PatchInv, PatchType, CallOK, LocalTypes
<1>1. ASSUME loc[t].range.sva <= ptr(t)
      PROVE  loc[t].range.sva .. (ptr(t) + 1 - 1) = Passed(t) \cup {ptr(t)}
  BY <1>0, <1>1 DEF Passed, ptr
<1>2. ASSUME NEW r \in Ranges, Call(t, r) PROVE Reached(t)' = {} /\ Reached(t) = {}
  <2>1. pc[t] = "user" /\ pc'[t] = "word" /\ loc'[t].ptr = r.sva /\ loc'[t].range = r
    <3>1. PICK n : n = r.sva
      OBVIOUS
    <3>2. /\ loc' = [loc EXCEPT ![t] = [loc[t] EXCEPT !.ptr = n, !.range = r]]
          /\ pc' = [pc EXCEPT ![t] = "word"] /\ pc[t] = "user"
      BY <1>2, <3>1 DEF Call, Goto, At
    <3> QED
      BY <1>0, <3>1, <3>2 DEF LocalTypes
  <2>2. r.sva \in Nat
    BY PatchAssumption
  <2>3. Passed(t)' = {}
    BY <2>1, <2>2 DEF Passed, ptr
  <2>4. Passed(t) = {}
    BY <1>0, <2>1 DEF Passed, ptr, InRange, At
  <2> QED
    BY <2>1, <2>3, <2>4 DEF Reached
<1>3. CASE SkipWord(t)
  <2>1. /\ pc[t] = "word" /\ pc'[t] = "word"
        /\ loc'[t].ptr = ptr(t) + 1 /\ loc'[t].range = loc[t].range
    BY <1>0, <1>3 DEF SkipWord, At, LocalTypes, ptr
  <2>2. loc[t].range.sva <= ptr(t)
    BY <1>0, <2>1 DEF InRange, At
  <2>3. Passed(t)' = Passed(t) \cup {ptr(t)}
    BY <1>1, <2>1, <2>2 DEF Passed, ptr
  <2> QED
    BY <1>3, <2>1, <2>3 DEF Reached
<1>4. CASE PutOld(t) /\ loc[t].ret = 0
  <2>1. /\ pc[t] = "put_old" /\ pc'[t] = "word"
        /\ loc'[t].ptr = ptr(t) + 1 /\ loc'[t].range = loc[t].range
    <3>1. PICK n : n = ptr(t) + 1
      OBVIOUS
    <3>2. /\ loc' = [loc EXCEPT ![t] = [loc[t] EXCEPT !.old_page = NoFrame, !.ptr = n]]
          /\ pc' = [pc EXCEPT ![t] = "word"] /\ pc[t] = "put_old"
      BY <1>4, <3>1 DEF PutOld, Goto, At, EAGAIN
    <3> QED
      BY <1>0, <3>1, <3>2 DEF LocalTypes
  <2>2. loc[t].range.sva <= ptr(t)
    BY <1>0, <2>1 DEF InRange, At
  <2>3. Passed(t)' = Passed(t) \cup {ptr(t)}
    BY <1>1, <2>1, <2>2 DEF Passed, ptr
  <2> QED
    BY <1>4, <2>1, <2>3 DEF Reached, SkipWord, Replace, At
<1>5. CASE PutOld(t) /\ loc[t].ret # 0
  <2>1. /\ pc[t] = "put_old" /\ pc'[t] \in {"get_user_pages", "returned"}
        /\ loc'[t].ptr = loc[t].ptr /\ loc'[t].range = loc[t].range
    <3>1. loc[t] \in LocalTypes /\ t \in DOMAIN loc /\ t \in DOMAIN pc
      BY <1>0
    <3>2. pc[t] = "put_old" /\ pc'[t] \in {"get_user_pages", "returned"}
      BY <1>5, <3>1, SMTT(30) DEF PutOld, Goto, At
    <3>3. loc'[t].ptr = loc[t].ptr /\ loc'[t].range = loc[t].range
      BY <1>5, <3>1 DEF PutOld, LocalTypes
    <3> QED
      BY <3>2, <3>3
  <2> QED
    BY <1>5, <2>1 DEF Reached, Passed, ptr, SkipWord, Replace, At
<1>6. CASE Replace(t)
  <2>1. /\ pc[t] = "check_address" /\ pc'[t] = "unlock" /\ loc'[t].ret = 0
        /\ loc'[t].ptr = loc[t].ptr /\ loc'[t].range = loc[t].range
    BY <1>0, <1>6 DEF Replace, Goto, At, LocalTypes
  <2> QED
    BY <1>6, <2>1 DEF Reached, Passed, ptr
<1>7. CASE ReplaceAgain(t)
  <2>1. /\ pc[t] = "check_address" /\ pc'[t] = "unlock" /\ loc'[t].ret # 0
        /\ loc'[t].ptr = loc[t].ptr /\ loc'[t].range = loc[t].range
    BY <1>0, <1>7 DEF ReplaceAgain, Goto, At, LocalTypes, EAGAIN
  <2>2. ~SkipWord(t) /\ ~Replace(t)
    BY <1>7, <2>1 DEF SkipWord, Replace, ReplaceAgain, At
  <2> QED
    BY <2>1, <2>2 DEF Reached, Passed, ptr
<1>8. CASE PutNew(t) \/ UnlockPage(t)
  <2>1. /\ pc[t] \in {"put_new", "unlock"} /\ pc'[t] \in {"put_old", "put_new"}
        /\ loc'[t].ret = loc[t].ret
        /\ loc'[t].ptr = loc[t].ptr /\ loc'[t].range = loc[t].range
    BY <1>0, <1>8 DEF PutNew, UnlockPage, Goto, At, LocalTypes
  <2> QED
    BY <2>1 DEF Reached, Passed, ptr, SkipWord, Replace, At
<1>9. CASE AllocFails(t) \/ ChargeFails(t)
  <2>1. /\ pc[t] \in {"alloc_page", "charge"} /\ loc'[t].ret = -1
        /\ loc'[t].ptr = loc[t].ptr /\ loc'[t].range = loc[t].range
    BY <1>0, <1>9 DEF AllocFails, ChargeFails, Goto, At, LocalTypes
  <2> QED
    BY <2>1 DEF Reached, Passed, ptr, SkipWord, Replace, At
<1>10. CASE ConvertWord(t) \/ Finish(t) \/ GetUserPages(t) \/ GetUserPagesFails(t)
            \/ CopyPage(t) \/ Charge(t) \/ LockPage(t)
  <2>1. /\ pc[t] \in {"word", "get_user_pages", "alloc_page", "charge", "lock_page"}
        /\ pc'[t] \in {"get_user_pages", "returned", "alloc_page", "charge", "lock_page",
                       "check_address"}
        /\ loc'[t].ptr = loc[t].ptr /\ loc'[t].range = loc[t].range
    BY <1>0, <1>10
       DEF ConvertWord, Finish, GetUserPages, GetUserPagesFails, CopyPage, Charge, LockPage,
           Goto, At, LocalTypes
  <2>2. ~SkipWord(t) /\ ~Replace(t)
    BY <1>0, <2>1 DEF SkipWord, Replace, At
  <2> QED
    BY <2>1, <2>2 DEF Reached, Passed, ptr
<1>11. ASSUME NEW r \in Ranges, Call(t, r) PROVE ~SkipWord(t) /\ ~Replace(t)
  BY <1>11 DEF Call, SkipWord, Replace, At
<1> QED
  BY <1>2, <1>3, <1>4, <1>5, <1>6, <1>7, <1>8, <1>9, <1>10, <1>11
     DEF PatchUserMemory, WriteOpcode, ReplacePage
LEMMA ExactCall ==
    ASSUME PatchInv, NEW t \in Patchers,
           PatchUserMemory(t) \/ \E r \in Ranges : Call(t, r)
    PROVE  PatchedExactly'
<1>0. /\ [Next]_vars /\ PatchType /\ InRange(t) /\ PagesHeld(t) /\ CopyOK(t)
      /\ \A p \in TextPages : ExactAt(p)
  BY ExactForm DEF Next, PatchInv, CallOK
<1>1. \A u \in Patchers \ {t} : Reached(u)' = Reached(u)
  BY OtherCalls DEF PatchInv, Reached, Passed, ptr
<1>2. /\ Reached(t)' = IF SkipWord(t) \/ Replace(t) THEN Reached(t) \cup {ptr(t)}
                                                     ELSE Reached(t)
  BY ReachedStep
<1>3. ASSUME home' = home, \A w \in Loads : (\E u \in Patchers : w \in Reached(u)')
                                          <=> \E u \in Patchers : w \in Reached(u)
      PROVE  PatchedExactly'
  <2> SUFFICES ASSUME NEW p \in TextPages PROVE ExactAt(p)'
    BY ExactForm DEF PatchedExactly, ExactAt
  <2>1. patched'[home'[p]] = patched[home[p]]
    BY <1>0, <1>3, HeldKept
  <2> QED
    BY <1>0, <1>3, <2>1 DEF ExactAt
<1>4. CASE SkipWord(t)
  <2>1. /\ Page(t) \in TextPages /\ home' = home
        /\ (ptr(t) \notin Loads \/ ptr(t) \in patched[home[Page(t)]])
    BY <1>0, <1>4, PageOfText DEF SkipWord, At, Convertible
  <2>2. ptr(t) \in Loads => \E u \in Patchers : ptr(t) \in Reached(u)
    BY <1>0, <2>1 DEF ExactAt
  <2> QED
    BY <1>1, <1>2, <1>3, <2>1, <2>2
<1>5. CASE Replace(t)
  <2>1. /\ pc[t] = "check_address" /\ home[Page(t)] = loc[t].old_page /\ patched' = patched
        /\ home' = [home EXCEPT ![Page(t)] = loc[t].new_page]
    BY <1>5 DEF Replace, StillThere, At
  <2>2. Page(t) \in TextPages /\ ptr(t) \in Loads /\ PageOf(ptr(t)) = Page(t)
    BY <1>0, <2>1, PageOfText DEF InRange, At, Page
  <2>3. patched[loc[t].new_page] = patched[home[Page(t)]] \cup {ptr(t)}
    BY <1>0, <2>1 DEF CopyOK
  <2>4. \A w : (\E u \in Patchers : w \in Reached(u)')
               <=> w = ptr(t) \/ \E u \in Patchers : w \in Reached(u)
    BY <1>1, <1>2, <1>5
  <2> SUFFICES ASSUME NEW p \in TextPages PROVE ExactAt(p)'
    BY ExactForm DEF PatchedExactly, ExactAt
  <2>5. CASE p = Page(t)
    <3>1. patched'[home'[p]] = patched[home[p]] \cup {ptr(t)}
      BY <1>0, <2>1, <2>2, <2>3, <2>5 DEF PatchType
    <3> QED
      BY <1>0, <2>2, <2>4, <2>5, <3>1 DEF ExactAt
  <2>6. CASE p # Page(t)
    <3>1. patched'[home'[p]] = patched[home[p]]
      BY <1>0, <2>1, <2>6 DEF PatchType
    <3> QED
      BY <1>0, <2>2, <2>4, <2>6, <3>1 DEF ExactAt
  <2> QED
    BY <2>5, <2>6
<1>6. CASE ~SkipWord(t) /\ ~Replace(t)
  <2>1. home' = home
    BY <1>6
       DEF PatchUserMemory, WriteOpcode, ReplacePage, Call, ConvertWord, Finish, GetUserPages,
           GetUserPagesFails, AllocFails, CopyPage, PutNew, PutOld, ChargeFails, Charge,
           LockPage, ReplaceAgain, UnlockPage
  <2> QED
    BY <1>1, <1>2, <1>3, <1>6, <2>1
<1> QED
  BY <1>4, <1>5, <1>6

-----------------------------------------------------------------------------
(* The steps of the memory manager.                                        *)

LEMMA UnmapStep ==
    ASSUME PatchInv, NEW p \in TextPages, Unmap(p)
    PROVE  PatchInv'
<1>1. UNCHANGED <<home, patched, count, locked, pc, loc>>
  BY DEF Unmap
<1>2. PatchType'
  BY <1>1, PatchAssumption DEF PatchInv, PatchType, Unmap
<1> QED
  BY <1>1, <1>2 DEF PatchInv, RefsBalanced, PatchedExactly, Reached, Passed, CallOK, PagesHeld,
                    HasOld, HasNew, InRange, CopyOK, At, ptr

LEMMA MigrateStep ==
    ASSUME PatchInv, NEW p \in TextPages, Migrate(p)
    PROVE  PatchInv'
<1>0. /\ PatchType /\ RefsBalanced /\ [Next]_vars /\ \A q \in TextPages : ExactAt(q)
      /\ UNCHANGED <<mapped, locked, pc, loc>>
  BY ExactForm DEF PatchInv, Next, Migrate
<1>1. PICK f \in Unused :
         /\ home' = [home EXCEPT ![p] = f]
         /\ patched' = [patched EXCEPT ![f] = patched[home[p]]]
         /\ count' = Put(Get(count, f), home[p])
  BY DEF Migrate
<1>2. /\ f \in Frames /\ home[p] \in Frames
      /\ \A q \in TextPages : home'[q] = IF q = p THEN f ELSE home[q]
      /\ patched'[f] = patched[home[p]]
  BY <1>0, <1>1 DEF PatchType, Unused
<1>3. RefsBalanced' /\ count' \in [Frames -> Nat]
  <2>1. count' \in [Frames -> Int]
    <3>1. count \in [Frames -> Int]
      BY <1>0 DEF PatchType
    <3> QED
      BY <1>1, <1>2, <3>1, CountsInt
  <2>2. \A g \in Frames : count'[g] + Same(home[p], g) = count[g] + Same(f, g)
    BY <1>0, <1>1, <1>2 DEF Put, Get, Same, PatchType
  <2>3. \A t \in Patchers : /\ loc'[t].old_page = loc[t].old_page
                            /\ loc'[t].new_page = loc[t].new_page
    BY <1>0
  <2> QED
    BY <1>0, <1>2, <2>1, <2>2, <2>3, RefsOfMapping
<1>4. PatchType'
  <2>1. home' \in [TextPages -> Frames]
    BY <1>0, <1>1, <1>2 DEF PatchType
  <2>2. patched' \in [Frames -> SUBSET Loads]
    BY <1>0, <1>1, <1>2 DEF PatchType
  <2>3. moves' \in 0 .. MaxMoves
    BY <1>0, PatchAssumption DEF PatchType, Migrate
  <2> QED
    BY <1>0, <1>3, <2>1, <2>2, <2>3 DEF PatchType
<1>5. \A t \in Patchers : Reached(t)' = Reached(t)
  BY <1>0 DEF Reached, Passed, ptr
<1>6. PatchedExactly'
  <2> SUFFICES ASSUME NEW q \in TextPages PROVE ExactAt(q)'
    BY ExactForm DEF PatchedExactly, ExactAt
  <2>1. patched'[home'[q]] = patched[home[q]]
    BY <1>0, <1>2, HeldKept
  <2> QED
    BY <1>0, <1>5, <2>1 DEF ExactAt
<1>7. ASSUME NEW t \in Patchers PROVE CallOK(t)'
  <2>1. CallOK(t)
    BY DEF PatchInv
  <2>2. CopyOK(t)'
    BY <1>0, <2>1, HeldKept DEF CallOK, CopyOK, HasOld, HasNew, ptr
  <2> QED
    BY <1>0, <2>1, <2>2 DEF CallOK, PagesHeld, HasOld, HasNew, InRange, At, ptr
<1> QED
  BY <1>3, <1>4, <1>6, <1>7 DEF PatchInv

-----------------------------------------------------------------------------
LEMMA PatchStep ==
    ASSUME PatchInv, [Next]_vars
    PROVE  PatchInv'
<1>1. CASE UNCHANGED vars
  BY <1>1 DEF vars, PatchInv, PatchType, RefsBalanced, PatchedExactly, Reached, Passed, CallOK,
              PagesHeld, HasOld, HasNew, InRange, CopyOK, At, ptr
<1>2. ASSUME NEW t \in Patchers, PatchUserMemory(t) \/ \E r \in Ranges : Call(t, r)
      PROVE  PatchInv'
  <2>1. ASSUME NEW u \in Patchers PROVE CallOK(u)'
    <3>1. CASE u = t
      BY <1>2, <3>1, CallLocals, CopiesKept DEF CallOK
    <3>2. CASE u # t
      <4>1. loc'[u] = loc[u] /\ pc'[u] = pc[u]
        BY <1>2, <3>2, OtherCalls DEF PatchInv
      <4>2. PagesHeld(u)' /\ InRange(u)'
        BY <4>1 DEF PatchInv, CallOK, PagesHeld, HasOld, HasNew, InRange, At, ptr
      <4> QED
        BY <1>2, <4>2, CopiesKept DEF CallOK
    <3> QED
      BY <3>1, <3>2
  <2> QED
    BY <1>2, <2>1, CallTypes, CallRefs, ExactCall DEF PatchInv
<1> QED
  BY <1>1, <1>2, UnmapStep, MigrateStep DEF Next

LEMMA PatchInductive == Spec => []PatchInv
BY PatchInit, PatchStep, PTL DEF Spec

(* Every variable keeps its type and no count of references falls below    *)
(* zero, whatever fails and however often pages move.                      *)
THEOREM PatchTypeCorrect == Spec => []TypeOK
<1>1. PatchInv => TypeOK
  BY DEF PatchInv, PatchType, TypeOK, LocalTypes, ptr
<1> QED
  BY <1>1, PatchInductive, PTL

(* No page is leaked by an error or a retry and none is freed while the    *)
(* program or a call refers to it (arm64/patch.c:140-203).                 *)
THEOREM RefsBalancedHolds == Spec => []RefsBalanced
<1>1. PatchInv => RefsBalanced
  BY DEF PatchInv
<1> QED
  BY <1>1, PatchInductive, PTL

(* The text has LDRFLUSH exactly where a call has passed a load, although  *)
(* a call copies the page before it locks it, and other calls and the      *)
(* kernel may put another page in its place until then                     *)
(* (arm64/patch.c:171-231).                                                *)
THEOREM PatchedExactlyHolds == Spec => []PatchedExactly
<1>1. PatchInv => PatchedExactly
  BY DEF PatchInv
<1> QED
  BY <1>1, PatchInductive, PTL
=============================================================================

------------------------------ MODULE SdccHeap ------------------------------
(***************************************************************************)
(* The heap of the SDCC run-time library: malloc, calloc, realloc and free *)
(* (device/lib/malloc.c, calloc.c, realloc.c, free.c) with the program     *)
(* that calls them.                                                        *)
(*                                                                         *)
(* A block starts with struct header {next, next_free}: every block holds  *)
(* "next", the address of the block after it; the word after it is         *)
(* "next_free" while the block is free and user data while it is live.     *)
(* Blocks are named by their address, so the pointer a caller holds for    *)
(* block b is b + P.  The three list walks are taken one block per step;   *)
(* what follows a walk runs to its return in one step, because the library *)
(* is not re-entrant.                                                      *)
(***************************************************************************)
EXTENDS Integers

CONSTANTS
  HeapStart,  \* HEAP_START: address of __sdcc_heap
  HeapEnd,    \* HEAP_END: the address the last block's next holds
  P,          \* offsetof(struct header, next_free): the size of a pointer
  SizeMod,    \* SIZE_MAX + 1
  LazyInit,   \* TRUE on the ports whose malloc calls __sdcc_heap_init
  Requests,   \* the sizes the program asks for
  Elements    \* the element counts it passes to calloc

ASSUME HeapAssumption ==
  /\ P \in Nat \ {0}
  /\ HeapStart \in Nat \ {0}
  /\ HeapEnd \in Nat
  /\ HeapStart + 2 * P <= HeapEnd
  /\ SizeMod \in Nat
  /\ HeapEnd + 2 * P <= SizeMod
  /\ LazyInit \in BOOLEAN
  /\ Requests \subseteq 0 .. SizeMod - 1
  /\ Elements \subseteq Nat

VARIABLES
  nxt,   \* header.next of every block
  nfr,   \* header.next_free of every free block; nfr[Root] is __sdcc_heap_free
  req,   \* the bytes the program asked for in each of its live blocks
  kept,  \* the offsets of a live block that still hold what was put there
  pc,    \* where the running call is
  op,    \* the call the program made
  ptr,   \* the block free or realloc works on
  arg,   \* the size malloc or realloc works with
  want,  \* the size the program asked for
  h, f, pf  \* h; the block whose next_free *f is; the one whose next_free *pf is

heap == <<nxt, nfr, req, kept>>
call == <<op, ptr, arg, want>>
vars == <<nxt, nfr, req, kept, pc, op, ptr, arg, want, h, f, pf>>

-----------------------------------------------------------------------------
Null == 0
Root == 0  \* the cell __sdcc_heap_free, as a link of the free list

Blocks == DOMAIN nxt
Free == DOMAIN nfr \ {Root}
Live == DOMAIN req

Size(b) == nxt[b] - b

\* The block a request of n bytes needs: its header and at least 2 * P bytes.
Need(n) == IF n + P < 2 * P THEN 2 * P ELSE n + P

\* size + offsetof(struct header, next_free) < size, in the width of size_t
TooLarge(n) == n + P >= SizeMod

Bytes(a, n) == a .. a + n - 1

\* Storing to the next_free of block c; the root lies outside the heap.
LinkField(c) == IF c = Root THEN {} ELSE Bytes(c + P, P)

\* What is left of the live blocks' contents when the bytes "written" change.
Spoil(written) ==
  [b \in Live |-> {i \in kept[b] : b + P + i \notin written}]

-----------------------------------------------------------------------------
Init ==
  /\ nxt = IF LazyInit THEN [b \in {} |-> 0] ELSE [b \in {HeapStart} |-> HeapEnd]
  /\ nfr = IF LazyInit THEN [c \in {Root} |-> Null]
           ELSE [c \in {Root, HeapStart} |-> IF c = Root THEN HeapStart ELSE Null]
  /\ req = [b \in {} |-> 0]
  /\ kept = [b \in {} |-> {}]
  /\ pc = "idle"
  /\ op = "none"
  /\ ptr = Null /\ arg = 0 /\ want = 0
  /\ h = Null /\ f = Root /\ pf = Root

\* __sdcc_heap_init: one free block, which takes the bytes of its header.
HeapInit ==
  /\ nxt' = [b \in Blocks \cup {HeapStart} |-> IF b = HeapStart THEN HeapEnd ELSE nxt[b]]
  /\ nfr' = [c \in {Root, HeapStart} |-> IF c = Root THEN HeapStart ELSE Null]
  /\ kept' = Spoil(Bytes(HeapStart, 2 * P))
  /\ req' = req

\* The test at the head of malloc and realloc.  A heap that is initialised
\* while the program holds blocks is not followed any further.
InitIfEmpty ==
  IF LazyInit /\ nfr[Root] = Null THEN HeapInit ELSE UNCHANGED heap

GoTo(where) ==
  pc' = IF LazyInit /\ nfr[Root] = Null /\ Live # {} THEN "corrupt" ELSE where

\* The locals of a call are gone when it is over.
ClearLocals ==
  /\ op' = "none"
  /\ ptr' = Null /\ arg' = 0 /\ want' = 0
  /\ h' = Null /\ f' = Root /\ pf' = Root

Return == pc' = "idle" /\ ClearLocals

\* The variables of a walk that starts at the head of the list.
StartWalk ==
  /\ h' = nfr'[Root]
  /\ f' = Root
  /\ pf' = Root

-----------------------------------------------------------------------------
(* The calls.  free(NULL) does nothing, and realloc(NULL, n) is malloc(n). *)

\* malloc up to its loop; calloc arrives here with the product it computed.
EnterMalloc(n, wanted, name) ==
  /\ pc = "idle"
  /\ InitIfEmpty
  /\ \/ /\ n = 0 \/ TooLarge(n)
        /\ GoTo("idle")
        /\ ClearLocals
     \/ /\ n # 0 /\ ~TooLarge(n)
        /\ GoTo("first_fit")
        /\ op' = name /\ ptr' = Null /\ arg' = n /\ want' = wanted
        /\ StartWalk

Malloc(n) == EnterMalloc(n, n, "malloc")

\* [mutant] calloc trusts the product as it comes out in size_t.
Calloc_Wraps(m, n) == EnterMalloc((m * n) % SizeMod, m * n, "calloc")

\* The product is formed in unsigned long and refused when it exceeds SIZE_MAX.
Calloc(m, n) ==
  /\ m * n < SizeMod
  /\ EnterMalloc((m * n) % SizeMod, m * n, "calloc")

EnterFree(b) ==
  /\ pc' = "free_walk"
  /\ ptr' = b
  /\ StartWalk

FreeCall(b) ==
  /\ pc = "idle"
  /\ b \in Live
  /\ UNCHANGED heap
  /\ EnterFree(b)
  /\ op' = "free" /\ arg' = 0 /\ want' = 0

\* realloc up to its loop; a size of 0 is a call of free.
Realloc(b, n) ==
  /\ pc = "idle"
  /\ b \in Live
  /\ InitIfEmpty
  /\ GoTo(IF n = 0 THEN "free_walk" ELSE "resize_walk")
  /\ op' = (IF n = 0 THEN "free" ELSE "realloc")
  /\ ptr' = b /\ arg' = n /\ want' = n
  /\ StartWalk

-----------------------------------------------------------------------------
(* malloc: first fit.                                                      *)

\* [mutant] The walk forgets to advance h.
FirstFitNext_Stuck ==
  /\ pc = "first_fit"
  /\ h # Null
  /\ Size(h) < Need(arg)
  /\ f' = h
  /\ UNCHANGED <<heap, call, pc, h, pf>>

FirstFitNext ==
  /\ pc = "first_fit"
  /\ h # Null
  /\ Size(h) < Need(arg)
  /\ f' = h
  /\ h' = nfr[h]
  /\ UNCHANGED <<heap, call, pc, pf>>

\* [mutant] The walk ends at the last block without looking at it.
FirstFitNone_SkipsLast ==
  /\ pc = "first_fit"
  /\ IF h = Null THEN TRUE ELSE nfr[h] = Null
  /\ Return
  /\ UNCHANGED heap

\* The list is exhausted: malloc returns 0, and so does its caller.
FirstFitNone ==
  /\ pc = "first_fit"
  /\ h = Null
  /\ Return
  /\ UNCHANGED heap

\* [mutant] The remainder only has room for half a header.
Splits_HalfHeader(size, need) == size >= need + P

Splits(size, need) == size >= need + 2 * P

\* [mutant] A block that is taken whole stays on the list.
Unlinked_NotDone(cell, b) == nfr

\* The free list without block b, which is the one *cell points to.
Unlinked(cell, b) ==
  [c \in DOMAIN nfr \ {b} |-> IF c = cell THEN nfr[b] ELSE nfr[c]]

\* Take block h off the list, leaving the bytes past "need" in its place when
\* they make a block.
Carve(need) ==
  LET rest == h + need
      split == Splits(Size(h), need)
  IN /\ nxt' = IF split
               THEN [b \in Blocks \cup {rest} |->
                       IF b = h THEN rest ELSE IF b = rest THEN nxt[h] ELSE nxt[b]]
               ELSE nxt
     /\ nfr' = IF split
               THEN [c \in (DOMAIN nfr \ {h}) \cup {rest} |->
                       IF c = f THEN rest ELSE IF c = rest THEN nfr[h] ELSE nfr[c]]
               ELSE Unlinked(f, h)

CarveWrites(need) ==
  LinkField(f) \cup
  IF Splits(Size(h), need) THEN Bytes(h, P) \cup Bytes(h + need, 2 * P) ELSE {}

\* The program gets block h and fills it; kept gains it with all its bytes.
Hand(spoiled, whole) ==
  /\ req' = [b \in Live \cup {h} |-> IF b = h THEN want ELSE req[b]]
  /\ kept' = [b \in Live \cup {h} |-> IF b = h THEN whole ELSE spoiled[b]]

\* malloc found its block and returns it; calloc clears it first.
MallocReturns ==
  /\ pc = "first_fit"
  /\ op # "realloc"
  /\ h # Null
  /\ Size(h) >= Need(arg)
  /\ Carve(Need(arg))
  /\ Hand(Spoil(CarveWrites(Need(arg)) \cup
                IF op = "calloc" THEN Bytes(h + P, arg) ELSE {}),
          0 .. want - 1)
  /\ Return

\* [mutant] The old block is taken to lose a whole header, not a link.
Copied_WholeHeader(n) ==
  IF n <= Size(ptr) - 2 * P THEN n ELSE Size(ptr) - 2 * P

\* What realloc copies: n bytes, or all that the old block can hold.
Copied(n) == IF n <= Size(ptr) - P THEN n ELSE Size(ptr) - P

\* realloc's malloc found a block: memcpy, then free of the old one begins.
\* The program fills the bytes past the old request.
ReallocMoves ==
  /\ pc = "first_fit"
  /\ op = "realloc"
  /\ h # Null
  /\ Size(h) >= Need(arg)
  /\ Carve(Need(arg))
  /\ Hand(Spoil(CarveWrites(Need(arg)) \cup Bytes(h + P, Copied(arg))),
          {i \in kept[ptr] : i < Copied(arg)} \cup (req[ptr] .. want - 1))
  /\ EnterFree(ptr)
  /\ UNCHANGED <<op, arg, want>>

-----------------------------------------------------------------------------
(* free.                                                                   *)

\* [mutant] free and realloc work at the head of the list.
BelowPtr_Never == FALSE

\* h && h < ptr
BelowPtr == h # Null /\ h < ptr + P

FreeNext ==
  /\ pc = "free_walk"
  /\ BelowPtr
  /\ f' = h
  /\ h' = nfr[h]
  /\ UNCHANGED <<heap, call, pc, pf>>

\* [mutant] No merge with the following block.
JoinsNext_Never == FALSE

\* [mutant] The merged block stays linked.
LinkAfter_Dangling == h

\* The block touches the free block after it, the one before it.
JoinsNext == h = nxt[ptr]
JoinsPrev == f # Root /\ nxt[f] = ptr

\* Where a block merged with what follows it ends, and what it links to.
EndAfter == IF JoinsNext THEN nxt[h] ELSE nxt[ptr]
LinkAfter == IF JoinsNext THEN nfr[h] ELSE h

\* Insert ptr between f and h, then merge it with h and into f if they touch.
FreeReturns ==
  LET first == IF JoinsPrev THEN f ELSE ptr
      gone == {b \in {h} : JoinsNext} \cup {b \in {ptr} : JoinsPrev}
      written == LinkField(f) \cup LinkField(ptr) \cup Bytes(first, P)
  IN /\ pc = "free_walk"
     /\ ~BelowPtr
     /\ nxt' = [b \in Blocks \ gone |-> IF b = first THEN EndAfter ELSE nxt[b]]
     /\ nfr' = [c \in (DOMAIN nfr \cup {ptr}) \ gone |->
                  IF c = first THEN LinkAfter ELSE IF c = f THEN ptr ELSE nfr[c]]
     /\ req' = [b \in Live \ {ptr} |-> req[b]]
     /\ kept' = [b \in Live \ {ptr} |-> Spoil(written)[b]]
     /\ Return

-----------------------------------------------------------------------------
(* realloc.                                                                *)

ResizeNext ==
  /\ pc = "resize_walk"
  /\ BelowPtr
  /\ pf' = f
  /\ f' = h
  /\ h' = nfr[h]
  /\ UNCHANGED <<heap, call, pc>>

\* maxblocksize: the block with the free neighbours it can grow into.
MaxBlockSize ==
  Size(ptr) + (IF JoinsPrev THEN ptr - f ELSE 0) + (IF JoinsNext THEN Size(h) ELSE 0)

FitsInPlace == Need(arg) <= MaxBlockSize

\* The size wraps around: realloc returns 0 and leaves the block alone.
ResizeRefused ==
  /\ pc = "resize_walk"
  /\ ~BelowPtr
  /\ TooLarge(arg)
  /\ Return
  /\ UNCHANGED heap

\* [mutant] The memmove forgets that it also carries the header.
MoveLength_NoHeader ==
  IF Need(arg) <= Size(ptr) THEN arg ELSE Size(ptr) - P

\* The length of the memmove into the previous block, the header included.
MoveLength == IF Need(arg) <= Size(ptr) THEN Need(arg) ELSE Size(ptr)

\* Resize in place, which always moves the block into a free previous one.
ResizeInPlace ==
  LET need == Need(arg)
      dst == IF JoinsPrev THEN f ELSE ptr
      cell == IF JoinsPrev THEN pf ELSE f
      split == Splits(MaxBlockSize, need)
      rest == dst + need
      new == {b \in {rest} : split}
      gone == {b \in {h} : JoinsNext} \cup {b \in {f} : JoinsPrev}
      moved == IF JoinsPrev THEN Bytes(dst, MoveLength) ELSE {}
      links == Bytes(dst, P) \cup LinkField(cell) \cup
               (IF split THEN Bytes(rest, 2 * P) ELSE {})
      copied == {i \in kept[ptr] : JoinsPrev => P + i < MoveLength}
      whole == {i \in copied : i < arg} \cup (req[ptr] .. want - 1)
  IN /\ pc = "resize_walk"
     /\ ~BelowPtr
     /\ ~TooLarge(arg)
     /\ FitsInPlace
     /\ nxt' = [b \in ((Blocks \ (gone \cup {ptr})) \cup {dst}) \cup new |->
                  IF b = dst THEN (IF split THEN rest ELSE EndAfter)
                  ELSE IF b \in new THEN EndAfter ELSE nxt[b]]
     /\ nfr' = [c \in (DOMAIN nfr \ gone) \cup new |->
                  IF c = cell THEN (IF split THEN rest ELSE LinkAfter)
                  ELSE IF c \in new THEN LinkAfter ELSE nfr[c]]
     /\ req' = [b \in (Live \ {ptr}) \cup {dst} |-> IF b = dst THEN want ELSE req[b]]
     /\ kept' = [b \in (Live \ {ptr}) \cup {dst} |->
                   IF b = dst THEN {i \in whole : dst + P + i \notin links}
                   ELSE Spoil(moved \cup links)[b]]
     /\ Return

\* No room in place: malloc(size), whose own tests cannot fail here.
ResizeByMoving ==
  /\ pc = "resize_walk"
  /\ ~BelowPtr
  /\ ~TooLarge(arg)
  /\ ~FitsInPlace
  /\ InitIfEmpty
  /\ GoTo("first_fit")
  /\ StartWalk
  /\ UNCHANGED call

-----------------------------------------------------------------------------
Program ==
  \/ \E n \in Requests : Malloc(n)
  \/ \E m \in Elements, n \in Requests : Calloc(m, n)
  \/ \E b \in Live : FreeCall(b)
  \/ \E b \in Live, n \in Requests : Realloc(b, n)

Library ==
  \/ FirstFitNext \/ FirstFitNone \/ MallocReturns \/ ReallocMoves
  \/ FreeNext \/ FreeReturns
  \/ ResizeNext \/ ResizeRefused \/ ResizeInPlace \/ ResizeByMoving

Next == Program \/ Library

Spec == Init /\ [][Next]_vars
FairSpec == Spec /\ WF_vars(Library)

-----------------------------------------------------------------------------
(* Properties.  Once heap_init has run over live blocks nothing holds.     *)

Intact(claim) == pc # "corrupt" => claim

\* Every variable stays in its range: links lead to blocks or to the ends.
TypeOK ==
  /\ nxt = [b \in Blocks |-> nxt[b]]
  /\ nfr = [c \in DOMAIN nfr |-> nfr[c]]
  /\ req = [b \in Live |-> req[b]]
  /\ kept = [b \in Live |-> kept[b]]
  /\ pc \in {"idle", "first_fit", "free_walk", "resize_walk", "corrupt"}
  /\ op \in {"none", "malloc", "calloc", "realloc", "free"}
  /\ arg \in Nat /\ want \in Nat
  /\ Intact(/\ Blocks \subseteq HeapStart .. HeapEnd - 1
            /\ \A b \in Blocks : nxt[b] \in Blocks \cup {HeapEnd}
            /\ Root \in DOMAIN nfr /\ Free \subseteq Blocks
            /\ \A c \in DOMAIN nfr : nfr[c] \in Free \cup {Null}
            /\ Live \subseteq Blocks /\ \A b \in Live : req[b] \in Nat
            /\ f \in DOMAIN nfr /\ h \in Free \cup {Null} /\ pf \in DOMAIN nfr
            /\ ptr \in Live \cup {Null})

\* The "next" links cut the heap into blocks that neither overlap nor leave a
\* gap, each with room for a whole header (malloc.c splits, free.c merges,
\* realloc.c does both and moves a header as well).
HeapTiled ==
  Intact(/\ Blocks # {} => HeapStart \in Blocks
         /\ \A b \in Blocks : /\ Size(b) >= 2 * P
                             /\ \A c \in Blocks : c <= b \/ c >= nxt[b])

\* The free list holds every free block once, lowest address first; the walks
\* of free and realloc stop at the right place only because of this order.
FreeListSorted ==
  Intact(\A c \in DOMAIN nfr :
           /\ nfr[c] # Null => nfr[c] > c
           /\ \A d \in Free : d <= c \/ (nfr[c] # Null /\ d >= nfr[c]))

\* A block is on the free list or the program's, never both, never lost.
FreeOrLive == Intact(Blocks = Free \cup Live /\ Free \cap Live = {})

\* No two free blocks are neighbours after any call: free merges on both
\* sides and the remainder of a realloc never touches a free block.
Coalesced == Intact(\A b \in Free : nxt[b] \notin Free)

\* A live block has room for what the program asked for, also when calloc's
\* product or malloc's sum would wrap around.
Capacity == Intact(\A b \in Live : req[b] + P <= Size(b))

\* No call disturbs the contents of a live block: no header is written into
\* one, and realloc keeps the bytes that both its sizes cover.
LiveDataIntact == \A b \in Live : kept[b] = 0 .. req[b] - 1

\* malloc, calloc and a moving realloc return 0 only when no free block would
\* do, wherever the walk found itself.
FailsOnlyWhenFull ==
  [][pc = "first_fit" /\ pc' = "idle" /\ Live' = Live
       => \A b \in Free : Size(b) < Need(arg)]_vars

\* Every call returns: no walk goes round in a circle.
CallReturns == []<>(pc \in {"idle", "corrupt"})

\* The heap functions keep their promise to the program.
Promise ==
  INSTANCE HeapSpec WITH Heap <- HeapStart .. HeapEnd - 1,
                         Sizes <- 1 .. SizeMod - 1, held <- kept
PromiseKept == Promise!Spec

\* On the ports with the lazy initialisation, malloc and realloc take a heap
\* for uninitialised only when every byte of it belongs to the program.
ReinitOnlyWhenExhausted ==
  [][pc' = "corrupt" /\ pc # "corrupt" => Blocks = Live]_vars

=============================================================================

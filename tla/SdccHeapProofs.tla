--------------------------- MODULE SdccHeapProofs ---------------------------
(***************************************************************************)
(* The heap's structure is an invariant for every heap, pointer size and   *)
(* set of requests: the blocks tile the heap, the free list is exactly the *)
(* non-live blocks in address order, and no two free blocks touch.  What   *)
(* live blocks hold is kept, so that the heap implements HeapSpec.         *)
(***************************************************************************)
EXTENDS SdccHeap, TLAPS

-----------------------------------------------------------------------------
(* The inductive invariant: the shape of the two lists, and where a walk   *)
(* stands in the free list.                                                *)

WellFormed ==
  /\ nxt = [b \in Blocks |-> nxt[b]]
  /\ nfr = [c \in DOMAIN nfr |-> nfr[c]]
  /\ req = [b \in Live |-> req[b]]
  /\ kept = [b \in Live |-> kept[b]]

Locals ==
  /\ pc \in {"idle", "first_fit", "free_walk", "resize_walk", "corrupt"}
  /\ op \in {"none", "malloc", "calloc", "realloc", "free"}
  /\ arg \in Nat /\ want = arg

Tiles ==
  /\ Blocks \subseteq HeapStart .. HeapEnd - 1
  /\ Blocks # {} => HeapStart \in Blocks
  /\ \A b \in Blocks : /\ nxt[b] \in Blocks \cup {HeapEnd}
                       /\ nxt[b] >= b + 2 * P
                       /\ \A c \in Blocks : c <= b \/ c >= nxt[b]

Links ==
  /\ Root \in DOMAIN nfr
  /\ \A c \in DOMAIN nfr :
       /\ nfr[c] \in Free \cup {Null}
       /\ nfr[c] # Null => nfr[c] > c
       /\ \A d \in Free : d <= c \/ (nfr[c] # Null /\ d >= nfr[c])

Owners ==
  /\ Blocks = Free \cup Live
  /\ Free \cap Live = {}
  /\ \A b \in Free : nxt[b] \notin Free
  /\ \A b \in Live : req[b] \in Nat /\ req[b] + P <= nxt[b] - b

\* f and h are a link of the list; free and realloc have not passed ptr.
Walks ==
  /\ f \in DOMAIN nfr /\ h \in Free \cup {Null} /\ pf \in DOMAIN nfr
  /\ ptr \in Live \cup {Null}
  /\ pc # "idle" => h = nfr[f]
  /\ (pc = "first_fit" /\ op = "realloc") \/ pc \in {"free_walk", "resize_walk"}
       => ptr \in Live
  /\ pc \in {"free_walk", "resize_walk"} => f < ptr
  /\ pc = "resize_walk" /\ f # Root => nfr[pf] = f

Inv ==
  /\ WellFormed
  /\ Locals
  /\ pc # "corrupt" => Tiles /\ Links /\ Owners /\ Walks

LEMMA InitInv == Init => Inv
<1> SUFFICES ASSUME Init PROVE Inv
  OBVIOUS
<1>1. WellFormed /\ Locals
  BY DEF Init, WellFormed, Locals, Blocks, Live
<1>2. CASE LazyInit
  <2>1. Blocks = {} /\ Free = {} /\ Live = {} /\ DOMAIN nfr = {Root} /\ nfr[Root] = Null
    BY <1>2 DEF Init, Blocks, Free, Live
  <2> QED
    BY <1>1, <2>1 DEF Init, Inv, Tiles, Links, Owners, Walks, Root, Null
<1>3. CASE ~LazyInit
  <2>1. /\ Blocks = {HeapStart} /\ nxt[HeapStart] = HeapEnd
        /\ Free = {HeapStart} /\ Live = {}
        /\ DOMAIN nfr = {Root, HeapStart}
        /\ nfr[Root] = HeapStart /\ nfr[HeapStart] = Null
    BY <1>3, HeapAssumption DEF Init, Blocks, Free, Live, Root
  <2>2. Tiles /\ Owners /\ Walks
    BY <2>1, HeapAssumption DEF Init, Tiles, Owners, Walks, Root, Null
  <2>3. Links
    BY <2>1, HeapAssumption DEF Links, Root, Null
  <2> QED
    BY <1>1, <2>2, <2>3 DEF Inv
<1> QED
  BY <1>2, <1>3

-----------------------------------------------------------------------------
(* An empty list on a heap that is not exhausted means an untouched heap.  *)

LEMMA HeapInitInv ==
  ASSUME Inv, pc # "corrupt", InitIfEmpty
  PROVE  /\ WellFormed' /\ req' = req
         /\ (LazyInit /\ nfr[Root] = Null => Live = {}) => Tiles' /\ Links' /\ Owners'
<1>1. CASE ~(LazyInit /\ nfr[Root] = Null)
  <2>1. UNCHANGED heap
    BY <1>1 DEF InitIfEmpty
  <2>2. WellFormed' /\ req' = req
    BY <2>1 DEF heap, Inv, WellFormed, Blocks, Live
  <2>3. Tiles' /\ Links' /\ Owners'
    BY <2>1 DEF heap, Inv, Tiles, Links, Owners, Blocks, Free, Live
  <2> QED
    BY <2>2, <2>3
<1>2. CASE LazyInit /\ nfr[Root] = Null
  <2>1. HeapInit
    BY <1>2 DEF InitIfEmpty
  <2>2. WellFormed' /\ req' = req
    BY <2>1 DEF HeapInit, Spoil, Inv, WellFormed, Blocks, Live
  <2>3. ASSUME Live = {} PROVE Tiles' /\ Links' /\ Owners'
    <3>1. Tiles /\ Links /\ Owners
      BY DEF Inv
    <3>2. ASSUME NEW d \in Free PROVE FALSE
      BY <1>2, <3>1, <3>2, HeapAssumption DEF Links, Tiles, Owners, Root, Null, Free
    <3>3. Blocks = {} /\ Free = {}
      BY <2>3, <3>1, <3>2 DEF Owners
    <3>4. /\ Blocks' = {HeapStart} /\ nxt'[HeapStart] = HeapEnd
          /\ Free' = {HeapStart} /\ Live' = {}
          /\ DOMAIN nfr' = {Root, HeapStart}
          /\ nfr'[Root] = HeapStart /\ nfr'[HeapStart] = Null
      BY <2>1, <2>3, <3>3, HeapAssumption DEF HeapInit, Blocks, Free, Live, Root
    <3>5. Tiles' /\ Owners'
      BY <3>4, HeapAssumption DEF Tiles, Owners
    <3>6. Links'
      BY <3>4, HeapAssumption DEF Links, Root, Null
    <3> QED
      BY <3>5, <3>6
  <2> QED
    BY <1>2, <2>2, <2>3
<1> QED
  BY <1>1, <1>2

-----------------------------------------------------------------------------
(* The calls leave the blocks alone and start at the head of the list.     *)

LEMMA StartWalkInv ==
  ASSUME Links', StartWalk
  PROVE  f' \in DOMAIN nfr' /\ h' \in Free' \cup {Null} /\ pf' \in DOMAIN nfr'
         /\ h' = nfr'[f'] /\ f' = Root
  BY DEF Links, StartWalk, Root

LEMMA ClearLocalsInv ==
  ASSUME Links', ClearLocals
  PROVE  /\ f' \in DOMAIN nfr' /\ h' \in Free' \cup {Null} /\ pf' \in DOMAIN nfr'
         /\ ptr' \in Live' \cup {Null} /\ op' = "none" /\ arg' = 0 /\ want' = 0
  BY DEF Links, ClearLocals, Root, Null

LEMMA EnterMallocInv ==
  ASSUME Inv, NEW n \in Nat, NEW name \in {"malloc", "calloc"}, EnterMalloc(n, n, name)
  PROVE  Inv'
<1>1. pc = "idle" /\ InitIfEmpty
  BY DEF EnterMalloc
<1>2. /\ WellFormed' /\ req' = req
      /\ (LazyInit /\ nfr[Root] = Null => Live = {}) => Tiles' /\ Links' /\ Owners'
  BY <1>1, HeapInitInv
<1>3. Locals'
  BY DEF EnterMalloc, GoTo, ClearLocals, Locals
<1>4. ASSUME pc' # "corrupt" PROVE Tiles' /\ Links' /\ Owners' /\ Walks'
  <2>1. Tiles' /\ Links' /\ Owners'
    BY <1>2, <1>4 DEF EnterMalloc, GoTo
  <2>2. CASE ClearLocals /\ pc' = "idle"
    BY <2>1, <2>2, ClearLocalsInv DEF Walks
  <2>3. CASE StartWalk /\ pc' = "first_fit" /\ op' = name /\ ptr' = Null
    BY <2>1, <2>3, StartWalkInv DEF Walks
  <2> QED
    BY <1>4, <2>2, <2>3 DEF EnterMalloc, GoTo
<1> QED
  BY <1>2, <1>3, <1>4 DEF Inv

LEMMA ReallocCallInv ==
  ASSUME Inv, NEW n \in Nat, NEW b \in Live, Realloc(b, n)
  PROVE  Inv'
<1>1. pc = "idle" /\ InitIfEmpty
  BY DEF Realloc
<1>2. /\ WellFormed' /\ req' = req
      /\ (LazyInit /\ nfr[Root] = Null => Live = {}) => Tiles' /\ Links' /\ Owners'
  BY <1>1, HeapInitInv
<1>3. Locals'
  BY DEF Realloc, GoTo, Locals
<1>4. ASSUME pc' # "corrupt" PROVE Tiles' /\ Links' /\ Owners' /\ Walks'
  <2>1. Tiles' /\ Links' /\ Owners'
    BY <1>2, <1>4 DEF Realloc, GoTo
  <2>2. ptr' \in Live' /\ ptr' > Root
    BY <1>2, <2>1, HeapAssumption DEF Realloc, Live, Owners, Tiles, Root
  <2> QED
    BY <2>1, <2>2, <1>4, StartWalkInv DEF Realloc, GoTo, Walks
<1> QED
  BY <1>2, <1>3, <1>4 DEF Inv

LEMMA FreeCallInv ==
  ASSUME Inv, NEW b \in Live, FreeCall(b)
  PROVE  Inv'
<1>1. UNCHANGED heap /\ pc = "idle" /\ pc' = "free_walk"
  BY DEF FreeCall, EnterFree
<1>2. WellFormed' /\ Tiles' /\ Links' /\ Owners'
  BY <1>1 DEF Inv, heap, WellFormed, Tiles, Links, Owners, Blocks, Free, Live
<1>3. Locals'
  BY <1>1 DEF FreeCall, Locals
<1>4. ptr' \in Live' /\ ptr' > Root
  BY <1>1, <1>2, HeapAssumption DEF FreeCall, EnterFree, heap, Live, Owners, Tiles, Root
<1>5. Walks'
  BY <1>1, <1>2, <1>4, StartWalkInv DEF FreeCall, EnterFree, Walks
<1> QED
  BY <1>1, <1>2, <1>3, <1>5 DEF Inv

-----------------------------------------------------------------------------
(* Steps that leave the blocks alone.                                      *)

LEMMA WalkInv ==
  ASSUME Inv, FirstFitNext \/ FreeNext \/ ResizeNext
  PROVE  Inv'
<1>1. UNCHANGED <<heap, call, pc>> /\ pc \notin {"idle", "corrupt"} /\ h # Null
      /\ f' = h /\ h' = nfr[h]
  BY DEF FirstFitNext, FreeNext, ResizeNext, BelowPtr
<1>2. WellFormed' /\ Locals' /\ Tiles' /\ Links' /\ Owners'
  BY <1>1 DEF Inv, heap, call, WellFormed, Locals, Tiles, Links, Owners, Blocks, Free, Live
<1>3. Tiles /\ Links /\ Owners /\ Walks
  BY <1>1 DEF Inv
<1>4. pc \in {"free_walk", "resize_walk"} => h < ptr
  BY <1>1, <1>3, HeapAssumption
     DEF FirstFitNext, FreeNext, ResizeNext, BelowPtr, Walks, Owners, Tiles, Null
<1>5. Walks'
  BY <1>1, <1>3, <1>4 DEF FirstFitNext, FreeNext, ResizeNext, Walks, Links, heap, call,
                          Free, Live, Root, Null
<1> QED
  BY <1>1, <1>2, <1>5 DEF Inv

LEMMA RefusalInv ==
  ASSUME Inv, FirstFitNone \/ ResizeRefused
  PROVE  Inv'
<1>1. UNCHANGED heap /\ pc # "corrupt" /\ pc' = "idle" /\ ClearLocals
  BY DEF FirstFitNone, ResizeRefused, Return
<1>2. WellFormed' /\ Tiles' /\ Links' /\ Owners'
  BY <1>1 DEF Inv, heap, WellFormed, Tiles, Links, Owners, Blocks, Free, Live
<1>3. Locals' /\ Walks'
  BY <1>1, <1>2, ClearLocalsInv DEF Locals, Walks
<1> QED
  BY <1>2, <1>3 DEF Inv

LEMMA ResizeByMovingInv ==
  ASSUME Inv, ResizeByMoving
  PROVE  Inv'
<1>1. pc = "resize_walk" /\ InitIfEmpty
  BY DEF ResizeByMoving
<1>2. /\ WellFormed' /\ req' = req
      /\ (LazyInit /\ nfr[Root] = Null => Live = {}) => Tiles' /\ Links' /\ Owners'
  BY <1>1, HeapInitInv
<1>3. Locals'
  BY <1>1 DEF ResizeByMoving, GoTo, Inv, Locals, call
<1>4. ASSUME pc' # "corrupt" PROVE Tiles' /\ Links' /\ Owners' /\ Walks'
  <2>1. Tiles' /\ Links' /\ Owners'
    BY <1>2, <1>4 DEF ResizeByMoving, GoTo
  <2>2. ptr' \in Live'
    BY <1>1, <1>2 DEF ResizeByMoving, Inv, Walks, call, Live
  <2> QED
    BY <2>1, <2>2, <1>4, StartWalkInv DEF ResizeByMoving, GoTo, Walks
<1> QED
  BY <1>2, <1>3, <1>4 DEF Inv

-----------------------------------------------------------------------------
(* malloc takes block h off the list, whole or carved.                     *)

LEMMA CarveInv ==
  ASSUME Inv, pc = "first_fit", h # Null, Size(h) >= Need(arg), Carve(Need(arg)),
         req' = [b \in Live \cup {h} |-> IF b = h THEN want ELSE req[b]]
  PROVE  Tiles' /\ Links' /\ Owners' /\ (\A b \in Live : b \in Live')
<1> DEFINE need == Need(arg)
           rest == h + need
<1>1. Tiles /\ Links /\ Owners /\ Walks /\ Locals
  BY DEF Inv
<1>2. /\ need \in Nat /\ need >= 2 * P /\ need >= arg + P
      /\ arg \in Nat /\ want = arg /\ P \in Nat /\ P > 0
  BY <1>1, HeapAssumption DEF Need, Locals
<1>3. /\ h \in Free /\ h \in Blocks /\ h \notin Live /\ h = nfr[f] /\ f \in DOMAIN nfr
      /\ h \in Nat /\ h > 0 /\ nxt[h] \in Nat /\ Size(h) = nxt[h] - h /\ f < h /\ f # h
      /\ f \in Nat
  BY <1>1, HeapAssumption DEF Tiles, Links, Owners, Walks, Size, Free, Root, Null
<1>7. /\ \A d \in Free : d \in Nat /\ d > 0 /\ d \in Blocks /\ d \in DOMAIN nfr
      /\ \A c \in DOMAIN nfr : c \in Nat /\ (c # Root => c \in Free)
  BY <1>1, HeapAssumption DEF Tiles, Owners, Free, Root
<1>8. \A c \in DOMAIN nfr : nfr[c] = h => c = f
  BY <1>1, <1>3, <1>7 DEF Links, Null, Root
<1>9. /\ nfr[h] = Null \/ (nfr[h] \in Free /\ nfr[h] > h)
      /\ \A d \in Free : d <= h \/ (nfr[h] # Null /\ d >= nfr[h])
      /\ \A d \in Free : d <= f \/ d >= h
  BY <1>1, <1>3, <1>7 DEF Links
<1>10. \A b \in Blocks : /\ b \in Nat /\ nxt[b] \in Nat
                         /\ nxt[b] \in Blocks \cup {HeapEnd}
                         /\ nxt[b] >= b + 2 * P
                         /\ \A c \in Blocks : c <= b \/ c >= nxt[b]
  <2>1. \A b \in Blocks : b \in Nat
    BY <1>1, HeapAssumption DEF Tiles
  <2>2. \A b \in Blocks : nxt[b] \in Nat /\ nxt[b] \in Blocks \cup {HeapEnd}
    BY <2>1, <1>1, HeapAssumption DEF Tiles
  <2> QED
    BY <2>1, <2>2, <1>1 DEF Tiles
<1>11. \A c \in DOMAIN nfr : nfr[c] \in Nat
  BY <1>1, <1>7 DEF Links, Null
<1>4. Live' = Live \cup {h} /\ req'[h] = arg /\ \A b \in Live : req'[b] = req[b]
  BY <1>2, <1>3 DEF Live
<1>5. CASE Splits(Size(h), need)
  <2>1. nxt[h] >= rest + 2 * P /\ rest \in Nat /\ rest >= h + 2 * P /\ rest > h
    BY <1>2, <1>3, <1>5 DEF Splits
  <2>2. rest \notin Blocks /\ rest # HeapEnd /\ rest \in HeapStart .. HeapEnd - 1 /\ rest # Root /\ rest # f
    BY <1>1, <1>2, <1>3, <2>1, HeapAssumption DEF Tiles, Root
  <2>3. /\ Blocks' = Blocks \cup {rest}
        /\ nxt'[h] = rest /\ nxt'[rest] = nxt[h]
        /\ \A b \in Blocks : b # h => nxt'[b] = nxt[b]
    BY <1>3, <1>5, <2>2 DEF Carve, Blocks
  <2>4. /\ DOMAIN nfr' = (DOMAIN nfr \ {h}) \cup {rest}
        /\ nfr'[f] = rest /\ nfr'[rest] = nfr[h]
        /\ \A c \in DOMAIN nfr \ {h} : c # f => nfr'[c] = nfr[c]
    <3>1. rest \notin DOMAIN nfr
      BY <1>1, <2>2 DEF Owners, Free
    <3>2. nfr' = [c \in (DOMAIN nfr \ {h}) \cup {rest} |->
                    IF c = f THEN rest ELSE IF c = rest THEN nfr[h] ELSE nfr[c]]
      BY <1>5 DEF Carve
    <3> QED
      BY <1>3, <2>2, <3>1, <3>2
  <2> HIDE DEF rest, need
  <2>5. Free' = (Free \ {h}) \cup {rest}
    BY <2>2, <2>4, <1>3 DEF Free
  <2>6. Tiles'
    <3>1. Blocks' \subseteq HeapStart .. HeapEnd - 1 /\ HeapStart \in Blocks'
      BY <1>1, <1>3, <2>2, <2>3 DEF Tiles
    <3>2. ASSUME NEW b \in Blocks'
          PROVE  /\ nxt'[b] \in Blocks' \cup {HeapEnd}
                 /\ nxt'[b] >= b + 2 * P
                 /\ \A c \in Blocks' : c <= b \/ c >= nxt'[b]
      <4>1. CASE b = h
        <5>1. nxt'[b] = rest
          BY <4>1, <2>3
        <5>2. \A c \in Blocks : c <= h \/ c >= rest
          BY <1>2, <1>3, <1>10, <2>1
        <5>3. \A c \in Blocks' : c <= b \/ c >= nxt'[b]
          BY <4>1, <5>1, <5>2, <2>1, <2>3
        <5>4. nxt'[b] \in Blocks'
          BY <5>1, <2>3
        <5> QED
          BY <4>1, <5>1, <5>3, <5>4, <2>1
      <4>2. CASE b = rest
        <5>1. nxt'[b] = nxt[h]
          BY <4>2, <2>3
        <5>2. \A c \in Blocks : c <= rest \/ c >= nxt[h]
          BY <1>3, <1>10, <2>1
        <5>3. \A c \in Blocks' : c <= b \/ c >= nxt'[b]
          BY <4>2, <5>1, <5>2, <2>1, <2>3
        <5>4. nxt'[b] \in Blocks' \cup {HeapEnd}
          BY <5>1, <1>3, <1>10, <2>3
        <5> QED
          BY <4>2, <5>1, <5>3, <5>4, <2>1
      <4>3. CASE b \in Blocks \ {h}
        <5>1. nxt'[b] = nxt[b]
          BY <4>3, <2>3
        <5>2. rest <= b \/ rest >= nxt[b]
          BY <4>3, <1>2, <1>3, <1>10, <2>1
        <5> QED
          BY <4>3, <5>1, <5>2, <1>10, <2>3
      <4> QED
        BY <4>1, <4>2, <4>3, <2>3
    <3> QED
      BY <3>1, <3>2 DEF Tiles
  <2>7. Links'
    <3>1. Root \in DOMAIN nfr'
      BY <1>1, <1>3, <2>4 DEF Links, Root
    <3>2. \A d \in Free : d <= h \/ d >= nxt[h]
      BY <1>1, <1>3 DEF Tiles, Owners
    <3>3. ASSUME NEW c \in DOMAIN nfr'
          PROVE  /\ nfr'[c] \in Free' \cup {Null}
                 /\ nfr'[c] # Null => nfr'[c] > c
      <4>1. CASE c = f
        BY <4>1, <1>3, <2>1, <2>4, <2>5
      <4>2. CASE c = rest
        <5>1. nfr'[c] = nfr[h] /\ Free' = (Free \ {h}) \cup {rest}
          BY <4>2, <2>4, <2>5
        <5>2. rest \in Nat /\ h \in Nat /\ rest > h /\ nxt[h] \in Nat /\ rest < nxt[h]
          BY <1>2, <1>3, <2>1
        <5>3. nfr[h] # Null => nfr[h] > h /\ nfr[h] \in Free /\ nfr[h] \in Nat
          BY <1>9, <1>7
        <5>4. nfr[h] # Null => nfr[h] >= nxt[h]
          BY <5>2, <5>3, <3>2
        <5> QED
          BY <4>2, <5>1, <5>2, <5>3, <5>4
      <4>3. CASE c \in DOMAIN nfr \ {h, f}
        BY <4>3, <1>1, <1>3, <1>7, <1>8, <2>4, <2>5 DEF Links, Null, Root
      <4> QED
        BY <4>1, <4>2, <4>3, <2>4
    <3>4. ASSUME NEW c \in DOMAIN nfr', NEW d \in Free'
          PROVE  d <= c \/ (nfr'[c] # Null /\ d >= nfr'[c])
      <4>1. CASE c = f
        BY <4>1, <1>1, <1>3, <1>2, <1>7, <2>1, <2>2, <2>4, <2>5, <3>2 DEF Links, Null, Root
      <4>2. CASE c = rest
        BY <4>2, <1>1, <1>3, <1>2, <1>7, <2>1, <2>2, <2>4, <2>5 DEF Links, Null, Root
      <4>3. CASE c \in DOMAIN nfr \ {h, f}
        <5>1. nfr'[c] = nfr[c] /\ nfr[c] # h /\ c # h
          BY <4>3, <1>8, <2>4
        <5>2. /\ c \in Nat /\ (c # Root => c \in Free) /\ nfr[c] \in Free \cup {Null}
              /\ \A e \in Free : e <= c \/ (nfr[c] # Null /\ e >= nfr[c])
          BY <4>3, <1>1, <1>7 DEF Links
        <5>3. rest <= c \/ (nfr[c] # Null /\ rest >= nfr[c])
          <6>1. h < c \/ (nfr[c] # Null /\ h > nfr[c])
            <7>1. h <= c \/ (nfr[c] # Null /\ h >= nfr[c])
              BY <1>3, <5>2
            <7>2. nfr[c] \in Nat /\ c \in Nat /\ h \in Nat
              BY <4>3, <1>3, <1>7, <1>11
            <7> QED
              BY <7>1, <7>2, <5>1
          <6>2. h < c => c >= nxt[h]
            BY <1>3, <3>2, <5>2 DEF Root
          <6> QED
            <7>1. nfr[c] \in Nat /\ c \in Nat /\ h \in Nat /\ nxt[h] \in Nat /\ rest \in Nat
              BY <4>3, <1>3, <1>7, <1>11, <2>1
            <7>2. rest > h /\ rest <= nxt[h]
              BY <7>1, <1>2, <2>1
            <7> QED
              BY <6>1, <6>2, <7>1, <7>2
        <5> QED
          BY <5>1, <5>2, <5>3, <2>5
      <4> QED
        BY <4>1, <4>2, <4>3, <2>4
    <3> QED
      BY <3>1, <3>3, <3>4 DEF Links
  <2>8. Owners'
    <3>1. Blocks' = Free' \cup Live'
      BY <1>1, <1>3, <1>4, <2>3, <2>5 DEF Owners
    <3>2. Free' \cap Live' = {}
      BY <1>1, <1>3, <1>4, <2>2, <2>5 DEF Owners
    <3>3. ASSUME NEW b \in Free' PROVE nxt'[b] \notin Free'
      <4>1. CASE b = rest
        <5>1. nxt'[b] = nxt[h] /\ nxt[h] \notin Free /\ nxt[h] # rest
          BY <4>1, <1>1, <1>2, <1>3, <2>1, <2>3 DEF Owners
        <5> QED
          BY <5>1, <2>5
      <4>2. CASE b \in Free \ {h}
        <5>1. nxt'[b] = nxt[b] /\ nxt[b] \notin Free
          BY <4>2, <1>1, <1>7, <2>3 DEF Owners
        <5>2. nxt[b] # rest
          BY <4>2, <1>7, <1>10, <2>2
        <5> QED
          BY <5>1, <5>2, <2>5
      <4> QED
        BY <4>1, <4>2, <2>5
    <3>4. ASSUME NEW b \in Live' PROVE req'[b] \in Nat /\ req'[b] + P <= nxt'[b] - b
      <4>1. CASE b = h
        <5>1. nxt'[b] = rest /\ req'[b] = arg /\ rest = h + need
          BY <4>1, <1>4, <2>3 DEF rest
        <5> QED
          BY <4>1, <5>1, <1>2, <1>3
      <4>2. CASE b \in Live
        BY <4>2, <1>1, <1>3, <1>4, <2>3 DEF Owners
      <4> QED
        BY <4>1, <4>2, <1>4
    <3> QED
      BY <3>1, <3>2, <3>3, <3>4 DEF Owners
  <2> QED
    BY <1>4, <2>6, <2>7, <2>8
<1>6. CASE ~Splits(Size(h), need)
  <2>1. /\ nxt' = nxt /\ Blocks' = Blocks
        /\ DOMAIN nfr' = DOMAIN nfr \ {h}
        /\ nfr'[f] = nfr[h]
        /\ \A c \in DOMAIN nfr \ {h} : c # f => nfr'[c] = nfr[c]
        /\ Free' = Free \ {h}
    BY <1>3, <1>6 DEF Carve, Unlinked, Blocks, Free
  <2>2. Tiles'
    BY <1>1, <2>1 DEF Tiles
  <2>3. Links'
    <3>1. Root \in DOMAIN nfr'
      BY <1>1, <1>3, <2>1 DEF Links, Root
    <3>2. ASSUME NEW c \in DOMAIN nfr'
          PROVE  /\ nfr'[c] \in Free' \cup {Null}
                 /\ nfr'[c] # Null => nfr'[c] > c
      <4>1. CASE c = f
        <5>1. nfr'[c] = nfr[h] /\ Free' = Free \ {h}
          BY <4>1, <2>1
        <5>2. f < h /\ f \in Nat /\ h \in Nat
          BY <1>3
        <5>3. nfr[h] # Null => nfr[h] > h /\ nfr[h] \in Free /\ nfr[h] \in Nat
          BY <1>9, <1>7
        <5> QED
          BY <4>1, <5>1, <5>2, <5>3
      <4>2. CASE c # f
        BY <4>2, <1>1, <1>3, <1>7, <1>8, <2>1 DEF Links, Null, Root
      <4> QED
        BY <4>1, <4>2
    <3>3. ASSUME NEW c \in DOMAIN nfr', NEW d \in Free'
          PROVE  d <= c \/ (nfr'[c] # Null /\ d >= nfr'[c])
      BY <1>1, <1>3, <1>7, <1>8, <2>1 DEF Links, Null, Root
    <3> QED
      BY <3>1, <3>2, <3>3 DEF Links
  <2>4. Owners'
    BY <1>1, <1>2, <1>3, <1>4, <2>1, HeapAssumption DEF Owners, Tiles
  <2> QED
    BY <1>4, <2>2, <2>3, <2>4
<1> QED
  BY <1>5, <1>6

LEMMA MallocReturnsInv ==
  ASSUME Inv, MallocReturns
  PROVE  Inv'
<1>1. WellFormed'
  BY DEF MallocReturns, Carve, Unlinked, Hand, Inv, WellFormed, Blocks, Live
<1>2. Tiles' /\ Links' /\ Owners'
  BY CarveInv DEF MallocReturns, Hand
<1>3. Locals' /\ Walks'
  BY <1>2, ClearLocalsInv DEF MallocReturns, Return, Locals, Walks
<1> QED
  BY <1>1, <1>2, <1>3 DEF Inv

LEMMA ReallocMovesInv ==
  ASSUME Inv, ReallocMoves
  PROVE  Inv'
<1>1. WellFormed'
  BY DEF ReallocMoves, Carve, Unlinked, Hand, Inv, WellFormed, Blocks, Live
<1>2. Tiles' /\ Links' /\ Owners' /\ \A b \in Live : b \in Live'
  BY CarveInv DEF ReallocMoves, Hand
<1>3. Locals'
  BY DEF ReallocMoves, EnterFree, Inv, Locals
<1>4. ptr' \in Live' /\ ptr' > Root
  BY <1>2, HeapAssumption DEF ReallocMoves, EnterFree, Inv, Walks, Tiles, Owners, Root
<1>5. Walks'
  BY <1>2, <1>4, StartWalkInv DEF ReallocMoves, EnterFree, Walks
<1> QED
  BY <1>1, <1>2, <1>3, <1>5 DEF Inv

-----------------------------------------------------------------------------
(* What the list updates of free and realloc start from.                   *)

LEMMA Facts ==
  ASSUME Inv, pc # "corrupt"
  PROVE  /\ P \in Nat /\ P > 0
         /\ \A b \in Blocks : /\ b \in Nat /\ b > 0 /\ nxt[b] \in Nat
                             /\ nxt[b] \in Blocks \cup {HeapEnd}
                             /\ nxt[b] >= b + 2 * P /\ nxt[b] > b
                             /\ \A c \in Blocks : c <= b \/ c >= nxt[b]
         /\ \A d \in Free : d \in Nat /\ d > 0 /\ d \in Blocks /\ d \in DOMAIN nfr
         /\ \A c \in DOMAIN nfr : c \in Nat /\ nfr[c] \in Nat /\ (c # Root => c \in Free)
         /\ \A b, c \in Blocks : nxt[b] = nxt[c] => b = c
         /\ \A c, d \in DOMAIN nfr : nfr[c] = nfr[d] /\ nfr[c] # Null => c = d
<1>1. Tiles /\ Links /\ Owners /\ P \in Nat /\ P > 0
  BY HeapAssumption DEF Inv
<1>2. \A b \in Blocks : b \in Nat /\ b > 0
  BY <1>1, HeapAssumption DEF Tiles
<1>3. \A b \in Blocks : nxt[b] \in Nat /\ nxt[b] \in Blocks \cup {HeapEnd}
  BY <1>1, <1>2, HeapAssumption DEF Tiles
<1>4. \A b \in Blocks : /\ nxt[b] >= b + 2 * P /\ nxt[b] > b
                        /\ \A c \in Blocks : c <= b \/ c >= nxt[b]
  BY <1>1, <1>2, <1>3 DEF Tiles
<1>5. \A d \in Free : d \in Nat /\ d > 0 /\ d \in Blocks /\ d \in DOMAIN nfr
  BY <1>1, <1>2 DEF Owners, Free
<1>6. \A c \in DOMAIN nfr : c \in Nat /\ (c # Root => c \in Free)
  BY <1>5 DEF Free, Root
<1>7. \A c \in DOMAIN nfr : nfr[c] \in Nat
  BY <1>1, <1>5 DEF Links, Null
<1>8. ASSUME NEW b \in Blocks, NEW c \in Blocks, nxt[b] = nxt[c] PROVE b = c
  BY <1>2, <1>3, <1>4, <1>8
<1>9. ASSUME NEW c \in DOMAIN nfr, NEW d \in DOMAIN nfr, nfr[c] = nfr[d], nfr[c] # Null
      PROVE  c = d
  <2>1. /\ c \in Nat /\ d \in Nat /\ nfr[c] > c /\ nfr[d] > d
        /\ c # Root => c <= d \/ c >= nfr[d]
        /\ d # Root => d <= c \/ d >= nfr[c]
    BY <1>1, <1>6, <1>9 DEF Links
  <2> QED
    BY <2>1, <1>7, <1>9 DEF Root
<1> QED
  BY <1>1, <1>2, <1>3, <1>4, <1>5, <1>6, <1>7, <1>8, <1>9

(* Where the walk of free and realloc stands when it stops: f and h are    *)
(* the free blocks around ptr, and they touch it exactly when one does.    *)

LEMMA Around ==
  ASSUME Inv, pc \in {"free_walk", "resize_walk"}, ~BelowPtr
  PROVE  /\ ptr \in Live /\ ptr \in Blocks /\ ptr \notin Free /\ ptr \notin DOMAIN nfr
         /\ f \in DOMAIN nfr /\ h = nfr[f] /\ f < ptr
         /\ h # Null => h \in Free /\ h > ptr /\ h >= nxt[ptr]
         /\ \A d \in Free : d <= f \/ (h # Null /\ d >= h)
         /\ JoinsNext => h # Null
         /\ nxt[ptr] \in Free => JoinsNext
         /\ \A d \in Free : nxt[d] = ptr => d = f /\ JoinsPrev
         /\ JoinsPrev => f \in Free
<1>1. Tiles /\ Links /\ Owners /\ Walks /\ pc # "corrupt"
  BY DEF Inv
<1>2. /\ ptr \in Live /\ ptr \in Blocks /\ ptr \notin Free
      /\ f \in DOMAIN nfr /\ h = nfr[f] /\ f < ptr
  BY <1>1 DEF Walks, Owners
<1>3. ptr \in Nat /\ ptr > 0 /\ nxt[ptr] \in Nat /\ nxt[ptr] > ptr /\ f \in Nat /\ h \in Nat
  BY <1>1, <1>2, Facts
<1>4. ptr \notin DOMAIN nfr
  BY <1>2, <1>3 DEF Free, Root
<1>5. h # Null => h \in Free /\ h > ptr /\ h >= nxt[ptr]
  <2>1. h # Null => h \in Free /\ h \in Blocks
    BY <1>1, <1>2, Facts DEF Links
  <2>2. h # Null => h >= ptr + P
    BY <1>1, <1>3, Facts DEF BelowPtr
  <2>3. h # Null => h <= ptr \/ h >= nxt[ptr]
    BY <1>1, <1>2, <2>1, Facts
  <2> QED
    BY <1>1, <1>3, <2>1, <2>2, <2>3, Facts
<1>6. \A d \in Free : d <= f \/ (h # Null /\ d >= h)
  BY <1>1, <1>2 DEF Links
<1>7. JoinsNext => h # Null
  BY <1>3 DEF JoinsNext, Null
<1>8. nxt[ptr] \in Free => JoinsNext
  BY <1>2, <1>3, <1>5, <1>6 DEF JoinsNext
<1>9. ASSUME NEW d \in Free, nxt[d] = ptr PROVE d = f /\ JoinsPrev
  <2>1. d \in Nat /\ d > 0 /\ d \in Blocks /\ d < ptr
    BY <1>1, <1>9, Facts
  <2>2. d <= f
    BY <1>3, <1>5, <1>6, <2>1
  <2>3. f # Root
    BY <2>1, <2>2 DEF Root
  <2>4. f \in Blocks
    BY <1>1, <1>2, <2>3, Facts
  <2>5. f <= d \/ f >= nxt[d]
    BY <1>1, <2>1, <2>4, Facts
  <2>6. d = f
    BY <1>2, <1>3, <1>9, <2>1, <2>2, <2>5
  <2> QED
    BY <1>9, <2>3, <2>6 DEF JoinsPrev
<1>10. JoinsPrev => f \in Free
  BY <1>1, <1>2, Facts DEF JoinsPrev
<1> QED
  BY <1>2, <1>4, <1>5, <1>6, <1>7, <1>8, <1>9, <1>10

-----------------------------------------------------------------------------
(* The stretch of memory free and realloc cut anew: ptr with the free      *)
(* blocks that touch it, from Low to High.                                 *)

Low == IF JoinsPrev THEN f ELSE ptr
High == EndAfter
Gone == {b \in {h} : JoinsNext} \cup {b \in {f} : JoinsPrev} \cup {ptr}
Rest == Free \ Gone

LEMMA Stretch ==
  ASSUME Inv, pc \in {"free_walk", "resize_walk"}, ~BelowPtr
  PROVE  /\ Low \in Blocks /\ Low \in Nat /\ Low > 0 /\ Low <= ptr
         /\ High \in Nat /\ High \in (Blocks \ Gone) \cup {HeapEnd}
         /\ High >= nxt[ptr] /\ High >= Low + 2 * P
         /\ \A b \in Blocks \ Gone : /\ b < Low \/ b >= High
                                     /\ b < Low => nxt[b] <= Low
                                     /\ nxt[b] \in (Blocks \ Gone) \cup {HeapEnd, Low}
         /\ High \notin Rest
         /\ \A b \in Rest : nxt[b] # Low
<1> USE DEF Low, High, EndAfter
<1>1. /\ ptr \in Blocks /\ ptr \notin Free /\ f < ptr
      /\ JoinsNext => h # Null /\ h \in Free /\ h > ptr
      /\ JoinsPrev => f \in Free
      /\ nxt[ptr] \in Free => JoinsNext
      /\ \A d \in Free : nxt[d] = ptr => d = f /\ JoinsPrev
  BY Around
<1>2. /\ P \in Nat /\ P > 0
      /\ \A b \in Blocks : /\ b \in Nat /\ b > 0 /\ nxt[b] \in Nat
                          /\ nxt[b] \in Blocks \cup {HeapEnd}
                          /\ nxt[b] >= b + 2 * P /\ nxt[b] > b
                          /\ \A c \in Blocks : c <= b \/ c >= nxt[b]
      /\ \A d \in Free : d \in Blocks
      /\ \A b, c \in Blocks : nxt[b] = nxt[c] => b = c
  BY Facts
<1>3. JoinsNext => h = nxt[ptr]
  BY DEF JoinsNext
<1>4. JoinsPrev => nxt[f] = ptr
  BY DEF JoinsPrev
<1>5. \A b \in Free : nxt[b] \notin Free
  BY DEF Inv, Owners
<1>6. Low \in Blocks /\ Low \in Nat /\ Low > 0 /\ Low <= ptr /\ ptr \in Nat
  BY <1>1, <1>2
<1>7. High \in Nat /\ High >= nxt[ptr] /\ nxt[ptr] \in Nat
  BY <1>1, <1>2, <1>3
<1>8. High >= Low + 2 * P
  <2>1. nxt[ptr] >= ptr + 2 * P
    BY <1>1, <1>2
  <2> QED
    BY <2>1, <1>2, <1>6, <1>7
<1>9. High \in (Blocks \ Gone) \cup {HeapEnd}
  <2>1. High > ptr
    BY <1>1, <1>2, <1>6, <1>7
  <2>2. High \in Blocks \cup {HeapEnd}
    BY <1>1, <1>2
  <2>3. JoinsNext => High # h
    BY <1>1, <1>2
  <2>4. JoinsPrev => High # f
    BY <1>1, <1>2, <1>6, <1>7, <2>1
  <2> QED
    BY <2>1, <2>2, <2>3, <2>4, <1>6, <1>7 DEF Gone
<1>10. ASSUME NEW b \in Blocks \ Gone
       PROVE  /\ b < Low \/ b >= High
              /\ b < Low => nxt[b] <= Low
              /\ nxt[b] \in (Blocks \ Gone) \cup {HeapEnd, Low}
  <2>1. b # ptr /\ (JoinsNext => b # h) /\ (JoinsPrev => b # f)
    BY DEF Gone
  <2>2. b < ptr \/ b >= nxt[ptr]
    BY <2>1, <1>1, <1>2
  <2>3. b > ptr => b >= High
    BY <2>1, <2>2, <1>1, <1>2, <1>3
  <2>4. b < ptr => b < Low
    BY <2>1, <1>1, <1>2, <1>4
  <2>5. b < Low \/ b >= High
    BY <2>2, <2>3, <2>4, <1>1, <1>2
  <2>6. b < Low => nxt[b] <= Low
    BY <1>2, <1>6
  <2>7. nxt[b] # ptr \/ Low = ptr
    BY <2>1, <1>1, <1>2, <1>4
  <2>8. JoinsNext => nxt[b] # h
    BY <2>1, <1>1, <1>2, <1>3
  <2> QED
    BY <2>5, <2>6, <2>7, <2>8, <1>2 DEF Gone
<1>11. High \notin Rest
  <2>1. CASE JoinsNext
    BY <2>1, <1>1, <1>5 DEF Rest
  <2>2. CASE ~JoinsNext
    BY <2>2, <1>1 DEF Rest
  <2> QED
    BY <2>1, <2>2
<1>12. ASSUME NEW b \in Rest PROVE nxt[b] # Low
  <2>1. b \in Free /\ (JoinsPrev => b # f)
    BY DEF Rest, Gone
  <2> QED
    BY <2>1, <1>1, <1>5
<1> QED
  BY <1>6, <1>7, <1>8, <1>9, <1>10, <1>11, <1>12

\* The list without that stretch; nothing of it lies between f and LinkAfter.
LEMMA StretchLinks ==
  ASSUME Inv, pc \in {"free_walk", "resize_walk"}, ~BelowPtr
  PROVE  /\ LinkAfter \in Rest \cup {Null} /\ LinkAfter \in Nat
         /\ LinkAfter # Null => LinkAfter >= High
         /\ \A d \in Rest : d <= f \/ (LinkAfter # Null /\ d >= LinkAfter)
<1>1. /\ h = nfr[f] /\ f \in DOMAIN nfr /\ f < ptr /\ ptr \in Blocks /\ ptr \notin Free
      /\ h # Null => h \in Free /\ h > ptr /\ h >= nxt[ptr]
      /\ \A d \in Free : d <= f \/ (h # Null /\ d >= h)
      /\ JoinsNext => h # Null
      /\ JoinsPrev => f \in Free
  BY Around
<1>2. /\ \A b \in Blocks : b \in Nat /\ nxt[b] \in Nat /\ nxt[b] > b
                          /\ \A c \in Blocks : c <= b \/ c >= nxt[b]
      /\ \A d \in Free : d \in Nat /\ d > 0 /\ d \in Blocks /\ d \in DOMAIN nfr
      /\ \A c \in DOMAIN nfr : c \in Nat /\ nfr[c] \in Nat
  BY Facts
<1>3. \A c \in DOMAIN nfr :
         /\ nfr[c] \in Free \cup {Null}
         /\ nfr[c] # Null => nfr[c] > c
         /\ \A d \in Free : d <= c \/ (nfr[c] # Null /\ d >= nfr[c])
  BY DEF Inv, Links
<1>4. CASE JoinsNext
  <2>1. /\ h \in Free /\ h \in Nat /\ h > ptr /\ ptr \in Nat /\ f \in Nat /\ f < h
        /\ LinkAfter = nfr[h] /\ High = nxt[h] /\ nxt[h] \in Nat /\ h \in DOMAIN nfr
    BY <1>1, <1>2, <1>4 DEF LinkAfter, High, EndAfter
  <2>2. LinkAfter \in Nat /\ LinkAfter \in Free \cup {Null} /\ (LinkAfter # Null => LinkAfter > h)
    BY <2>1, <1>2, <1>3
  <2>3. LinkAfter # Null => LinkAfter >= High /\ LinkAfter \in Rest
    BY <2>1, <2>2, <1>1, <1>2 DEF Rest, Gone
  <2>4. ASSUME NEW d \in Rest PROVE d <= f \/ (LinkAfter # Null /\ d >= LinkAfter)
    <3>1. d \in Free /\ d # h /\ d \in Nat
      BY <1>2, <1>4 DEF Rest, Gone
    <3>2. d <= f \/ d >= h
      BY <3>1, <1>1
    <3>3. d <= h \/ (nfr[h] # Null /\ d >= nfr[h])
      BY <3>1, <2>1, <1>3
    <3> QED
      BY <3>1, <3>2, <3>3, <2>1
  <2> QED
    BY <2>2, <2>3, <2>4
<1>5. CASE ~JoinsNext
  <2>1. LinkAfter = h /\ High = nxt[ptr] /\ h \in Nat
    BY <1>1, <1>2, <1>5 DEF LinkAfter, High, EndAfter
  <2>2. h # Null => h \in Rest
    BY <1>1, <1>2, <1>5 DEF Rest, Gone
  <2>3. \A d \in Rest : d <= f \/ (h # Null /\ d >= h)
    BY <1>1 DEF Rest
  <2> QED
    BY <1>1, <2>1, <2>2, <2>3
<1> QED
  BY <1>4, <1>5

-----------------------------------------------------------------------------
(* free.                                                                   *)

LEMMA FreeReturnsInv ==
  ASSUME Inv, FreeReturns
  PROVE  Inv'
<1>1. pc = "free_walk" /\ ~BelowPtr /\ Return
  BY DEF FreeReturns
<1>2. /\ Low \in Blocks /\ Low \in Nat /\ Low > 0 /\ Low <= ptr
      /\ High \in Nat /\ High \in (Blocks \ Gone) \cup {HeapEnd}
      /\ High >= nxt[ptr] /\ High >= Low + 2 * P
      /\ \A b \in Blocks \ Gone : /\ b < Low \/ b >= High
                                  /\ b < Low => nxt[b] <= Low
                                  /\ nxt[b] \in (Blocks \ Gone) \cup {HeapEnd, Low}
      /\ High \notin Rest
      /\ \A b \in Rest : nxt[b] # Low
  BY <1>1, Stretch
<1>3. /\ LinkAfter \in Rest \cup {Null} /\ LinkAfter \in Nat
      /\ LinkAfter # Null => LinkAfter >= High
      /\ \A d \in Rest : d <= f \/ (LinkAfter # Null /\ d >= LinkAfter)
  BY <1>1, StretchLinks
<1>4. /\ P \in Nat /\ P > 0
      /\ \A b \in Blocks : /\ b \in Nat /\ b > 0 /\ nxt[b] \in Nat
                          /\ nxt[b] \in Blocks \cup {HeapEnd}
                          /\ nxt[b] >= b + 2 * P /\ nxt[b] > b
                          /\ \A c \in Blocks : c <= b \/ c >= nxt[b]
      /\ \A d \in Free : d \in Nat /\ d > 0 /\ d \in Blocks /\ d \in DOMAIN nfr
      /\ \A c \in DOMAIN nfr : c \in Nat /\ nfr[c] \in Nat /\ (c # Root => c \in Free)
      /\ \A c, d \in DOMAIN nfr : nfr[c] = nfr[d] /\ nfr[c] # Null => c = d
  BY <1>1, Facts
<1>5. /\ ptr \in Live /\ ptr \in Blocks /\ ptr \notin Free /\ ptr \notin DOMAIN nfr
      /\ f \in DOMAIN nfr /\ h = nfr[f] /\ f < ptr
      /\ h # Null => h \in Free /\ h > ptr
      /\ \A d \in Free : d <= f \/ (h # Null /\ d >= h)
      /\ JoinsNext => h # Null
      /\ JoinsPrev => f \in Free
  BY <1>1, Around
<1>6. Tiles /\ Links /\ Owners
  BY <1>1 DEF Inv
<1>7. WellFormed'
  BY DEF FreeReturns, Inv, WellFormed, Blocks, Live
<1>8. /\ Blocks' = (Blocks \ Gone) \cup {Low}
      /\ nxt'[Low] = High
      /\ \A b \in Blocks \ Gone : b # Low => nxt'[b] = nxt[b]
  <2>1. nxt' = [b \in Blocks \ ({x \in {h} : JoinsNext} \cup {x \in {ptr} : JoinsPrev})
                  |-> IF b = Low THEN High ELSE nxt[b]]
    BY DEF FreeReturns, Low, High
  <2>2. Blocks \ ({x \in {h} : JoinsNext} \cup {x \in {ptr} : JoinsPrev})
          = (Blocks \ Gone) \cup {Low}
    BY <1>4, <1>5 DEF Gone, Low
  <2> QED
    BY <2>1, <2>2 DEF Blocks
<1>9. /\ DOMAIN nfr' = (DOMAIN nfr \ Gone) \cup {Low}
      /\ nfr'[Low] = LinkAfter
      /\ f # Low => nfr'[f] = ptr
      /\ \A c \in DOMAIN nfr \ Gone : c # Low /\ c # f => nfr'[c] = nfr[c]
      /\ Free' = Rest \cup {Low}
  <2>1. nfr' = [c \in (DOMAIN nfr \cup {ptr}) \ ({x \in {h} : JoinsNext} \cup {x \in {ptr} : JoinsPrev})
                  |-> IF c = Low THEN LinkAfter ELSE IF c = f THEN ptr ELSE nfr[c]]
    BY DEF FreeReturns, Low
  <2>2. (DOMAIN nfr \cup {ptr}) \ ({x \in {h} : JoinsNext} \cup {x \in {ptr} : JoinsPrev})
          = (DOMAIN nfr \ Gone) \cup {Low}
    BY <1>4, <1>5 DEF Gone, Low
  <2>3. f # Low => f \in DOMAIN nfr \ Gone
    BY <1>4, <1>5 DEF Gone, Low, Null
  <2>4. Low # Root
    BY <1>2 DEF Root
  <2> QED
    BY <2>1, <2>2, <2>3, <2>4 DEF Free, Rest
<1>10. Live' = Live \ {ptr} /\ \A b \in Live' : req'[b] = req[b]
  BY DEF FreeReturns, Live
<1>11. Tiles'
  <2>1. Blocks' \subseteq HeapStart .. HeapEnd - 1 /\ HeapStart \in Blocks'
    <3>1. HeapStart \in Gone => HeapStart = Low
      <4>1. HeapStart \in Blocks /\ \A b \in Blocks : b >= HeapStart
        BY <1>5, <1>6 DEF Tiles
      <4>2. Low = f \/ (Low = ptr /\ ~JoinsPrev)
        BY DEF Low
      <4>3. f \in Nat /\ ptr \in Nat /\ h \in Nat
        BY <1>4, <1>5
      <4>4. CASE HeapStart = ptr
        BY <4>1, <4>2, <4>3, <4>4, <1>2, <1>5
      <4>5. CASE JoinsNext /\ HeapStart = h
        BY <4>1, <4>3, <4>5, <1>5
      <4>6. CASE JoinsPrev /\ HeapStart = f
        BY <4>6 DEF Low
      <4> QED
        BY <4>4, <4>5, <4>6 DEF Gone
    <3> QED
      BY <3>1, <1>2, <1>5, <1>6, <1>8 DEF Tiles
  <2>2. ASSUME NEW b \in Blocks'
        PROVE  /\ nxt'[b] \in Blocks' \cup {HeapEnd}
               /\ nxt'[b] >= b + 2 * P
               /\ \A c \in Blocks' : c <= b \/ c >= nxt'[b]
    <3>1. CASE b = Low
      <4>1. nxt'[b] = High /\ High > Low
        BY <3>1, <1>2, <1>4, <1>8
      <4>2. \A c \in Blocks' : c <= b \/ c >= nxt'[b]
        BY <3>1, <4>1, <1>2, <1>4, <1>8
      <4> QED
        BY <3>1, <4>1, <4>2, <1>2, <1>8
    <3>2. CASE b \in Blocks \ Gone /\ b # Low
      <4>1. nxt'[b] = nxt[b] /\ b \in Nat /\ nxt[b] \in Nat
        BY <3>2, <1>4, <1>8
      <4>2. Low <= b \/ Low >= nxt[b]
        BY <3>2, <1>2, <1>4
      <4> QED
        BY <3>2, <4>1, <4>2, <1>2, <1>4, <1>8
    <3> QED
      BY <3>1, <3>2, <1>8
  <2> QED
    BY <2>1, <2>2 DEF Tiles
<1>12. Links'
  <2>1. Root \in DOMAIN nfr'
    BY <1>4, <1>5, <1>6, <1>9 DEF Links, Gone, Root, Null
  <2>2. f \in Nat /\ ptr \in Nat /\ h \in Nat /\ nxt[ptr] > ptr /\ nxt[ptr] \in Nat
    BY <1>4, <1>5
  <2>3. Low < High /\ f <= Low
    BY <1>2, <1>5, <2>2 DEF Low
  <2>4. \A d \in Rest : d \in Nat /\ d \in Free
    BY <1>4 DEF Rest
  <2>5. ASSUME NEW c \in DOMAIN nfr'
        PROVE  /\ nfr'[c] \in Free' \cup {Null}
               /\ nfr'[c] # Null => nfr'[c] > c
               /\ \A d \in Free' : d <= c \/ (nfr'[c] # Null /\ d >= nfr'[c])
    <3>1. CASE c = Low
      <4>1. \A d \in Rest : d <= Low \/ (LinkAfter # Null /\ d >= LinkAfter)
        BY <1>2, <1>3, <2>2, <2>3, <2>4
      <4> QED
        BY <3>1, <4>1, <1>2, <1>3, <1>9, <2>3
    <3>2. CASE c # Low /\ c = f
      <4>1. Low = ptr /\ nfr'[c] = ptr /\ ptr # Null
        BY <3>2, <1>2, <1>9, <2>2 DEF Low, Null
      <4>2. \A d \in Rest : d <= f \/ d >= ptr
        BY <1>5, <2>2, <2>4
      <4> QED
        BY <3>2, <4>1, <4>2, <1>5, <1>9, <2>2
    <3>3. CASE c \in DOMAIN nfr \ Gone /\ c # Low /\ c # f
      <4>1. nfr'[c] = nfr[c] /\ c \in Nat /\ nfr[c] \in Nat
        BY <3>3, <1>4, <1>9
      <4>2. /\ nfr[c] \in Free \cup {Null}
            /\ nfr[c] # Null => nfr[c] > c
            /\ \A d \in Free : d <= c \/ (nfr[c] # Null /\ d >= nfr[c])
        BY <3>3, <1>6 DEF Links
      <4>3. nfr[c] # Null => nfr[c] # h
        BY <3>3, <1>4, <1>5
      <4>4. nfr[c] # ptr \/ nfr[c] = Null
        BY <4>2, <1>5
      <4>5. nfr'[c] \in Free' \cup {Null}
        BY <4>1, <4>2, <4>3, <4>4, <1>9, <1>5 DEF Rest, Gone, Low
      <4>6. f <= c \/ (nfr[c] # Null /\ f >= nfr[c])
        BY <4>1, <4>2, <1>4, <1>5 DEF Root
      <4>7. c > f => c >= High
        <5>1. c > f => c \in Rest
          BY <3>3, <4>1, <1>4, <2>2 DEF Rest, Root
        <5>2. c > f => LinkAfter # Null /\ c >= LinkAfter
          BY <5>1, <4>1, <1>3, <2>2
        <5> QED
          BY <5>2, <4>1, <1>2, <1>3, <2>2
      <4>8. Low <= c \/ (nfr[c] # Null /\ Low >= nfr[c])
        BY <3>3, <4>1, <4>6, <4>7, <1>2, <2>2, <2>3
      <4> QED
        BY <4>1, <4>2, <4>5, <4>8, <1>9, <2>4
    <3> QED
      BY <3>1, <3>2, <3>3, <1>9
  <2> QED
    BY <2>1, <2>5 DEF Links
<1>13. Owners'
  <2>1. Blocks' = Free' \cup Live'
    BY <1>5, <1>6, <1>8, <1>9, <1>10 DEF Owners, Rest, Gone
  <2>2. Free' \cap Live' = {}
    BY <1>5, <1>6, <1>9, <1>10 DEF Owners, Rest, Low
  <2>3. ASSUME NEW b \in Free' PROVE nxt'[b] \notin Free'
    <3>1. CASE b = Low
      <4>1. nxt'[b] = High /\ High # Low
        BY <3>1, <1>2, <1>4, <1>8
      <4> QED
        BY <4>1, <1>2, <1>9
    <3>2. CASE b \in Rest /\ b # Low
      <4>1. b \in Free /\ b \in Blocks \ Gone
        BY <3>2, <1>4 DEF Rest
      <4>2. nxt'[b] = nxt[b] /\ nxt[b] \notin Free /\ nxt[b] # Low
        BY <3>2, <4>1, <1>2, <1>6, <1>8 DEF Owners
      <4> QED
        BY <4>2, <1>9 DEF Rest
    <3> QED
      BY <3>1, <3>2, <1>9
  <2>4. ASSUME NEW b \in Live' PROVE req'[b] \in Nat /\ req'[b] + P <= nxt'[b] - b
    <3>1. b \in Live /\ b \in Blocks \ Gone /\ b # Low
      BY <1>5, <1>6, <1>10 DEF Owners, Gone, Low
    <3> QED
      BY <3>1, <1>6, <1>8, <1>10 DEF Owners
  <2> QED
    BY <2>1, <2>2, <2>3, <2>4 DEF Owners
<1>14. Locals' /\ Walks'
  BY <1>1, <1>12, ClearLocalsInv DEF Return, Locals, Walks
<1> QED
  BY <1>7, <1>11, <1>12, <1>13, <1>14 DEF Inv

-----------------------------------------------------------------------------
(* realloc in place.                                                       *)

\* The link that will lead past the resized block.
Cell == IF JoinsPrev THEN pf ELSE f

LEMMA CellFacts ==
  ASSUME Inv, pc = "resize_walk", ~BelowPtr
  PROVE  /\ Cell \in DOMAIN nfr \ Gone /\ Cell \in Nat /\ Cell < Low
         /\ \A d \in Rest : d <= Cell \/ (LinkAfter # Null /\ d >= LinkAfter)
         /\ \A c \in DOMAIN nfr \ Gone : c # Cell =>
              /\ nfr[c] \in Rest \cup {Null}
              /\ (c < Cell /\ nfr[c] # Null /\ nfr[c] <= Cell) \/ c >= High
         /\ MaxBlockSize = High - Low
<1>1. /\ ptr \in Blocks /\ ptr \notin Free /\ ptr \notin DOMAIN nfr
      /\ f \in DOMAIN nfr /\ h = nfr[f] /\ f < ptr
      /\ h # Null => h \in Free /\ h > ptr
      /\ JoinsNext => h # Null
      /\ JoinsPrev => f \in Free
  BY Around
<1>2. /\ Low \in Nat /\ Low > 0 /\ High \in Nat
      /\ \A b \in Blocks \ Gone : b < Low \/ b >= High
  BY Stretch
<1>3. /\ LinkAfter \in Rest \cup {Null} /\ LinkAfter \in Nat
      /\ LinkAfter # Null => LinkAfter >= High
      /\ \A d \in Rest : d <= f \/ (LinkAfter # Null /\ d >= LinkAfter)
  BY StretchLinks
<1>4. /\ P \in Nat /\ P > 0
      /\ \A b \in Blocks : b \in Nat /\ b > 0 /\ nxt[b] \in Nat /\ nxt[b] > b
      /\ \A d \in Free : d \in Nat /\ d > 0 /\ d \in Blocks /\ d \in DOMAIN nfr
      /\ \A c \in DOMAIN nfr : c \in Nat /\ nfr[c] \in Nat /\ (c # Root => c \in Free)
      /\ \A c, d \in DOMAIN nfr : nfr[c] = nfr[d] /\ nfr[c] # Null => c = d
  BY Facts
<1>5. \A c \in DOMAIN nfr :
         /\ nfr[c] \in Free \cup {Null}
         /\ nfr[c] # Null => nfr[c] > c
         /\ \A d \in Free : d <= c \/ (nfr[c] # Null /\ d >= nfr[c])
  BY DEF Inv, Links
<1>6. pf \in DOMAIN nfr /\ (f # Root => nfr[pf] = f)
  BY DEF Inv, Walks
<1>7. f \in Nat /\ h \in Nat /\ ptr \in Nat /\ pf \in Nat
  BY <1>1, <1>4, <1>6
<1>8. MaxBlockSize = High - Low
  BY <1>1, <1>4, <1>7 DEF MaxBlockSize, High, Low, EndAfter, Size, JoinsPrev, JoinsNext
<1>9. JoinsPrev => f # Root /\ f # Null /\ nfr[pf] = f /\ pf < f
  BY <1>5, <1>6 DEF JoinsPrev, Root, Null
<1>10. Cell \in DOMAIN nfr /\ Cell \in Nat /\ Cell < Low /\ Cell < ptr
  BY <1>1, <1>6, <1>7, <1>9 DEF Cell, Low
<1>11. Cell \notin Gone
  <2>1. Cell # h \/ ~JoinsNext
    BY <1>1, <1>7, <1>10
  <2>2. JoinsPrev => Cell # f
    BY <1>7, <1>9 DEF Cell
  <2> QED
    BY <2>1, <2>2, <1>1, <1>10 DEF Gone
<1>12. ASSUME NEW d \in Rest PROVE d <= Cell \/ (LinkAfter # Null /\ d >= LinkAfter)
  <2>1. CASE JoinsPrev
    <3>1. d \in Free /\ d # f /\ d \in Nat
      BY <2>1, <1>4 DEF Rest, Gone
    <3>2. d <= pf \/ d >= f
      BY <2>1, <3>1, <1>5, <1>6, <1>9
    <3>3. d <= f \/ (LinkAfter # Null /\ d >= LinkAfter)
      BY <1>3
    <3> QED
      BY <2>1, <3>1, <3>2, <3>3, <1>7 DEF Cell
  <2>2. CASE ~JoinsPrev
    BY <2>2, <1>3 DEF Cell
  <2> QED
    BY <2>1, <2>2
<1>13. ASSUME NEW c \in DOMAIN nfr \ Gone, c # Cell
       PROVE  /\ nfr[c] \in Rest \cup {Null}
              /\ (c < Cell /\ nfr[c] # Null /\ nfr[c] <= Cell) \/ c >= High
  <2>1. c \in Nat /\ nfr[c] \in Nat /\ nfr[c] \in Free \cup {Null}
    BY <1>4, <1>5
  <2>2. c # f
    BY <1>13 DEF Cell, Gone
  <2>3. nfr[c] # Null => nfr[c] # h
    BY <2>2, <1>1, <1>4
  <2>4. JoinsPrev => nfr[c] # f
    BY <1>4, <1>6, <1>9, <1>13 DEF Cell
  <2>5. nfr[c] \in Rest \cup {Null}
    BY <2>1, <2>3, <2>4, <1>1 DEF Rest, Gone
  <2>6. c > Cell => c >= High
    <3>1. c > Cell => c \in Rest
      BY <2>1, <1>4, <1>10 DEF Rest, Root
    <3> QED
      BY <3>1, <2>1, <1>2, <1>3, <1>10, <1>12
  <2>7. c < Cell => nfr[c] # Null /\ nfr[c] <= Cell
    BY <2>1, <1>4, <1>5, <1>10 DEF Root
  <2> QED
    BY <2>1, <2>5, <2>6, <2>7, <1>10, <1>13
<1> QED
  BY <1>8, <1>10, <1>11, <1>12, <1>13

LEMMA ResizeInPlaceInv ==
  ASSUME Inv, ResizeInPlace
  PROVE  Inv'
<1> DEFINE need == Need(arg)
           rest == Low + need
           split == Splits(MaxBlockSize, need)
           new == {b \in {rest} : split}
<1>1. pc = "resize_walk" /\ ~BelowPtr /\ Return /\ FitsInPlace
  BY DEF ResizeInPlace
<1>2. /\ Low \in Blocks /\ Low \in Nat /\ Low > 0
      /\ High \in Nat /\ High \in (Blocks \ Gone) \cup {HeapEnd}
      /\ High >= Low + 2 * P
      /\ \A b \in Blocks \ Gone : /\ b < Low \/ b >= High
                                  /\ b < Low => nxt[b] <= Low
                                  /\ nxt[b] \in (Blocks \ Gone) \cup {HeapEnd, Low}
      /\ High \notin Rest
      /\ \A b \in Rest : nxt[b] # Low
  BY <1>1, Stretch
<1>3. /\ LinkAfter \in Rest \cup {Null} /\ LinkAfter \in Nat
      /\ LinkAfter # Null => LinkAfter >= High
  BY <1>1, StretchLinks
<1>4. /\ Cell \in DOMAIN nfr \ Gone /\ Cell \in Nat /\ Cell < Low
      /\ \A d \in Rest : d <= Cell \/ (LinkAfter # Null /\ d >= LinkAfter)
      /\ \A c \in DOMAIN nfr \ Gone : c # Cell =>
           /\ nfr[c] \in Rest \cup {Null}
           /\ (c < Cell /\ nfr[c] # Null /\ nfr[c] <= Cell) \/ c >= High
      /\ MaxBlockSize = High - Low
  BY <1>1, CellFacts
<1>5. /\ P \in Nat /\ P > 0
      /\ \A b \in Blocks : /\ b \in Nat /\ b > 0 /\ nxt[b] \in Nat
                          /\ nxt[b] >= b + 2 * P /\ nxt[b] > b
                          /\ \A c \in Blocks : c <= b \/ c >= nxt[b]
      /\ \A d \in Free : d \in Nat /\ d > 0 /\ d \in Blocks /\ d \in DOMAIN nfr
      /\ \A c \in DOMAIN nfr : c \in Nat /\ nfr[c] \in Nat /\ (c # Root => c \in Free)
  BY <1>1, Facts
<1>6. /\ ptr \in Live /\ ptr \in Blocks /\ ptr \notin Free
      /\ f \in DOMAIN nfr /\ f < ptr /\ f \in Nat
      /\ h # Null => h \in Free /\ h > ptr
      /\ JoinsNext => h # Null
      /\ JoinsPrev => f \in Free
  BY <1>1, <1>5, Around
<1>7. Tiles /\ Links /\ Owners /\ Locals
  BY <1>1 DEF Inv
<1>8. WellFormed'
  BY DEF ResizeInPlace, Inv, WellFormed, Blocks, Live
<1>9. /\ need \in Nat /\ need >= 2 * P /\ need >= arg + P
      /\ arg \in Nat /\ want = arg /\ rest \in Nat /\ rest <= High
      /\ rest > Low /\ rest >= Low + 2 * P
  <2>1. need \in Nat /\ need >= 2 * P /\ need >= arg + P /\ arg \in Nat /\ want = arg
    BY <1>5, <1>7 DEF Need, Locals
  <2>2. need <= High - Low
    BY <1>1, <1>4 DEF FitsInPlace
  <2> QED
    BY <2>1, <2>2, <1>2, <1>5
<1>10. split => High >= rest + 2 * P /\ rest < High
  BY <1>2, <1>4, <1>5, <1>9 DEF Splits
<1>11. split => rest \notin Blocks \ Gone /\ rest # Low /\ rest # Cell
  BY <1>2, <1>4, <1>5, <1>9, <1>10
<1>12. /\ Blocks' = ((Blocks \ Gone) \cup {Low}) \cup new
       /\ nxt'[Low] = IF split THEN rest ELSE High
       /\ split => nxt'[rest] = High
       /\ \A b \in Blocks \ Gone : nxt'[b] = nxt[b]
  <2>1. nxt' = [b \in ((Blocks \ (({x \in {h} : JoinsNext} \cup {x \in {f} : JoinsPrev})
                                 \cup {ptr})) \cup {Low}) \cup new
                  |-> IF b = Low THEN (IF split THEN rest ELSE High)
                      ELSE IF b \in new THEN High ELSE nxt[b]]
    BY DEF ResizeInPlace, Low, High
  <2>2. \A b \in Blocks \ Gone : b # Low
    BY <1>2, <1>5
  <2> HIDE DEF rest, split
  <2>3. DOMAIN nxt' = ((Blocks \ Gone) \cup {Low}) \cup new
    BY <2>1 DEF Gone
  <2> QED
    BY <2>1, <2>2, <2>3, <1>11 DEF Blocks, Gone
<1>13. /\ DOMAIN nfr' = (DOMAIN nfr \ Gone) \cup new
       /\ nfr'[Cell] = IF split THEN rest ELSE LinkAfter
       /\ split => nfr'[rest] = LinkAfter
       /\ \A c \in DOMAIN nfr \ Gone : c # Cell => nfr'[c] = nfr[c]
       /\ Free' = Rest \cup new
  <2>1. nfr' = [c \in (DOMAIN nfr \ ({x \in {h} : JoinsNext} \cup {x \in {f} : JoinsPrev})) \cup new
                  |-> IF c = Cell THEN (IF split THEN rest ELSE LinkAfter)
                      ELSE IF c \in new THEN LinkAfter ELSE nfr[c]]
    BY DEF ResizeInPlace, Low, Cell
  <2>2. \A c \in DOMAIN nfr : c # ptr
    BY <1>5, <1>6 DEF Root
  <2>3. split => rest \notin DOMAIN nfr \ Gone /\ rest # Root
    <3>1. rest > 0 /\ rest # Root
      BY <1>2, <1>9 DEF Root
    <3> QED
      BY <3>1, <1>5, <1>11
  <2> HIDE DEF rest, split
  <2>4. DOMAIN nfr' = (DOMAIN nfr \ Gone) \cup new
    BY <2>1, <2>2 DEF Gone
  <2>5. Free' = Rest \cup new
    BY <2>3, <2>4 DEF Free, Rest
  <2> QED
    BY <2>1, <2>2, <2>3, <2>4, <2>5, <1>4, <1>11 DEF Gone
<1>14. Live' = (Live \ {ptr}) \cup {Low} /\ \A b \in Live' : req'[b] = IF b = Low THEN arg ELSE req[b]
  BY <1>9 DEF ResizeInPlace, Live, Low
<1> HIDE DEF need, rest, split
<1>15. Tiles'
  <2>1. Blocks' \subseteq HeapStart .. HeapEnd - 1 /\ HeapStart \in Blocks'
    <3>1. HeapStart \in Gone => HeapStart = Low
      <4>1. HeapStart \in Blocks /\ \A b \in Blocks : b >= HeapStart
        BY <1>6, <1>7 DEF Tiles
      <4>2. CASE HeapStart = ptr
        BY <4>1, <4>2, <1>2, <1>5, <1>6 DEF Low
      <4>3. CASE JoinsNext /\ HeapStart = h
        BY <4>1, <4>3, <1>5, <1>6
      <4>4. CASE JoinsPrev /\ HeapStart = f
        BY <4>4 DEF Low
      <4> QED
        BY <4>2, <4>3, <4>4 DEF Gone
    <3>2. HeapStart \in Blocks'
      BY <3>1, <1>2, <1>7, <1>12 DEF Tiles
    <3>3. split => rest \in HeapStart .. HeapEnd - 1
      <4>1. HeapStart <= Low /\ High <= HeapEnd /\ HeapEnd \in Nat /\ HeapStart \in Nat
        BY <1>2, <1>7, HeapAssumption DEF Tiles
      <4> QED
        BY <4>1, <1>2, <1>9, <1>10
    <3> QED
      BY <3>2, <3>3, <1>2, <1>7, <1>12 DEF Tiles
  <2>2. ASSUME NEW b \in Blocks'
        PROVE  /\ nxt'[b] \in Blocks' \cup {HeapEnd}
               /\ nxt'[b] >= b + 2 * P
               /\ \A c \in Blocks' : c <= b \/ c >= nxt'[b]
    <3>1. CASE b = Low
      <4>1. \A c \in Blocks \ Gone : c <= b \/ c >= nxt'[b]
        BY <3>1, <1>2, <1>5, <1>9, <1>12
      <4>2. split => rest >= nxt'[b]
        BY <3>1, <1>9, <1>12
      <4>3. nxt'[b] >= b + 2 * P
        BY <3>1, <1>2, <1>9, <1>12
      <4>4. nxt'[b] \in Blocks' \cup {HeapEnd}
        BY <3>1, <1>2, <1>12
      <4>5. ASSUME NEW c \in Blocks' PROVE c <= b \/ c >= nxt'[b]
        <5>1. c \in Blocks \ Gone \/ c = Low \/ (split /\ c = rest)
          BY <1>12
        <5>2. CASE c \in Blocks \ Gone
          BY <5>2, <4>1
        <5>3. CASE c = Low
          BY <5>3, <3>1, <1>2
        <5>4. CASE split /\ c = rest
          BY <5>4, <4>2
        <5> QED
          BY <5>1, <5>2, <5>3, <5>4
      <4> QED
        BY <4>3, <4>4, <4>5
    <3>2. CASE split /\ b = rest
      <4>1. \A c \in Blocks \ Gone : c <= b \/ c >= nxt'[b]
        BY <3>2, <1>2, <1>5, <1>9, <1>12
      <4>2. nxt'[b] >= b + 2 * P
        BY <3>2, <1>10, <1>12
      <4>3. nxt'[b] \in Blocks' \cup {HeapEnd}
        BY <3>2, <1>2, <1>12
      <4>4. \A c \in Blocks' : c \in Blocks \ Gone \/ c = Low \/ c = b
        BY <3>2, <1>12
      <4>5. Low <= b /\ b <= b
        BY <3>2, <1>2, <1>9
      <4> QED
        BY <4>1, <4>2, <4>3, <4>4, <4>5
    <3>3. CASE b \in Blocks \ Gone
      <4>1. nxt'[b] = nxt[b] /\ b \in Nat /\ nxt[b] \in Nat
        BY <3>3, <1>5, <1>12
      <4>2. Low <= b \/ Low >= nxt[b]
        BY <3>3, <1>2, <1>5
      <4>3. split => rest <= b \/ rest >= nxt[b]
        BY <3>3, <4>1, <1>2, <1>9, <1>10
      <4>4. nxt'[b] \in Blocks' \cup {HeapEnd}
        BY <3>3, <4>1, <1>2, <1>12
      <4> QED
        BY <3>3, <4>1, <4>2, <4>3, <4>4, <1>5, <1>12
    <3> QED
      BY <3>1, <3>2, <3>3, <1>12
  <2> QED
    BY <2>1, <2>2 DEF Tiles
<1>16. Links'
  <2>1. Root \in DOMAIN nfr'
    BY <1>5, <1>6, <1>7, <1>13 DEF Links, Gone, Root, Null
  <2>2. \A d \in Rest : d \in Nat /\ d \in Free /\ d \in Blocks \ Gone
    BY <1>5 DEF Rest
  <2>3. ASSUME NEW c \in DOMAIN nfr'
        PROVE  /\ nfr'[c] \in Free' \cup {Null}
               /\ nfr'[c] # Null => nfr'[c] > c
               /\ \A d \in Free' : d <= c \/ (nfr'[c] # Null /\ d >= nfr'[c])
    <3>1. CASE c = Cell /\ split
      <4>1. nfr'[c] = rest /\ rest # Null /\ rest > c
        BY <3>1, <1>2, <1>4, <1>9, <1>13 DEF Null
      <4>2. \A d \in Rest : d <= c \/ d >= rest
        BY <3>1, <2>2, <1>2, <1>3, <1>4, <1>9
      <4> QED
        BY <3>1, <4>1, <4>2, <1>9, <1>13
    <3>2. CASE c = Cell /\ ~split
      <4>1. nfr'[c] = LinkAfter
        BY <3>2, <1>13
      <4>2. LinkAfter # Null => LinkAfter > c
        BY <3>2, <1>2, <1>3, <1>4, <1>9
      <4> QED
        BY <3>2, <4>1, <4>2, <1>3, <1>4, <1>13
    <3>3. CASE split /\ c = rest
      <4>1. nfr'[c] = LinkAfter
        BY <3>3, <1>13
      <4>2. LinkAfter # Null => LinkAfter > c
        BY <3>3, <1>2, <1>3, <1>9, <1>10
      <4>3. \A d \in Rest : d <= c \/ (LinkAfter # Null /\ d >= LinkAfter)
        BY <3>3, <2>2, <1>2, <1>4, <1>9
      <4> QED
        BY <3>3, <4>1, <4>2, <4>3, <1>3, <1>9, <1>13
    <3>4. CASE c \in DOMAIN nfr \ Gone /\ c # Cell
      <4>1. /\ nfr'[c] = nfr[c] /\ c \in Nat /\ nfr[c] \in Nat
            /\ nfr[c] \in Rest \cup {Null}
            /\ (c < Cell /\ nfr[c] # Null /\ nfr[c] <= Cell) \/ c >= High
        BY <3>4, <1>4, <1>5, <1>13
      <4>2. /\ nfr[c] # Null => nfr[c] > c
            /\ \A d \in Rest : d <= c \/ (nfr[c] # Null /\ d >= nfr[c])
        BY <3>4, <2>2, <1>7 DEF Links
      <4>3. split => rest <= c \/ (nfr[c] # Null /\ rest >= nfr[c])
        BY <4>1, <1>2, <1>4, <1>9
      <4> QED
        BY <4>1, <4>2, <4>3, <1>13
    <3> QED
      BY <3>1, <3>2, <3>3, <3>4, <1>13
  <2> QED
    BY <2>1, <2>3 DEF Links
<1>17. Owners'
  <2>1. Blocks' = Free' \cup Live'
    BY <1>6, <1>7, <1>12, <1>13, <1>14 DEF Owners, Rest, Gone
  <2>2. Free' \cap Live' = {}
    <3>1. Low \notin Rest
      BY <1>6 DEF Low, Rest, Gone
    <3>2. split => rest \notin Live \ {ptr}
      BY <1>6, <1>7, <1>11 DEF Owners, Gone
    <3> QED
      BY <3>1, <3>2, <1>7, <1>11, <1>13, <1>14 DEF Owners, Rest
  <2>3. ASSUME NEW b \in Free' PROVE nxt'[b] \notin Free'
    <3>1. CASE split /\ b = rest
      <4>1. nxt'[b] = High /\ High # rest
        BY <3>1, <1>2, <1>9, <1>10, <1>12
      <4> QED
        BY <4>1, <1>2, <1>13
    <3>2. CASE b \in Rest
      <4>1. b \in Free /\ b \in Blocks \ Gone
        BY <3>2, <1>5 DEF Rest
      <4>2. nxt'[b] = nxt[b] /\ nxt[b] \notin Free
        BY <4>1, <1>7, <1>12 DEF Owners
      <4>3. split => nxt[b] # rest
        <5>1. nxt[b] \in (Blocks \ Gone) \cup {HeapEnd, Low}
          BY <4>1, <1>2
        <5>2. High <= HeapEnd /\ HeapEnd \in Nat
          BY <1>2, <1>7, HeapAssumption DEF Tiles
        <5> QED
          BY <5>1, <5>2, <1>2, <1>9, <1>10, <1>11
      <4> QED
        BY <4>2, <4>3, <1>13 DEF Rest
    <3> QED
      BY <3>1, <3>2, <1>13
  <2>4. ASSUME NEW b \in Live' PROVE req'[b] \in Nat /\ req'[b] + P <= nxt'[b] - b
    <3>1. CASE b = Low
      <4>1. nxt'[b] \in Nat /\ nxt'[b] >= rest
        BY <3>1, <1>2, <1>9, <1>12
      <4> QED
        BY <3>1, <4>1, <1>2, <1>5, <1>9, <1>14 DEF rest
    <3>2. CASE b \in Live \ {ptr} /\ b # Low
      <4>1. b \in Blocks \ Gone
        BY <3>2, <1>6, <1>7 DEF Owners, Gone
      <4> QED
        BY <3>2, <4>1, <1>7, <1>12, <1>14 DEF Owners
    <3> QED
      BY <3>1, <3>2, <1>14
  <2> QED
    BY <2>1, <2>2, <2>3, <2>4 DEF Owners
<1>18. Locals' /\ Walks'
  BY <1>1, <1>16, ClearLocalsInv DEF Return, Locals, Walks
<1> QED
  BY <1>8, <1>15, <1>16, <1>17, <1>18 DEF Inv

-----------------------------------------------------------------------------
(* The theorems.                                                           *)

LEMMA NextInv == Inv /\ [Next]_vars => Inv'
<1> SUFFICES ASSUME Inv, [Next]_vars PROVE Inv'
  OBVIOUS
<1>1. CASE UNCHANGED vars
  BY <1>1 DEF vars, Inv, WellFormed, Locals, Tiles, Links, Owners, Walks, Blocks, Free, Live
<1>2. CASE Program
  <2>1. ASSUME NEW n \in Requests, Malloc(n) PROVE Inv'
    <3>1. n \in Nat
      BY HeapAssumption
    <3> QED
      BY <2>1, <3>1, EnterMallocInv DEF Malloc
  <2>2. ASSUME NEW m \in Elements, NEW n \in Requests, Calloc(m, n) PROVE Inv'
    <3>1. m * n \in Nat /\ m * n < SizeMod /\ (m * n) % SizeMod = m * n
      <4>1. m \in Nat /\ n \in Nat
        BY HeapAssumption
      <4>2. m * n \in Nat
        BY <4>1
      <4>3. \A k \in Nat : k < SizeMod => k % SizeMod = k
        BY HeapAssumption
      <4> HIDE DEF HeapAssumption
      <4> QED
        BY <2>2, <4>2, <4>3 DEF Calloc
    <3> QED
      BY <2>2, <3>1, EnterMallocInv DEF Calloc
  <2>3. ASSUME NEW b \in Live, FreeCall(b) PROVE Inv'
    BY <2>3, FreeCallInv
  <2>4. ASSUME NEW b \in Live, NEW n \in Requests, Realloc(b, n) PROVE Inv'
    <3>1. n \in Nat
      BY HeapAssumption
    <3> QED
      BY <2>4, <3>1, ReallocCallInv
  <2> QED
    BY <1>2, <2>1, <2>2, <2>3, <2>4 DEF Program
<1>3. CASE Library
  BY <1>3, WalkInv, RefusalInv, MallocReturnsInv, ReallocMovesInv, FreeReturnsInv,
     ResizeInPlaceInv, ResizeByMovingInv DEF Library
<1> QED
  BY <1>1, <1>2, <1>3 DEF Next

\* In every reachable state the heap functions' two lists have their shape and
\* a running walk stands on a link of the free list, at or before its block.
THEOREM HeapInvariant == Spec => []Inv
  BY InitInv, NextInv, PTL DEF Spec

\* Every variable of malloc, free and realloc stays in range, whatever the
\* heap's size and the program's requests.
THEOREM HeapTypeCorrect == Spec => []TypeOK
<1>1. Inv => TypeOK
  BY HeapAssumption DEF Inv, WellFormed, Locals, Tiles, Links, Owners, Walks, TypeOK, Intact
<1> QED
  BY <1>1, HeapInvariant, PTL

\* The blocks of malloc, free and realloc always tile the heap exactly.
THEOREM HeapAlwaysTiled == Spec => []HeapTiled
<1>1. Inv => HeapTiled
  <2> SUFFICES ASSUME Inv, pc # "corrupt" PROVE Tiles => HeapTiled
    BY DEF Inv, HeapTiled, Intact
  <2> QED
    BY Facts DEF Tiles, HeapTiled, Intact, Size
<1> QED
  BY <1>1, HeapInvariant, PTL

\* The free list that malloc, free and realloc walk is always in address
\* order and holds every free block once.
THEOREM HeapListSorted == Spec => []FreeListSorted
<1>1. Inv => FreeListSorted
  BY DEF Inv, Links, FreeListSorted, Intact
<1> QED
  BY <1>1, HeapInvariant, PTL

\* No call loses a block or hands out one that is on the free list: each is
\* free or the program's, never both.
THEOREM HeapListsExact == Spec => []FreeOrLive
<1>1. Inv => FreeOrLive
  BY DEF Inv, Owners, FreeOrLive, Intact
<1> QED
  BY <1>1, HeapInvariant, PTL

\* free merges on both sides and realloc never leaves its remainder next to a
\* free block: no two free blocks touch.
THEOREM HeapCoalesced == Spec => []Coalesced
<1>1. Inv => Coalesced
  BY DEF Inv, Owners, Coalesced, Intact
<1> QED
  BY <1>1, HeapInvariant, PTL

\* A block that malloc, calloc or realloc returned has room for the size asked
\* for, whatever product or sum was formed on the way.
THEOREM HeapCapacity == Spec => []Capacity
<1>1. Inv => Capacity
  BY DEF Inv, Owners, Capacity, Intact, Size
<1> QED
  BY <1>1, HeapInvariant, PTL

\* With start-up initialisation heap_init never runs a second time.
THEOREM NoReinit == Spec => [](~LazyInit => pc # "corrupt")
<1> DEFINE Sound == ~LazyInit => pc # "corrupt"
<1>1. Init => Sound
  BY DEF Init
<1>2. Sound /\ [Next]_vars => Sound'
  BY DEF Next, Program, Library, vars, Malloc, Calloc, EnterMalloc, FreeCall, EnterFree,
         Realloc, GoTo, Return, call, FirstFitNext, FirstFitNone, MallocReturns,
         ReallocMoves, FreeNext, FreeReturns, ResizeNext, ResizeRefused, ResizeInPlace,
         ResizeByMoving
<1> HIDE DEF Sound
<1>3. Spec => []Sound
  BY <1>1, <1>2, PTL DEF Spec
<1> QED
  BY <1>3 DEF Sound

-----------------------------------------------------------------------------
(* The contents of live blocks: no store of malloc, free or realloc falls   *)
(* into the user bytes of a live block other than the one that is resized,   *)
(* and that one keeps the bytes both its sizes cover.                        *)


-----------------------------------------------------------------------------
(* Where a store may go.                                                   *)

LEMMA LiveFacts ==
  ASSUME Inv, pc # "corrupt", NEW b \in Live
  PROVE  /\ b \in Blocks /\ b \notin Free /\ b \in Nat /\ nxt[b] \in Nat /\ b > 0
         /\ req[b] \in Nat /\ b + P + req[b] <= nxt[b] /\ P \in Nat /\ P > 0
         /\ \A d \in Blocks : d # b =>
              d \in Nat /\ nxt[d] \in Nat /\ (nxt[d] <= b \/ nxt[b] <= d)
<1>1. Owners /\ b \in Blocks /\ b \notin Free
  BY DEF Inv, Owners
<1>2. /\ P \in Nat /\ P > 0
      /\ \A d \in Blocks : d \in Nat /\ nxt[d] \in Nat /\ d > 0 /\ nxt[d] > d
      /\ \A d \in Blocks : \A c \in Blocks : c <= d \/ c >= nxt[d]
  BY Facts
<1>3. req[b] \in Nat /\ req[b] + P <= nxt[b] - b
  BY <1>1 DEF Owners
<1>4. b + P + req[b] <= nxt[b]
  BY <1>1, <1>2, <1>3
<1>5. ASSUME NEW d \in Blocks, d # b
      PROVE  d \in Nat /\ nxt[d] \in Nat /\ (nxt[d] <= b \/ nxt[b] <= d)
  BY <1>1, <1>2, <1>5
<1> QED
  BY <1>1, <1>2, <1>3, <1>4, <1>5

\* A store that misses the user bytes of a block spoils nothing in it.
LEMMA SpoilsNothing ==
  ASSUME NEW W, NEW b \in Nat, NEW n \in Nat, P \in Nat,
         \A x \in W : x < b + P \/ x >= b + P + n
  PROVE  {i \in 0 .. n - 1 : b + P + i \notin W} = 0 .. n - 1
<1> SUFFICES ASSUME NEW i \in 0 .. n - 1 PROVE b + P + i \notin W
  OBVIOUS
<1>1. b + P + i >= b + P /\ b + P + i < b + P + n
  OBVIOUS
<1> QED
  BY <1>1

LEMMA LinkFieldRange ==
  ASSUME Inv, pc # "corrupt", NEW c \in DOMAIN nfr, NEW x \in LinkField(c)
  PROVE  c \in Free /\ c \in Nat /\ x \in Nat /\ x >= c + P /\ x < nxt[c]
<1>1. c # Root /\ x \in c + P .. c + P + P - 1
  BY DEF LinkField, Bytes
<1>2. c \in Free /\ c \in Nat /\ c \in Blocks /\ nxt[c] \in Nat /\ nxt[c] >= c + 2 * P
      /\ P \in Nat
  BY <1>1, Facts
<1> QED
  BY <1>1, <1>2

\* The link of a free block is not in a live one.
LEMMA LinkOutside ==
  ASSUME Inv, pc # "corrupt", NEW b \in Live, NEW c \in DOMAIN nfr, NEW x \in LinkField(c)
  PROVE  x \in Nat /\ (x < b \/ x >= nxt[b])
<1>1. c \in Free /\ c \in Nat /\ x \in Nat /\ x >= c + P /\ x < nxt[c]
  BY LinkFieldRange
<1>2. c \in Blocks /\ c # b
  BY <1>1, LiveFacts, Facts
<1>3. /\ b \in Nat /\ nxt[b] \in Nat /\ P \in Nat
      /\ nxt[c] \in Nat /\ (nxt[c] <= b \/ nxt[b] <= c)
  BY <1>2, LiveFacts
<1> QED
  BY <1>1, <1>3

-----------------------------------------------------------------------------
(* malloc, also when calloc and realloc call it.                           *)

\* Everything that is written on the way out of malloc is in block h or in a link.
LEMMA CarveOutside ==
  ASSUME Inv, pc = "first_fit", h # Null, Size(h) >= Need(arg), NEW b \in Live,
         NEW x \in CarveWrites(Need(arg)) \cup Bytes(h + P, arg)
  PROVE  x < b \/ x >= nxt[b]
<1> DEFINE need == Need(arg)
<1>1. Locals /\ Walks
  BY DEF Inv
<1>2. /\ h \in Free /\ h \in Blocks /\ h \in Nat /\ nxt[h] \in Nat /\ Size(h) = nxt[h] - h
      /\ P \in Nat /\ P > 0 /\ f \in DOMAIN nfr
  BY <1>1, Facts DEF Walks, Size
<1>3. arg \in Nat /\ need \in Nat /\ need >= 2 * P /\ need >= arg + P /\ h + need <= nxt[h]
  BY <1>1, <1>2 DEF Locals, Need
<1>4. h # b /\ b \in Nat /\ nxt[b] \in Nat /\ (nxt[h] <= b \/ nxt[b] <= h)
  BY <1>2, LiveFacts
<1>5. CASE x \in LinkField(f)
  BY <1>2, <1>5, LinkOutside
<1>6. CASE x \in h .. nxt[h] - 1
  BY <1>2, <1>4, <1>6
<1>7. CASE x \in Bytes(h + P, arg)
  <2>1. x \in h + P .. h + P + arg - 1
    BY <1>7 DEF Bytes
  <2>2. x \in h .. nxt[h] - 1
    BY <1>2, <1>3, <2>1
  <2> QED
    BY <1>6, <2>2
<1>8. CASE Splits(Size(h), need) /\ x \in Bytes(h, P) \cup Bytes(h + need, 2 * P)
  <2>1. h + need + 2 * P <= nxt[h]
    BY <1>2, <1>3, <1>8 DEF Splits
  <2> HIDE DEF need
  <2>2. x \in h .. h + P - 1 \/ x \in h + need .. h + need + 2 * P - 1
    BY <1>8 DEF Bytes
  <2>3. x \in h .. nxt[h] - 1
    BY <1>2, <1>3, <2>1, <2>2
  <2> QED
    BY <1>6, <2>3
<1> QED
  BY <1>5, <1>7, <1>8 DEF CarveWrites

\* So it leaves the contents of the live blocks alone.
LEMMA CarveSpoilsNothing ==
  ASSUME Inv, LiveDataIntact, pc = "first_fit", h # Null, Size(h) >= Need(arg),
         NEW W \in SUBSET (CarveWrites(Need(arg)) \cup Bytes(h + P, arg)), NEW b \in Live
  PROVE  Spoil(W)[b] = kept[b]
<1>1. /\ b \in Nat /\ nxt[b] \in Nat /\ req[b] \in Nat /\ b + P + req[b] <= nxt[b] /\ P \in Nat
  BY LiveFacts
<1>2. ASSUME NEW x \in W PROVE x < b + P \/ x >= b + P + req[b]
  <2>1. x < b \/ x >= nxt[b]
    BY CarveOutside
  <2>2. x \in Int
    <3>1. h \in Nat /\ arg \in Nat /\ f \in DOMAIN nfr
      BY Facts DEF Inv, Walks, Locals
    <3>2. Need(arg) \in Nat
      BY <3>1, <1>1 DEF Need
    <3>3. x \in LinkField(f) => x \in Nat
      BY <3>1, LinkFieldRange
    <3> QED
      BY <3>1, <3>2, <3>3, <1>1 DEF CarveWrites, Bytes
  <2> QED
    BY <1>1, <2>1, <2>2
<1>3. kept[b] = 0 .. req[b] - 1
  BY DEF LiveDataIntact
<1>4. {i \in 0 .. req[b] - 1 : b + P + i \notin W} = 0 .. req[b] - 1
  BY <1>1, <1>2, SpoilsNothing
<1> QED
  BY <1>3, <1>4 DEF Spoil

\* What the program holds when malloc has found block h.
HeldWithNew == [b \in Live \cup {h} |-> IF b = h THEN 0 .. want - 1 ELSE kept[b]]

LEMMA MallocKept ==
  ASSUME Inv, LiveDataIntact, MallocReturns
  PROVE  kept' = HeldWithNew
<1> DEFINE W == CarveWrites(Need(arg)) \cup
                IF op = "calloc" THEN Bytes(h + P, arg) ELSE {}
<1>1. pc = "first_fit" /\ h # Null /\ Size(h) >= Need(arg)
  BY DEF MallocReturns
<1>2. kept' = [b \in Live \cup {h} |-> IF b = h THEN 0 .. want - 1 ELSE Spoil(W)[b]]
  BY DEF MallocReturns, Hand
<1>3. W \in SUBSET (CarveWrites(Need(arg)) \cup Bytes(h + P, arg))
  OBVIOUS
<1> HIDE DEF W
<1>4. \A b \in Live : Spoil(W)[b] = kept[b]
  BY <1>1, <1>3, CarveSpoilsNothing
<1> QED
  BY <1>2, <1>4 DEF HeldWithNew

\* A moving realloc copies all that both sizes cover; the program has the rest.
LEMMA ReallocMovesKept ==
  ASSUME Inv, LiveDataIntact, ReallocMoves
  PROVE  kept' = HeldWithNew
<1> DEFINE W == CarveWrites(Need(arg)) \cup Bytes(h + P, Copied(arg))
           whole == {i \in kept[ptr] : i < Copied(arg)} \cup (req[ptr] .. want - 1)
<1>1. pc = "first_fit" /\ op = "realloc" /\ h # Null /\ Size(h) >= Need(arg)
  BY DEF ReallocMoves
<1>2. ptr \in Live /\ arg \in Nat /\ want = arg /\ h \in Nat
  BY <1>1, Facts DEF Inv, Walks, Locals
<1>3. /\ ptr \in Nat /\ nxt[ptr] \in Nat /\ req[ptr] \in Nat /\ P \in Nat
      /\ ptr + P + req[ptr] <= nxt[ptr] /\ kept[ptr] = 0 .. req[ptr] - 1
  BY <1>1, <1>2, LiveFacts DEF LiveDataIntact
<1>4. Copied(arg) \in Nat /\ Copied(arg) <= arg /\ (Copied(arg) < arg => Copied(arg) >= req[ptr])
  BY <1>2, <1>3 DEF Copied, Size
<1>5. kept' = [b \in Live \cup {h} |-> IF b = h THEN whole ELSE Spoil(W)[b]]
  BY DEF ReallocMoves, Hand
<1>6. whole = 0 .. want - 1
  BY <1>2, <1>3, <1>4
<1>7. W \in SUBSET (CarveWrites(Need(arg)) \cup Bytes(h + P, arg))
  BY <1>2, <1>3, <1>4 DEF Bytes
<1> HIDE DEF W, whole
<1>8. \A b \in Live : Spoil(W)[b] = kept[b]
  BY <1>1, <1>7, CarveSpoilsNothing
<1> QED
  BY <1>5, <1>6, <1>8 DEF HeldWithNew

-----------------------------------------------------------------------------
(* free.                                                                   *)

HeldWithoutPtr == [b \in Live \ {ptr} |-> kept[b]]

LEMMA FreeKept ==
  ASSUME Inv, LiveDataIntact, FreeReturns
  PROVE  kept' = HeldWithoutPtr
<1> DEFINE first == IF JoinsPrev THEN f ELSE ptr
           W == LinkField(f) \cup LinkField(ptr) \cup Bytes(first, P)
<1>1. pc = "free_walk" /\ ~BelowPtr
  BY DEF FreeReturns
<1>2. kept' = [b \in Live \ {ptr} |-> Spoil(W)[b]]
  BY DEF FreeReturns
<1>3. /\ ptr \in Live /\ ptr \in Blocks /\ f \in DOMAIN nfr
      /\ JoinsPrev => f \in Free
  BY <1>1, Around
<1>4. P \in Nat /\ P > 0 /\ \A d \in Blocks : d \in Nat /\ nxt[d] \in Nat /\ nxt[d] >= d + 2 * P
  BY <1>1, Facts
<1>5. ASSUME NEW b \in Live, b # ptr PROVE Spoil(W)[b] = kept[b]
  <2>1. /\ b \in Nat /\ nxt[b] \in Nat /\ req[b] \in Nat /\ b + P + req[b] <= nxt[b]
        /\ b \notin Free
        /\ \A d \in Blocks : d # b => nxt[d] <= b \/ nxt[b] <= d
    BY <1>1, LiveFacts
  <2>2. ASSUME NEW x \in W PROVE x < b + P \/ x >= b + P + req[b]
    <3>1. CASE x \in LinkField(f)
      BY <1>1, <1>3, <1>4, <2>1, <3>1, LinkOutside
    <3>2. ASSUME NEW d \in Blocks, d # b, x \in Bytes(d, 2 * P)
          PROVE  x < b + P \/ x >= b + P + req[b]
      <4>1. x \in d .. d + 2 * P - 1
        BY <3>2 DEF Bytes
      <4>2. d \in Nat /\ nxt[d] \in Nat /\ nxt[d] >= d + 2 * P /\ (nxt[d] <= b \/ nxt[b] <= d)
        BY <1>4, <2>1, <3>2
      <4> QED
        BY <1>4, <2>1, <4>1, <4>2
    <3>3. CASE x \in LinkField(ptr)
      <4>1. x \in ptr + P .. ptr + P + P - 1
        BY <3>3 DEF LinkField, Bytes
      <4>2. x \in Bytes(ptr, 2 * P)
        BY <1>3, <1>4, <4>1 DEF Bytes
      <4> QED
        BY <1>3, <1>5, <3>2, <4>2
    <3>4. CASE x \in Bytes(first, P)
      <4>1. first \in Blocks /\ first # b
        BY <1>1, <1>3, <1>5, <2>1, Facts
      <4> HIDE DEF first
      <4>2. x \in Bytes(first, 2 * P)
        BY <1>4, <3>4, <4>1 DEF Bytes
      <4> QED
        BY <3>2, <4>1, <4>2
    <3> QED
      BY <3>1, <3>3, <3>4
  <2>3. kept[b] = 0 .. req[b] - 1
    BY DEF LiveDataIntact
  <2> HIDE DEF W
  <2>4. {i \in 0 .. req[b] - 1 : b + P + i \notin W} = 0 .. req[b] - 1
    BY <1>4, <2>1, <2>2, SpoilsNothing
  <2> QED
    BY <2>3, <2>4 DEF Spoil
<1> HIDE DEF W
<1> QED
  BY <1>2, <1>5 DEF HeldWithoutPtr

-----------------------------------------------------------------------------
(* realloc in place.                                                       *)

\* What the program holds when block ptr has become Low with want bytes.
HeldResized ==
  [b \in (Live \ {ptr}) \cup {Low} |-> IF b = Low THEN 0 .. want - 1 ELSE kept[b]]

\* What realloc writes in place; links is what it writes after the move.
ResizeLinks ==
  Bytes(Low, P) \cup LinkField(Cell) \cup
  (IF Splits(MaxBlockSize, Need(arg)) THEN Bytes(Low + Need(arg), 2 * P) ELSE {})
ResizeMoved == IF JoinsPrev THEN Bytes(Low, MoveLength) ELSE {}

LEMMA ResizeSizes ==
  ASSUME Inv, pc = "resize_walk", ~BelowPtr, FitsInPlace
  PROVE  /\ Need(arg) \in Nat /\ Need(arg) >= arg + P /\ Need(arg) <= High - Low
         /\ arg \in Nat /\ want = arg /\ P \in Nat /\ P > 0
         /\ ptr \in Live /\ req[ptr] \in Nat /\ req[ptr] + P <= Size(ptr)
         /\ Size(ptr) \in Nat /\ Size(ptr) <= High - Low /\ Size(ptr) >= 2 * P
         /\ MoveLength \in Nat /\ MoveLength <= High - Low
         /\ Low \in Nat /\ High \in Nat
<1>1. arg \in Nat /\ want = arg /\ ptr \in Live /\ P \in Nat /\ P > 0
  BY Around, Facts DEF Inv, Locals
<1>2. Need(arg) \in Nat /\ Need(arg) >= arg + P
  BY <1>1 DEF Need
<1>3. MaxBlockSize = High - Low
  BY CellFacts
<1>4. Low \in Nat /\ High \in Nat /\ High >= nxt[ptr] /\ Low <= ptr
  BY Stretch
<1>5. /\ ptr \in Nat /\ nxt[ptr] \in Nat /\ req[ptr] \in Nat /\ ptr + P + req[ptr] <= nxt[ptr]
      /\ nxt[ptr] >= ptr + 2 * P
  BY <1>1, LiveFacts, Facts
<1>6. /\ Size(ptr) \in Nat /\ Size(ptr) <= High - Low /\ Size(ptr) >= 2 * P
      /\ req[ptr] + P <= Size(ptr)
  BY <1>1, <1>4, <1>5 DEF Size
<1>7. Need(arg) <= High - Low
  BY <1>3 DEF FitsInPlace
<1> QED
  BY <1>1, <1>2, <1>4, <1>5, <1>6, <1>7 DEF MoveLength

\* The stores of realloc stay between Low and High, but for the link in Cell,
\* which lies in a free block below.
LEMMA ResizeOutside ==
  ASSUME Inv, pc = "resize_walk", ~BelowPtr, FitsInPlace,
         NEW x \in ResizeMoved \cup ResizeLinks
  PROVE  x \in Nat /\ (x \in LinkField(Cell) \/ (Low <= x /\ x < High))
<1>1. /\ Need(arg) \in Nat /\ Need(arg) <= High - Low /\ P \in Nat /\ P > 0
      /\ MoveLength \in Nat /\ MoveLength <= High - Low
      /\ Low \in Nat /\ High \in Nat
  BY ResizeSizes
<1>2. High >= Low + 2 * P /\ MaxBlockSize = High - Low /\ Cell \in DOMAIN nfr
  BY Stretch, CellFacts
<1>3. CASE x \in LinkField(Cell)
  BY <1>2, <1>3, LinkFieldRange
<1>4. CASE x \in Bytes(Low, P) \cup ResizeMoved
  <2>1. x \in Low .. Low + P - 1 \/ x \in Low .. Low + MoveLength - 1
    BY <1>4 DEF ResizeMoved, Bytes
  <2> QED
    BY <2>1, <1>1, <1>2
<1>5. CASE Splits(MaxBlockSize, Need(arg)) /\ x \in Bytes(Low + Need(arg), 2 * P)
  <2>1. Need(arg) + 2 * P <= High - Low
    BY <1>1, <1>2, <1>5 DEF Splits
  <2>2. x \in Low + Need(arg) .. Low + Need(arg) + 2 * P - 1
    BY <1>5 DEF Bytes
  <2> QED
    BY <2>1, <2>2, <1>1
<1> QED
  BY <1>3, <1>4, <1>5 DEF ResizeLinks

\* The other live blocks lie outside.
LEMMA ResizeSpoilsNothing ==
  ASSUME Inv, LiveDataIntact, pc = "resize_walk", ~BelowPtr, FitsInPlace,
         NEW b \in Live, b # ptr
  PROVE  Spoil(ResizeMoved \cup ResizeLinks)[b] = kept[b]
<1> DEFINE W == ResizeMoved \cup ResizeLinks
<1>1. /\ b \in Blocks /\ b \notin Free /\ b \in Nat /\ nxt[b] \in Nat /\ req[b] \in Nat
      /\ b + P + req[b] <= nxt[b] /\ P \in Nat /\ P > 0
  BY LiveFacts
<1>2. b \in Blocks \ Gone
  BY <1>1, Around DEF Gone
<1>3. Low \in Nat /\ High \in Nat /\ (b >= High \/ nxt[b] <= Low)
  BY <1>2, Stretch
<1>4. ASSUME NEW x \in W PROVE x < b + P \/ x >= b + P + req[b]
  <2>1. x \in Nat /\ (x \in LinkField(Cell) \/ (Low <= x /\ x < High))
    BY ResizeOutside
  <2>2. x \in LinkField(Cell) => x < b \/ x >= nxt[b]
    BY CellFacts, LinkOutside
  <2> QED
    BY <1>1, <1>3, <2>1, <2>2
<1>5. kept[b] = 0 .. req[b] - 1
  BY DEF LiveDataIntact
<1> HIDE DEF W
<1>6. {i \in 0 .. req[b] - 1 : b + P + i \notin W} = 0 .. req[b] - 1
  BY <1>1, <1>4, SpoilsNothing
<1>7. Spoil(W)[b] = kept[b]
  BY <1>5, <1>6 DEF Spoil
<1> QED
  BY <1>7 DEF W

\* No link written after the move falls into the user bytes of the new block.
LEMMA ResizeLinksOutside ==
  ASSUME Inv, pc = "resize_walk", ~BelowPtr, FitsInPlace, NEW x \in ResizeLinks
  PROVE  x < Low + P \/ x >= Low + P + arg
<1>1. /\ Need(arg) \in Nat /\ Need(arg) >= arg + P /\ P \in Nat /\ P > 0
      /\ arg \in Nat /\ Low \in Nat /\ High \in Nat
  BY ResizeSizes
<1>2. CASE x \in LinkField(Cell)
  <2>1. Cell \in Free /\ Cell \in Nat /\ x \in Nat /\ x < nxt[Cell]
    BY <1>2, CellFacts, LinkFieldRange
  <2>2. Cell \in Blocks \ Gone /\ Cell < Low /\ nxt[Cell] \in Nat
    BY <2>1, CellFacts, Facts
  <2>3. nxt[Cell] <= Low
    BY <2>2, Stretch
  <2> QED
    BY <1>1, <2>1, <2>2, <2>3
<1>3. CASE x \in Bytes(Low, P)
  BY <1>1, <1>3 DEF Bytes
<1>4. CASE x \in Bytes(Low + Need(arg), 2 * P)
  BY <1>1, <1>4 DEF Bytes
<1> QED
  BY <1>2, <1>3, <1>4 DEF ResizeLinks

LEMMA ResizeKept ==
  ASSUME Inv, LiveDataIntact, ResizeInPlace
  PROVE  kept' = HeldResized
<1> DEFINE copied == {i \in kept[ptr] : JoinsPrev => P + i < MoveLength}
           whole == {i \in copied : i < arg} \cup (req[ptr] .. want - 1)
<1>1. pc = "resize_walk" /\ ~BelowPtr /\ FitsInPlace
  BY DEF ResizeInPlace
<1>2. kept' = [b \in (Live \ {ptr}) \cup {Low} |->
                 IF b = Low THEN {i \in whole : Low + P + i \notin ResizeLinks}
                 ELSE Spoil(ResizeMoved \cup ResizeLinks)[b]]
  BY DEF ResizeInPlace, Low, Cell, ResizeLinks, ResizeMoved
<1>3. /\ Need(arg) \in Nat /\ Need(arg) >= arg + P /\ arg \in Nat /\ want = arg
      /\ P \in Nat /\ ptr \in Live /\ req[ptr] \in Nat /\ req[ptr] + P <= Size(ptr)
      /\ Size(ptr) \in Nat /\ Low \in Nat
  BY <1>1, ResizeSizes
<1>4. whole = 0 .. want - 1
  <2>1. kept[ptr] = 0 .. req[ptr] - 1
    BY <1>3 DEF LiveDataIntact
  <2>2. ASSUME NEW i \in 0 .. req[ptr] - 1, i < arg PROVE P + i < MoveLength
    BY <1>3, <2>2 DEF MoveLength
  <2>3. {i \in copied : i < arg} = {i \in 0 .. req[ptr] - 1 : i < arg}
    BY <2>1, <2>2
  <2> HIDE DEF copied
  <2> QED
    BY <1>3, <2>3
<1>5. {i \in 0 .. want - 1 : Low + P + i \notin ResizeLinks} = 0 .. want - 1
  BY <1>1, <1>3, ResizeLinksOutside, SpoilsNothing
<1> HIDE DEF whole
<1>6. \A b \in Live : b # ptr => Spoil(ResizeMoved \cup ResizeLinks)[b] = kept[b]
  BY <1>1, ResizeSpoilsNothing
<1> QED
  BY <1>2, <1>4, <1>5, <1>6 DEF HeldResized

-----------------------------------------------------------------------------
(* The other steps do not touch what the program holds.                    *)

LEMMA CallKept ==
  ASSUME Inv, pc # "corrupt", InitIfEmpty, NEW where, GoTo(where), pc' # "corrupt"
  PROVE  kept' = kept /\ req' = req
<1>1. CASE LazyInit /\ nfr[Root] = Null
  <2>1. Live = {} /\ HeapInit
    BY <1>1 DEF GoTo, InitIfEmpty
  <2>2. kept = [b \in {} |-> kept[b]]
    BY <2>1 DEF Inv, WellFormed
  <2>3. kept' = [b \in {} |-> Spoil(Bytes(HeapStart, 2 * P))[b]]
    BY <2>1 DEF HeapInit, Spoil
  <2> QED
    BY <2>1, <2>2, <2>3 DEF HeapInit
<1>2. CASE ~(LazyInit /\ nfr[Root] = Null)
  BY <1>2 DEF InitIfEmpty, heap
<1> QED
  BY <1>1, <1>2

LEMMA OtherSteps ==
  ASSUME Inv, [Next]_vars, pc' # "corrupt"
  PROVE  \/ kept' = kept /\ req' = req
         \/ MallocReturns \/ ReallocMoves \/ FreeReturns \/ ResizeInPlace
<1>1. CASE UNCHANGED vars
  BY <1>1 DEF vars
<1>2. CASE Program
  <2>1. ASSUME NEW n, NEW m, NEW name, EnterMalloc(n, m, name) PROVE kept' = kept /\ req' = req
    BY <2>1, CallKept DEF EnterMalloc
  <2>2. ASSUME NEW b \in Live, FreeCall(b) PROVE kept' = kept /\ req' = req
    BY <2>2 DEF FreeCall, heap
  <2>3. ASSUME NEW b \in Live, NEW n, Realloc(b, n) PROVE kept' = kept /\ req' = req
    BY <2>3, CallKept DEF Realloc
  <2> QED
    BY <1>2, <2>1, <2>2, <2>3 DEF Program, Malloc, Calloc
<1>3. CASE FirstFitNext \/ FirstFitNone \/ FreeNext \/ ResizeNext \/ ResizeRefused
  BY <1>3 DEF FirstFitNext, FirstFitNone, FreeNext, ResizeNext, ResizeRefused, heap
<1>4. CASE ResizeByMoving
  BY <1>4, CallKept DEF ResizeByMoving
<1> QED
  BY <1>1, <1>2, <1>3, <1>4 DEF Next, Library

-----------------------------------------------------------------------------
(* The contents of live blocks.                                            *)

Sound == pc # "corrupt"
Data == pc # "corrupt" => LiveDataIntact

LEMMA DataStep == ASSUME Inv, Data, [Next]_vars PROVE Data'
<1> SUFFICES ASSUME pc' # "corrupt" PROVE LiveDataIntact'
  BY DEF Data
<1>1. CASE kept' = kept /\ req' = req
  <2>1. pc # "corrupt"
    BY DEF Next, Program, Library, vars, Malloc, Calloc, EnterMalloc, FreeCall, Realloc,
           FirstFitNext, FirstFitNone, MallocReturns, ReallocMoves, FreeNext, FreeReturns,
           ResizeNext, ResizeRefused, ResizeInPlace, ResizeByMoving
  <2> QED
    BY <1>1, <2>1 DEF Data, LiveDataIntact, Live
<1>2. CASE MallocReturns \/ ReallocMoves
  <2>1. LiveDataIntact
    BY <1>2 DEF Data, MallocReturns, ReallocMoves
  <2>2. kept' = HeldWithNew
    BY <1>2, <2>1, MallocKept, ReallocMovesKept
  <2>3. req' = [b \in Live \cup {h} |-> IF b = h THEN want ELSE req[b]]
    BY <1>2 DEF MallocReturns, ReallocMoves, Hand
  <2> QED
    BY <2>1, <2>2, <2>3 DEF LiveDataIntact, HeldWithNew, Live
<1>3. CASE FreeReturns
  <2>1. LiveDataIntact
    BY <1>3 DEF Data, FreeReturns
  <2>2. kept' = HeldWithoutPtr
    BY <1>3, <2>1, FreeKept
  <2>3. req' = [b \in Live \ {ptr} |-> req[b]]
    BY <1>3 DEF FreeReturns
  <2> QED
    BY <2>1, <2>2, <2>3 DEF LiveDataIntact, HeldWithoutPtr, Live
<1>4. CASE ResizeInPlace
  <2>1. LiveDataIntact
    BY <1>4 DEF Data, ResizeInPlace
  <2>2. kept' = HeldResized
    BY <1>4, <2>1, ResizeKept
  <2>3. req' = [b \in (Live \ {ptr}) \cup {Low} |-> IF b = Low THEN want ELSE req[b]]
    BY <1>4 DEF ResizeInPlace, Low
  <2> QED
    BY <2>1, <2>2, <2>3 DEF LiveDataIntact, HeldResized, Live
<1> QED
  BY <1>1, <1>2, <1>3, <1>4, OtherSteps

\* The contents of live blocks survive every call of malloc, calloc, realloc and
\* free, on the lazily initialised ports until the heap is initialised again.
THEOREM HeapDataKept == Spec => [](pc # "corrupt" => LiveDataIntact)
<1>1. Init => Data
  BY DEF Init, Data, LiveDataIntact, Live
<1>2. Inv /\ Data /\ [Next]_vars => Data'
  BY DataStep
<1>3. Data => (pc # "corrupt" => LiveDataIntact)
  BY DEF Data
<1> QED
  BY <1>1, <1>2, <1>3, HeapInvariant, PTL DEF Spec

\* With initialisation at start-up nothing ever disturbs the data of a live block.
THEOREM HeapDataIntact == Spec => [](~LazyInit => LiveDataIntact)
  BY HeapDataKept, NoReinit, PTL

-----------------------------------------------------------------------------
(* The promise.  A request on its way is not empty and fits size_t.        *)

Sized == pc \in {"first_fit", "resize_walk"} => arg \in 1 .. SizeMod - 1

LEMMA SizedStep == ASSUME Inv, Sized, [Next]_vars PROVE Sized'
<1>1. SizeMod \in Nat /\ P \in Nat /\ arg \in Nat
  BY HeapAssumption DEF Inv, Locals
<1>2. ASSUME NEW n \in Nat, NEW m, NEW name, EnterMalloc(n, m, name) PROVE Sized'
  <2>1. CASE n = 0 \/ TooLarge(n)
    BY <1>2, <2>1 DEF EnterMalloc, GoTo, Sized
  <2>2. CASE n # 0 /\ ~TooLarge(n)
    <3>1. n \in 1 .. SizeMod - 1
      BY <1>1, <2>2 DEF TooLarge
    <3> QED
      BY <1>2, <2>2, <3>1 DEF EnterMalloc, Sized
  <2> QED
    BY <2>1, <2>2
<1>3. ASSUME NEW n \in Requests, Malloc(n) PROVE Sized'
  BY <1>2, <1>3, HeapAssumption DEF Malloc
<1>4. ASSUME NEW m \in Elements, NEW n \in Requests, Calloc(m, n) PROVE Sized'
  <2>1. m \in Nat /\ n \in Nat
    BY HeapAssumption
  <2>2. m * n \in Nat
    BY <2>1
  <2>3. \A k \in Nat : k < SizeMod => k % SizeMod = k
    BY <1>1
  <2> QED
    BY <1>2, <1>4, <2>2, <2>3 DEF Calloc
<1>5. ASSUME NEW b \in Live, NEW n \in Requests, Realloc(b, n) PROVE Sized'
  <2>1. n \in 0 .. SizeMod - 1
    BY HeapAssumption
  <2> QED
    BY <1>1, <1>5, <2>1 DEF Realloc, GoTo, Sized
<1>6. CASE \E b \in Live : FreeCall(b)
  BY <1>6 DEF FreeCall, EnterFree, Sized
<1>7. CASE Library
  BY <1>7 DEF Library, Sized, FirstFitNext, FirstFitNone, MallocReturns, ReallocMoves, FreeNext,
     FreeReturns, ResizeNext, ResizeRefused, ResizeInPlace, ResizeByMoving, Return, EnterFree,
     GoTo, call
<1>8. CASE UNCHANGED vars
  BY <1>8 DEF vars, Sized
<1> QED
  BY <1>3, <1>4, <1>5, <1>6, <1>7, <1>8 DEF Next, Program

\* A new region in lo .. hi - 1, where no block that stays has a byte, fits.
LEMMA FitsBetween ==
  ASSUME Inv, LiveDataIntact, pc # "corrupt", NEW staying \in SUBSET Live,
         NEW lo \in Nat, NEW hi \in Nat, NEW n \in Nat,
         HeapStart <= lo, hi <= HeapEnd, lo + P + n <= hi,
         \A c \in staying : nxt[c] <= lo \/ hi <= c
  PROVE  Promise!Fits(lo, n, staying)
<1>1. HeapStart \in Nat /\ HeapEnd \in Nat /\ P \in Nat
  BY HeapAssumption
<1>2. Promise!Region(lo, n) \subseteq HeapStart .. HeapEnd - 1
  <2> SUFFICES ASSUME NEW i \in 0 .. n - 1 PROVE lo + P + i \in HeapStart .. HeapEnd - 1
    BY DEF Promise!Region
  <2> QED
    BY <1>1
<1>3. ASSUME NEW c \in staying PROVE {c + P + i : i \in kept[c]} \cap Promise!Region(lo, n) = {}
  <2>1. /\ c \in Live /\ c \in Nat /\ nxt[c] \in Nat /\ req[c] \in Nat
        /\ c + P + req[c] <= nxt[c] /\ (nxt[c] <= lo \/ hi <= c)
    BY LiveFacts
  <2>2. kept[c] = 0 .. req[c] - 1
    BY <2>1 DEF LiveDataIntact
  <2>3. ASSUME NEW i \in 0 .. req[c] - 1, NEW j \in 0 .. n - 1 PROVE c + P + i # lo + P + j
    BY <1>1, <2>1
  <2> QED
    BY <2>2, <2>3 DEF Promise!Region
<1> QED
  BY <1>2, <1>3 DEF Promise!Fits

LEMMA KeptDomain == ASSUME Inv PROVE DOMAIN kept = Live
  BY DEF Inv, WellFormed

\* malloc, and realloc when it moves, hand out a new region.
LEMMA GrabStep ==
  ASSUME Inv, Sized, LiveDataIntact, MallocReturns \/ ReallocMoves
  PROVE  Promise!Next
<1>1. pc = "first_fit" /\ h # Null /\ Size(h) >= Need(arg)
  BY DEF MallocReturns, ReallocMoves
<1>2. /\ h \in Free /\ h \in Blocks /\ h \in Nat /\ nxt[h] \in Nat /\ nxt[h] > h
      /\ h \notin Live /\ P \in Nat /\ P > 0
  BY <1>1, Facts DEF Inv, Walks, Owners
<1>3. arg \in 1 .. SizeMod - 1 /\ want = arg
  BY <1>1 DEF Sized, Inv, Locals
<1>4. SizeMod \in Nat /\ HeapStart \in Nat /\ HeapEnd \in Nat
  BY HeapAssumption
<1>5. h + P + arg <= nxt[h]
  BY <1>1, <1>2, <1>3, <1>4 DEF Size, Need
<1>6. HeapStart <= h /\ h \in HeapStart .. HeapEnd - 1 /\ nxt[h] <= HeapEnd
  BY <1>1, <1>2, <1>4 DEF Inv, Tiles
<1>7. \A c \in Live : nxt[c] <= h \/ nxt[h] <= c
  BY <1>1, <1>2, LiveFacts
<1>8. Promise!Fits(h, arg, Live)
  BY <1>1, <1>2, <1>3, <1>4, <1>5, <1>6, <1>7, FitsBetween
<1>9. kept' = [b \in Live \cup {h} |-> IF b = h THEN 0 .. arg - 1 ELSE kept[b]]
  BY <1>3, MallocKept, ReallocMovesKept DEF HeldWithNew
<1>10. Promise!Grab(h, arg)
  BY <1>2, <1>8, <1>9, KeptDomain DEF Promise!Grab, Promise!Hold
<1> QED
  BY <1>3, <1>6, <1>10 DEF Promise!Next

\* realloc in place resizes a region, which may move down.
LEMMA ResizeStep ==
  ASSUME Inv, Sized, LiveDataIntact, ResizeInPlace
  PROVE  Promise!Next
<1>1. pc = "resize_walk" /\ ~BelowPtr /\ FitsInPlace
  BY DEF ResizeInPlace
<1>2. /\ Need(arg) \in Nat /\ Need(arg) >= arg + P /\ Need(arg) <= High - Low
      /\ want = arg /\ P \in Nat /\ ptr \in Live /\ Low \in Nat /\ High \in Nat
  BY <1>1, ResizeSizes
<1>3. arg \in 1 .. SizeMod - 1
  BY <1>1 DEF Sized
<1>4. SizeMod \in Nat /\ HeapStart \in Nat /\ HeapEnd \in Nat
  BY HeapAssumption
<1>5. Low \in Blocks /\ High <= HeapEnd
  BY <1>1, <1>2, <1>4, Stretch DEF Inv, Tiles
<1>6. HeapStart <= Low /\ Low \in HeapStart .. HeapEnd - 1
  BY <1>1, <1>4, <1>5 DEF Inv, Tiles
<1>7. \A c \in Live \ {ptr} : c \in Blocks \ Gone /\ c \notin Free
  BY <1>1, LiveFacts, Around DEF Gone
<1>8. \A c \in Live \ {ptr} : nxt[c] <= Low \/ High <= c
  BY <1>1, <1>2, <1>7, Stretch
<1>9. Low \notin Live \ {ptr}
  BY <1>1, <1>7, Around DEF Low
<1>10. Promise!Fits(Low, arg, Live \ {ptr})
  BY <1>1, <1>2, <1>3, <1>4, <1>5, <1>6, <1>8, FitsBetween
<1>11. kept' = [b \in (Live \ {ptr}) \cup {Low} |-> IF b = Low THEN 0 .. arg - 1 ELSE kept[b]]
  BY <1>2, ResizeKept DEF HeldResized
<1>12. Promise!Resize(ptr, Low, arg)
  BY <1>9, <1>10, <1>11, KeptDomain DEF Promise!Resize, Promise!Hold
<1> QED
  BY <1>2, <1>3, <1>6, <1>12, KeptDomain DEF Promise!Next

LEMMA PromiseStep ==
  ASSUME Inv, Sized, Data, [Next]_vars, pc' # "corrupt"
  PROVE  [Promise!Next]_kept
<1>1. CASE MallocReturns \/ ReallocMoves
  <2>1. LiveDataIntact
    BY <1>1 DEF Data, MallocReturns, ReallocMoves
  <2> QED
    BY <1>1, <2>1, GrabStep
<1>2. CASE ResizeInPlace
  <2>1. LiveDataIntact
    BY <1>2 DEF Data, ResizeInPlace
  <2> QED
    BY <1>2, <2>1, ResizeStep
<1>3. CASE FreeReturns
  <2>1. LiveDataIntact /\ ptr \in Live
    BY <1>3, Around DEF Data, FreeReturns
  <2>2. kept' = [b \in Live \ {ptr} |-> kept[b]]
    BY <1>3, <2>1, FreeKept DEF HeldWithoutPtr
  <2>3. Promise!Release(ptr)
    BY <2>2, KeptDomain DEF Promise!Release
  <2> QED
    BY <2>1, <2>3, KeptDomain DEF Promise!Next
<1> QED
  BY <1>1, <1>2, <1>3, OtherSteps

\* With initialisation at start-up malloc, calloc, realloc and free implement
\* HeapSpec: every region handed out lies in the heap, is clear of all others and
\* keeps its contents until the program gives it up.
THEOREM HeapKeepsPromise == Spec => (~LazyInit => PromiseKept)
<1>1. Init => Promise!Init
  BY DEF Init, Promise!Init
<1>2. Init => Sized
  BY DEF Init, Sized
<1>3. Inv /\ Sized /\ [Next]_vars => Sized'
  BY SizedStep
<1>4. Inv /\ Sized /\ Data /\ [Next]_vars /\ Sound' => [Promise!Next]_kept
  BY PromiseStep DEF Sound
<1>5. Spec => []Data
  BY HeapDataKept, PTL DEF Data
<1>6. CASE ~LazyInit
  <2>1. Spec => []Sound
    BY <1>6, NoReinit, PTL DEF Sound
  <2> QED
    BY <1>1, <1>2, <1>3, <1>4, <1>5, <2>1, HeapInvariant, PTL DEF Spec, PromiseKept, Promise!Spec
<1>7. CASE LazyInit
  BY <1>7
<1> QED
  BY <1>6, <1>7

-----------------------------------------------------------------------------
(* Failing calls, and the second initialisation.                           *)

\* The walk of malloc has passed only blocks that are too small.
TooSmallSoFar == pc = "first_fit" => \A b \in Free : b <= f => Size(b) < Need(arg)

LEMMA TooSmallStep == ASSUME Inv, TooSmallSoFar, [Next]_vars, Inv' PROVE TooSmallSoFar'
<1>1. ASSUME pc' = "first_fit", f' = Root PROVE TooSmallSoFar'
  <2>1. \A b \in Free' : b \in Nat /\ b > 0
    <3>1. \A b \in Blocks' : b > 0 /\ b \in Nat
      BY <1>1, HeapAssumption DEF Inv, Tiles
    <3> QED
      BY <3>1, <1>1 DEF Inv, Owners
  <2> QED
    BY <1>1, <2>1 DEF TooSmallSoFar, Root
<1>2. CASE FirstFitNext
  <2>1. /\ pc = "first_fit" /\ h # Null /\ Size(h) < Need(arg) /\ f' = h
        /\ UNCHANGED <<nxt, nfr, arg>>
    BY <1>2 DEF FirstFitNext, heap, call
  <2>2. h = nfr[f] /\ f \in DOMAIN nfr
    BY <2>1 DEF Inv, Walks
  <2>3. ASSUME NEW b \in Free, b <= h PROVE Size(b) < Need(arg)
    <3>1. b <= f \/ b >= h
      BY <2>1, <2>2 DEF Inv, Links
    <3>2. b \in Nat /\ h \in Nat
      BY <2>1, <2>2, Facts
    <3> QED
      BY <2>1, <2>3, <3>1, <3>2 DEF TooSmallSoFar
  <2>4. Free' = Free /\ \A b \in Free : Size(b)' = Size(b)
    BY <2>1 DEF Free, Size
  <2>5. Need(arg)' = Need(arg)
    BY <2>1 DEF Need
  <2> QED
    BY <2>1, <2>3, <2>4, <2>5 DEF TooSmallSoFar
<1>3. CASE UNCHANGED vars
  BY <1>3 DEF vars, TooSmallSoFar, Free, Size, Need
<1>4. CASE Program
  <2>1. pc' = "first_fit" => f' = Root
    BY <1>4 DEF Program, Malloc, Calloc, EnterMalloc, FreeCall, EnterFree, Realloc, GoTo, StartWalk
  <2> QED
    BY <1>1, <2>1 DEF TooSmallSoFar
<1>5. CASE \/ FirstFitNone \/ MallocReturns \/ ReallocMoves \/ FreeNext \/ FreeReturns
           \/ ResizeNext \/ ResizeRefused \/ ResizeInPlace
  BY <1>5 DEF FirstFitNone, MallocReturns, ReallocMoves, FreeNext, FreeReturns, ResizeNext,
     ResizeRefused, ResizeInPlace, Return, EnterFree, TooSmallSoFar
<1>6. CASE ResizeByMoving
  <2>1. f' = Root
    BY <1>6 DEF ResizeByMoving, StartWalk
  <2> QED
    BY <1>1, <2>1 DEF TooSmallSoFar
<1> QED
  BY <1>2, <1>3, <1>4, <1>5, <1>6 DEF Next, Library

\* malloc, calloc and a moving realloc give up only when no free block would do.
THEOREM HeapFailsOnlyWhenFull == Spec => FailsOnlyWhenFull
<1> DEFINE Failing ==
      pc = "first_fit" /\ pc' = "idle" /\ Live' = Live => \A b \in Free : Size(b) < Need(arg)
<1>1. Init => TooSmallSoFar
  BY DEF Init, TooSmallSoFar
<1>2. Inv /\ TooSmallSoFar /\ [Next]_vars /\ Inv' => TooSmallSoFar'
  BY TooSmallStep
<1>3. Inv /\ TooSmallSoFar /\ [Next]_vars => [Failing]_vars
  <2> SUFFICES ASSUME Inv, TooSmallSoFar, [Next]_vars, pc = "first_fit", pc' = "idle",
                      Live' = Live, NEW b \in Free
               PROVE  Size(b) < Need(arg)
    OBVIOUS
  <2>1. CASE FirstFitNone
    <3>1. h = Null /\ h = nfr[f] /\ f \in DOMAIN nfr
      BY <2>1 DEF FirstFitNone, Inv, Walks
    <3>2. b <= f
      BY <3>1 DEF Inv, Links
    <3> QED
      BY <3>2 DEF TooSmallSoFar
  <2>2. CASE MallocReturns
    <3>1. h \in Free /\ h \notin Live
      BY <2>2 DEF MallocReturns, Inv, Walks, Owners
    <3>2. h \in Live'
      BY <2>2 DEF MallocReturns, Hand, Live
    <3> QED
      BY <3>1, <3>2
  <2>3. FirstFitNone \/ MallocReturns
    BY DEF Next, Program, Library, vars, Malloc, Calloc, EnterMalloc, FreeCall, Realloc,
       FirstFitNext, ReallocMoves, EnterFree, FreeNext, FreeReturns,
       ResizeNext, ResizeRefused, ResizeInPlace, ResizeByMoving
  <2> QED
    BY <2>1, <2>2, <2>3
<1> QED
  BY <1>1, <1>2, <1>3, HeapInvariant, PTL DEF Spec, FailsOnlyWhenFull

\* On the ports with the lazy initialisation a heap with live blocks is taken for
\* uninitialised only when no byte of it is free.
THEOREM HeapReinitOnlyWhenExhausted == Spec => ReinitOnlyWhenExhausted
<1> DEFINE Exhausted == pc' = "corrupt" /\ pc # "corrupt" => Blocks = Live
<1>1. Inv /\ [Next]_vars => [Exhausted]_vars
  <2> SUFFICES ASSUME Inv, [Next]_vars, pc' = "corrupt", pc # "corrupt" PROVE Blocks = Live
    OBVIOUS
  <2>1. nfr[Root] = Null
    BY DEF Next, Program, Library, vars, Malloc, Calloc, EnterMalloc, FreeCall, EnterFree,
       Realloc, GoTo, Return, call, FirstFitNext, FirstFitNone, MallocReturns, ReallocMoves,
       FreeNext, FreeReturns, ResizeNext, ResizeRefused, ResizeInPlace, ResizeByMoving
  <2>2. \A d \in Free : d <= Root
    BY <2>1 DEF Inv, Links
  <2>3. \A d \in Free : d \in Nat /\ d > 0
    BY Facts
  <2>4. Free = {}
    BY <2>2, <2>3 DEF Root
  <2> QED
    BY <2>4 DEF Inv, Owners
<1> QED
  BY <1>1, HeapInvariant, PTL DEF Spec, ReinitOnlyWhenExhausted

=============================================================================

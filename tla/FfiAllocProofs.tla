--------------------------- MODULE FfiAllocProofs ---------------------------
(***************************************************************************)
(* Theorems of FfiAlloc, for every heap, every number of descriptors and   *)
(* every set of requests.                                                  *)
(***************************************************************************)
EXTENDS FfiAlloc, TLAPS

Used(i) == allocs[i].size > 0
End(i) == allocs[i].offset + allocs[i].size

\* Blocks on record lie in the heap, in whole units, and apart.
Inside == \A i \in Descriptors : Used(i) => End(i) <= HEAP_SIZE

Apart == \A i, j \in Descriptors :
    i # j /\ Used(i) /\ Used(j) => End(i) <= allocs[j].offset \/ End(j) <= allocs[i].offset

Units == /\ offset % 8 = 0
         /\ \A i \in Descriptors : Used(i) => allocs[i].offset % 8 = 0 /\ allocs[i].size % 8 = 0

\* Blocks somebody has and blocks on record are the same.
HasDescriptor == \A b \in held :
    /\ b.requested <= b.total
    /\ \E i \in Descriptors : Owns(i, b.offset) /\ allocs[i].size = b.total

HasHolder == \A i \in Descriptors : Used(i) =>
    \E b \in held : b.offset = allocs[i].offset /\ b.total = allocs[i].size

OneHolder == \A b, c \in held : b.offset = c.offset => b = c

\* No place the search has passed was free.
Passed == search.step \in {"search", "full"} =>
    /\ search.total > 0 /\ search.requested <= search.total
    /\ search.total % 8 = 0
    /\ \A o \in 0 .. offset - 1 : \E i \in Descriptors : InTheWay(i, o, search.total)
    /\ search.step = "full" => offset + search.total > HEAP_SIZE

Inv == Inside /\ Apart /\ Units /\ HasDescriptor /\ HasHolder /\ OneHolder /\ Passed

------------------------------------------------------------------------------

\* Rounding up gives a multiple of a unit that is no smaller.
LEMMA AlignedUp ==
    ASSUME NEW n \in Nat
    PROVE  Aligned(n) \in Nat /\ Aligned(n) >= n /\ Aligned(n) % 8 = 0
BY DEF Aligned

\* Whole units add up to whole units.
LEMMA UnitsAdd ==
    ASSUME NEW a \in Nat, NEW b \in Nat, a % 8 = 0, b % 8 = 0
    PROVE  (a + b) % 8 = 0
OBVIOUS

\* The initial state.
LEMMA InitInv == Init => TypeOK /\ Inv
BY HeapAssumption
   DEF Init, TypeOK, Inv, Inside, Apart, Units, HasDescriptor, HasHolder, OneHolder,
       Passed, Descriptors, Block, HeldBlock, Idle, Search, Used

\* calloc begins a search at the start of the heap.
LEMMA CallocInv ==
    ASSUME TypeOK, Inv, Calloc
    PROVE  TypeOK' /\ Inv'
<1>1. PICK n \in Requests \ {0} :
        search' = [step |-> "search", requested |-> n, total |-> Aligned(n)]
  BY DEF Calloc
<1>2. n \in Nat /\ n > 0
  BY <1>1, HeapAssumption
<1>3. Aligned(n) \in Nat /\ Aligned(n) >= n /\ Aligned(n) % 8 = 0
  BY <1>2, AlignedUp
<1>4. offset' = 0 /\ allocs' = allocs /\ held' = held
  BY DEF Calloc
<1>5. TypeOK'
  BY <1>1, <1>2, <1>3, <1>4, HeapAssumption DEF TypeOK, Search
<1>6. Passed'
  BY <1>1, <1>2, <1>3, <1>4 DEF Passed
<1>7. QED
  BY <1>4, <1>5, <1>6
     DEF Inv, Inside, Apart, Units, HasDescriptor, HasHolder, OneHolder, Used, End, Owns

\* The search goes on behind a block: all it leaves behind is in its way.
LEMMA NextOffsetInv ==
    ASSUME TypeOK, Inv, NextOffset
    PROVE  TypeOK' /\ Inv'
<1>1. PICK i \in Descriptors : Blocked(i) /\ offset' = End(i)
  BY DEF NextOffset, Skip, End
<1>2. search.step = "search" /\ UNCHANGED <<allocs, held, search>>
  BY DEF NextOffset
<1>3. /\ allocs[i].offset \in Nat /\ allocs[i].size \in Nat /\ Used(i)
      /\ offset \in Nat /\ search.total \in Nat /\ HEAP_SIZE \in Nat
      /\ offset < End(i) /\ offset + search.total > allocs[i].offset
  BY <1>1, HeapAssumption DEF TypeOK, Block, Search, Blocked, InTheWay, Used, End
<1>4. End(i) \in 0 .. HEAP_SIZE
  BY <1>3 DEF Inv, Inside, End
<1>5. TypeOK'
  BY <1>1, <1>2, <1>4 DEF TypeOK
<1>6. Units'
  <2>1. End(i) % 8 = 0
    BY <1>3, UnitsAdd DEF Inv, Units, End
  <2>2. QED
    BY <1>1, <1>2, <2>1 DEF Inv, Units, Used
<1>7. Passed'
  <2>1. ASSUME NEW o \in 0 .. End(i) - 1
        PROVE  \E j \in Descriptors : InTheWay(j, o, search.total)
    <3>1. CASE o < offset
      BY <3>1, <1>2, <1>3, <1>4 DEF Inv, Passed
    <3>2. CASE o >= offset
      <4>1. InTheWay(i, o, search.total)
        BY <3>2, <1>3, <1>4 DEF InTheWay, Used, End
      <4>2. QED
        BY <4>1
    <3>3. QED
      BY <3>1, <3>2, <1>3, <1>4
  <2>2. QED
    BY <1>1, <1>2, <2>1 DEF Inv, Passed, InTheWay
<1>8. QED
  BY <1>2, <1>5, <1>6, <1>7
     DEF Inv, Inside, Apart, HasDescriptor, HasHolder, OneHolder, Used, End, Owns

\* A search that ends without a block changes nothing else.
LEMMA RefusedInv ==
    ASSUME TypeOK, Inv, NoDescriptor \/ NoRoom
    PROVE  TypeOK' /\ Inv'
<1>1. UNCHANGED <<allocs, held, offset>> /\ search.step = "search"
  BY DEF NoDescriptor, NoRoom
<1>2. search' \in Search /\ search'.total = search.total
        /\ search'.requested = search.requested
  BY DEF NoDescriptor, NoRoom, Refused, TypeOK, Search
<1>3. search'.step = "full" => offset + search.total > HEAP_SIZE
  <2>1. CASE NoDescriptor
    BY <2>1 DEF NoDescriptor, Refused
  <2>2. CASE NoRoom
    BY <2>2, HeapAssumption DEF NoRoom, Refused, Fits, TypeOK, Search
  <2>3. QED
    BY <2>1, <2>2
<1>4. TypeOK'
  BY <1>1, <1>2 DEF TypeOK
<1>5. Passed'
  BY <1>1, <1>2, <1>3 DEF Inv, Passed, InTheWay
<1>6. QED
  BY <1>1, <1>4, <1>5
     DEF Inv, Inside, Apart, Units, HasDescriptor, HasHolder, OneHolder, Used, End, Owns

\* A block is placed where nothing is in its way.
LEMMA PlaceInv ==
    ASSUME TypeOK, Inv, Place
    PROVE  TypeOK' /\ Inv'
<1> DEFINE total == search.total
           new == [offset |-> offset, requested |-> search.requested, total |-> total]
<1>1. PICK i \in Descriptors :
        allocs[i].size = 0 /\ allocs' = [allocs EXCEPT ![i] = Recorded]
  BY DEF Place
<1>2. /\ search.step = "search" /\ offset + total <= HEAP_SIZE
      /\ \A j \in Descriptors : ~InTheWay(j, offset, total)
      /\ held' = held \cup {new}
      /\ search' = Idle /\ offset' = 0
  BY DEF Place, Fits, Blocked
<1>3. /\ offset \in Nat /\ total \in Nat /\ total > 0 /\ search.requested \in Nat
      /\ search.requested <= total /\ total % 8 = 0 /\ offset % 8 = 0
      /\ HEAP_SIZE \in Nat
  <2>1. offset \in Nat /\ HEAP_SIZE \in Nat /\ offset % 8 = 0
    <3>1. offset \in Nat /\ HEAP_SIZE \in Nat
      BY HeapAssumption DEF TypeOK
    <3>2. offset % 8 = 0
      BY Zenon DEF Inv, Units
    <3>3. QED
      BY <3>1, <3>2
  <2>2. total \in Nat /\ search.requested \in Nat
    BY DEF TypeOK, Search
  <2>3. search.step \in {"search", "full"}
    BY <1>2
  <2>4. total > 0 /\ search.requested <= total /\ total % 8 = 0
    BY <2>3 DEF Inv, Passed
  <2>5. QED
    BY <2>1, <2>2, <2>4
<1>4. /\ allocs'[i] = [offset |-> offset, size |-> total]
      /\ \A j \in Descriptors : j # i => allocs'[j] = allocs[j]
      /\ allocs' \in [Descriptors -> Block]
  <2>1. [offset |-> offset, size |-> total] \in Block
    BY <1>2, <1>3 DEF Block
  <2>2. allocs' = [allocs EXCEPT ![i] = [offset |-> offset, size |-> total]]
    BY <1>1 DEF Recorded
  <2>3. allocs \in [Descriptors -> Block]
    BY DEF TypeOK
  <2>4. QED
    BY <2>1, <2>2, <2>3
<1>5. \A j \in Descriptors :
        /\ allocs[j].offset \in Nat /\ allocs[j].size \in Nat
        /\ Used(j) => End(j) <= offset \/ offset + total <= allocs[j].offset
  BY <1>2, <1>3 DEF TypeOK, Block, InTheWay, Used, End
<1>6. TypeOK'
  BY <1>2, <1>3, <1>4 DEF TypeOK, HeldBlock, Search, Idle
<1>7. Inside' /\ Apart' /\ Units' /\ Passed'
  <2>1. Inside'
    BY <1>2, <1>4 DEF Inv, Inside, Used, End
  <2>2. Apart'
    BY <1>3, <1>4, <1>5 DEF Inv, Apart, Used, End
  <2>3. Units'
    BY <1>2, <1>3, <1>4 DEF Inv, Units, Used
  <2>4. Passed'
    BY <1>2 DEF Passed, Idle
  <2>5. QED
    BY <2>1, <2>2, <2>3, <2>4
<1>8. \A j \in Descriptors : Used(j) => allocs[j].offset # offset
  BY <1>3, <1>5 DEF Used, End
<1>9. \A b \in held : b.offset # offset
  BY <1>8 DEF Inv, HasDescriptor, Owns, Used
<1>10. HasDescriptor'
  <2>1. ASSUME NEW b \in held
        PROVE  /\ b.requested <= b.total
               /\ \E j \in Descriptors :
                    /\ allocs'[j].size > 0 /\ allocs'[j].offset = b.offset
                    /\ allocs'[j].size = b.total
    <3>1. PICK j \in Descriptors : Owns(j, b.offset) /\ allocs[j].size = b.total
      BY DEF Inv, HasDescriptor
    <3>2. allocs'[j] = allocs[j]
      BY <3>1, <1>1, <1>4 DEF Owns, TypeOK, Block
    <3>3. QED
      BY <3>1, <3>2 DEF Inv, HasDescriptor, Owns
  <2>2. allocs'[i].size > 0 /\ allocs'[i].offset = new.offset /\ allocs'[i].size = new.total
    BY <1>3, <1>4
  <2>3. new.requested <= new.total
    BY <1>3
  <2>4. QED
    BY <1>2, <2>1, <2>2, <2>3 DEF HasDescriptor, Owns
<1>11. HasHolder'
  <2>1. ASSUME NEW j \in Descriptors, allocs'[j].size > 0
        PROVE  \E b \in held' : b.offset = allocs'[j].offset /\ b.total = allocs'[j].size
    <3>1. CASE j = i
      <4>1. new \in held' /\ new.offset = offset /\ new.total = total
        BY <1>2
      <4>2. QED
        BY <3>1, <4>1, <1>4
    <3>2. CASE j # i
      <4>1. allocs'[j] = allocs[j]
        BY <3>2, <1>4
      <4>2. PICK b \in held : b.offset = allocs[j].offset /\ b.total = allocs[j].size
        BY <2>1, <4>1 DEF Inv, HasHolder, Used
      <4>3. b \in held'
        BY <1>2
      <4>4. QED
        BY <4>1, <4>2, <4>3
    <3>3. QED
      BY <3>1, <3>2
  <2>2. QED
    BY <2>1 DEF HasHolder, Used
<1>12. OneHolder'
  BY <1>2, <1>9 DEF Inv, OneHolder
<1>13. QED
  BY <1>6, <1>7, <1>10, <1>11, <1>12 DEF Inv

\* free clears the one descriptor of the block it is given.
LEMMA FreeInv ==
    ASSUME TypeOK, Inv, Free
    PROVE  TypeOK' /\ Inv'
<1>1. PICK b \in held : allocs' = Released(b.offset) /\ held' = held \ {b}
  BY DEF Free
<1>2. search' = Idle /\ offset' = 0
  BY DEF Free
<1>3. PICK i \in Descriptors : Owns(i, b.offset) /\ allocs[i].size = b.total
  BY DEF Inv, HasDescriptor
<1>4. \A j \in Descriptors :
        allocs[j].offset \in 0 .. HEAP_SIZE /\ allocs[j].size \in 0 .. HEAP_SIZE
  BY DEF TypeOK, Block
<1>5. \A j \in Descriptors : Owns(j, b.offset) => j = i
  <2> SUFFICES ASSUME NEW j \in Descriptors, Owns(j, b.offset), j # i
               PROVE  FALSE
    OBVIOUS
  <2>1. /\ Used(i) /\ Used(j) /\ allocs[i].offset = allocs[j].offset
        /\ allocs[i].offset \in Int /\ allocs[i].size \in Int /\ allocs[j].size \in Int
    BY <1>3, <1>4, HeapAssumption DEF Owns, Used
  <2>2. End(i) <= allocs[j].offset \/ End(j) <= allocs[i].offset
    BY <2>1 DEF Inv, Apart
  <2>3. QED
    BY <2>1, <2>2 DEF Used, End
<1>6. /\ allocs' \in [Descriptors -> Block]
      /\ ~Used(i)'
      /\ \A j \in Descriptors : j # i => allocs'[j] = allocs[j]
  <2>1. allocs'[i] = [offset |-> allocs[i].offset, size |-> 0]
    BY <1>1, <1>3, <1>5 DEF Released, Descriptors
  <2>2. \A j \in Descriptors : j # i => allocs'[j] = allocs[j]
    BY <1>1, <1>5 DEF Released
  <2>3. allocs'[i] \in Block /\ allocs'[i].size = 0
    BY <2>1, <1>4, HeapAssumption DEF Block
  <2>4. \A j \in Descriptors : allocs'[j] \in Block
    BY <2>2, <2>3 DEF TypeOK
  <2>5. allocs' = [j \in Descriptors |-> allocs'[j]]
    BY <1>1 DEF Released
  <2>6. QED
    BY <2>2, <2>3, <2>4, <2>5 DEF Used
<1>7. TypeOK'
  <2>1. held' \subseteq HeldBlock
    BY <1>1 DEF TypeOK
  <2>2. search' \in Search
    BY <1>2 DEF Idle, Search
  <2>3. QED
    BY <1>2, <1>6, <2>1, <2>2, HeapAssumption DEF TypeOK
<1>8. \A j \in Descriptors : Used(j)' => j # i /\ Used(j) /\ allocs'[j] = allocs[j]
  BY <1>6 DEF Used
<1>9. Inside' /\ Apart' /\ Units' /\ Passed'
  BY <1>2, <1>8 DEF Inv, Inside, Apart, Units, Passed, Idle, Used, End
<1>10. \A c \in held' : c \in held /\ c.offset # b.offset
  BY <1>1 DEF Inv, OneHolder
<1>11. HasDescriptor'
  <2>1. ASSUME NEW c \in held'
        PROVE  /\ c.requested <= c.total
               /\ \E j \in Descriptors : Owns(j, c.offset)' /\ allocs'[j].size = c.total
    <3>1. PICK j \in Descriptors : Owns(j, c.offset) /\ allocs[j].size = c.total
      BY <1>10 DEF Inv, HasDescriptor
    <3>2. j # i
      BY <3>1, <1>3, <1>10 DEF Owns
    <3>3. QED
      BY <3>1, <3>2, <1>6, <1>10 DEF Inv, HasDescriptor, Owns
  <2>2. QED
    BY <2>1 DEF HasDescriptor, Owns
<1>12. HasHolder'
  <2>1. ASSUME NEW j \in Descriptors, Used(j)'
        PROVE  \E c \in held' : c.offset = allocs'[j].offset /\ c.total = allocs'[j].size
    <3>1. j # i /\ Used(j) /\ allocs'[j] = allocs[j]
      BY <2>1, <1>8
    <3>2. PICK c \in held : c.offset = allocs[j].offset /\ c.total = allocs[j].size
      BY <3>1 DEF Inv, HasHolder
    <3>3. c # b
      BY <3>1, <3>2, <1>5 DEF Owns, Used
    <3>4. QED
      BY <3>1, <3>2, <3>3, <1>1
  <2>2. QED
    BY <2>1 DEF HasHolder, Used
<1>13. OneHolder'
  BY <1>10 DEF Inv, OneHolder
<1>14. QED
  BY <1>7, <1>9, <1>11, <1>12, <1>13 DEF Inv

------------------------------------------------------------------------------

\* Every step keeps the invariant.
LEMMA StepInv == TypeOK /\ Inv /\ [Next]_vars => TypeOK' /\ Inv'
<1> SUFFICES ASSUME TypeOK, Inv, [Next]_vars
             PROVE  TypeOK' /\ Inv'
  OBVIOUS
<1>1. CASE Calloc
  BY <1>1, CallocInv
<1>2. CASE NextOffset
  BY <1>2, NextOffsetInv
<1>3. CASE Place
  BY <1>3, PlaceInv
<1>4. CASE NoDescriptor \/ NoRoom
  BY <1>4, RefusedInv
<1>5. CASE Free
  BY <1>5, FreeInv
<1>6. CASE UNCHANGED vars
  BY <1>6 DEF vars, TypeOK, Inv, Inside, Apart, Units, HasDescriptor, HasHolder,
              OneHolder, Passed, Used, End, Owns, InTheWay
<1>7. QED
  BY <1>1, <1>2, <1>3, <1>4, <1>5, <1>6 DEF Next, Round

\* The allocator's state is always well formed, and the invariant holds.
THEOREM HeapInvariant == Spec => [](TypeOK /\ Inv)
<1>1. Init => TypeOK /\ Inv
  BY InitInv
<1>2. TypeOK /\ Inv /\ [Next]_vars => (TypeOK /\ Inv)'
  BY StepInv
<1>3. QED
  BY <1>1, <1>2, PTL DEF Spec

\* No byte of the heap is ever handed out twice, and none outside it
\* (calloc's overlap test).
THEOREM NeverOverlap == Spec => []BlocksApart
<1>1. TypeOK /\ Inv => BlocksApart
  <2> SUFFICES ASSUME TypeOK, Inv
               PROVE  BlocksApart
    OBVIOUS
  <2>1. \A b \in held :
          /\ b.offset \in Nat /\ b.requested \in Nat /\ b.total \in Nat
          /\ b.requested <= b.total
          /\ \E i \in Descriptors :
               /\ Used(i) /\ allocs[i].offset = b.offset /\ End(i) = b.offset + b.total
    <3> SUFFICES ASSUME NEW b \in held
                 PROVE  /\ b.offset \in Nat /\ b.requested \in Nat /\ b.total \in Nat
                        /\ b.requested <= b.total
                        /\ \E i \in Descriptors :
                             /\ Used(i) /\ allocs[i].offset = b.offset
                             /\ End(i) = b.offset + b.total
      OBVIOUS
    <3>1. b \in HeldBlock
      BY DEF TypeOK
    <3>2. b.offset \in Nat /\ b.requested \in Nat /\ b.total \in Nat
      BY <3>1, HeapAssumption DEF HeldBlock
    <3>3. QED
      BY <3>2 DEF Inv, HasDescriptor, Owns, Used, End
  <2>2. \A b \in held : b.offset + b.requested <= HEAP_SIZE
    BY <2>1, HeapAssumption DEF Inv, Inside
  <2>3. ASSUME NEW b \in held, NEW c \in held, b # c
        PROVE  \/ b.offset + b.requested <= c.offset
               \/ c.offset + c.requested <= b.offset
    <3>1. PICK i \in Descriptors :
            Used(i) /\ allocs[i].offset = b.offset /\ End(i) = b.offset + b.total
      BY <2>1
    <3>2. PICK j \in Descriptors :
            Used(j) /\ allocs[j].offset = c.offset /\ End(j) = c.offset + c.total
      BY <2>1
    <3>3. i # j
      BY <2>3, <3>1, <3>2 DEF Inv, OneHolder
    <3>4. QED
      BY <2>1, <3>1, <3>2, <3>3 DEF Inv, Apart
  <2>4. QED
    BY <2>2, <2>3 DEF BlocksApart
<1>2. QED
  BY <1>1, HeapInvariant, PTL

\* Every block begins on a unit of 8 bytes ("Align to 8 bytes").
THEOREM AlwaysAligned == Spec => []BlocksAligned
<1>1. TypeOK /\ Inv => BlocksAligned
  BY DEF Inv, HasDescriptor, Units, Owns, Used, BlocksAligned
<1>2. QED
  BY <1>1, HeapInvariant, PTL

\* First fit is complete: when calloc finds no room there is none, although
\* it looks only at 0 and at the ends of blocks.
THEOREM FirstFitComplete == Spec => []NullOnlyWhenFull
<1>1. TypeOK /\ Inv => NullOnlyWhenFull
  <2> SUFFICES ASSUME TypeOK, Inv, search.step = "full",
                      NEW o \in 0 .. HEAP_SIZE - search.total
               PROVE  \E i \in Descriptors : InTheWay(i, o, search.total)
    BY DEF NullOnlyWhenFull
  <2>1. o \in 0 .. offset - 1
    BY HeapAssumption DEF TypeOK, Search, Inv, Passed
  <2>2. QED
    BY <2>1 DEF Inv, Passed
<1>2. QED
  BY <1>1, HeapInvariant, PTL

\* free takes back what calloc gave: descriptors and blocks always match, so
\* none is lost.
THEOREM NoDescriptorLost == Spec => []DescriptorsMatchBlocks
<1>1. TypeOK /\ Inv => DescriptorsMatchBlocks
  <2> SUFFICES ASSUME TypeOK, Inv
               PROVE  DescriptorsMatchBlocks
    OBVIOUS
  <2>1. \A i \in UsedDescriptors :
          \E b \in held : allocs[i].offset = b.offset /\ allocs[i].size = b.total
    BY DEF Inv, HasHolder, UsedDescriptors, Used
  <2>2. \A b \in held :
          \E i \in UsedDescriptors : allocs[i].offset = b.offset /\ allocs[i].size = b.total
    BY DEF Inv, HasDescriptor, UsedDescriptors, Owns
  <2>3. QED
    BY <2>1, <2>2 DEF DescriptorsMatchBlocks
<1>2. QED
  BY <1>1, HeapInvariant, PTL

==============================================================================

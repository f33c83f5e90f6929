------------------------------ MODULE FfiAlloc ------------------------------
(***************************************************************************)
(* The allocator behind the C libraries of the services                    *)
(* (spe_services/src/ffi_alloc.rs): calloc and free over one fixed heap    *)
(* and a fixed table of descriptors, first fit.                            *)
(*                                                                         *)
(* One thread runs in the services, so nothing comes in between the steps  *)
(* of a search; the search is split into its rounds nevertheless, since    *)
(* what is to be shown is what the rounds add up to.                       *)
(***************************************************************************)
EXTENDS Integers, FiniteSets

CONSTANTS
    HEAP_SIZE,    \* bytes
    MAX_ALLOCS,   \* descriptors
    Requests      \* the sizes that are asked for, in bytes (nobj * size)

\* u16::MAX: ALLOCS holds 16-bit offsets and sizes.
U16Max == 65535

ASSUME HeapAssumption ==
    /\ HEAP_SIZE \in Nat /\ HEAP_SIZE <= U16Max
    /\ MAX_ALLOCS \in Nat \ {0}
    /\ Requests \subseteq Nat

VARIABLES
    allocs,    \* ALLOCS; a descriptor of size 0 is free
    held,      \* the blocks the C code has: what it was given and asked for
    search,    \* the calloc that runs, or none
    offset     \* how far its search has come

vars == <<allocs, held, search, offset>>

Descriptors == 0 .. MAX_ALLOCS - 1
Block == [offset : 0 .. HEAP_SIZE, size : 0 .. HEAP_SIZE]
HeldBlock == [offset : 0 .. HEAP_SIZE, requested : Nat, total : Nat]

\* The search state: idle, searching for total bytes (requested unrounded),
\* or refused for want of room ("full") or of a descriptor ("table").
Idle == [step |-> "idle", requested |-> 0, total |-> 0]
Search == [step : {"idle", "search", "full", "table"}, requested : Nat, total : Nat]

\* (total_req + 7) & !7
Aligned(n) == 8 * ((n + 7) \div 8)

UsedDescriptors == {i \in Descriptors : allocs[i].size > 0}

InTheWayAtStart(i, o, total) ==                          \* mutant of InTheWay
    /\ allocs[i].size > 0
    /\ allocs[i].offset <= o /\ o < allocs[i].offset + allocs[i].size

\* Descriptor i is in the way of total bytes at offset o.
InTheWay(i, o, total) ==
    /\ allocs[i].size > 0
    /\ o < allocs[i].offset + allocs[i].size
    /\ o + total > allocs[i].offset

TypeOK ==
    /\ allocs \in [Descriptors -> Block]
    /\ held \subseteq HeldBlock
    /\ search \in Search
    /\ offset \in 0 .. HEAP_SIZE

Init ==
    /\ allocs = [i \in Descriptors |-> [offset |-> 0, size |-> 0]]
    /\ held = {}
    /\ search = Idle
    /\ offset = 0

------------------------------------------------------------------------------

\* calloc is entered; a request of 0 bytes returns null at once.
Calloc ==
    /\ search.step \in {"idle", "full", "table"}
    /\ \E n \in Requests \ {0} :
         search' = [step |-> "search", requested |-> n, total |-> Aligned(n)]
    /\ offset' = 0
    /\ UNCHANGED <<allocs, held>>

FitsStart == offset < HEAP_SIZE                              \* mutant of Fits
Fits == offset + search.total <= HEAP_SIZE

Blocked(i) == InTheWay(i, offset, search.total)

\* continue 'search: go on after the first block that is in the way.
SkipToStart(i) == allocs[i].offset                           \* mutant of Skip
SkipTotal(i) == offset + search.total                        \* mutant of Skip
Skip(i) == allocs[i].offset + allocs[i].size

NextOffset ==
    /\ search.step = "search" /\ Fits
    /\ \E i \in Descriptors :
         /\ Blocked(i)
         /\ \A j \in Descriptors : j < i => ~Blocked(j)
         /\ offset' = Skip(i)
    /\ UNCHANGED <<allocs, held, search>>

\* What the block is recorded as.
RecordedRequest == [offset |-> offset, size |-> search.requested]    \* mutant of Recorded
Recorded == [offset |-> offset, size |-> search.total]

\* No overlap: the first free descriptor takes the block.
Place ==
    /\ search.step = "search" /\ Fits
    /\ \A i \in Descriptors : ~Blocked(i)
    /\ \E i \in Descriptors :
         /\ allocs[i].size = 0
         /\ \A j \in Descriptors : j < i => allocs[j].size > 0
         /\ allocs' = [allocs EXCEPT ![i] = Recorded]
    /\ held' = held \cup
         {[offset |-> offset, requested |-> search.requested, total |-> search.total]}
    /\ search' = Idle /\ offset' = 0

\* The search ends without a block: calloc returns null.
Refused(why) == [step |-> why, requested |-> search.requested, total |-> search.total]

\* MAX_ALLOCS reached.
NoDescriptor ==
    /\ search.step = "search" /\ Fits
    /\ \A i \in Descriptors : ~Blocked(i) /\ allocs[i].size > 0
    /\ search' = Refused("table")
    /\ UNCHANGED <<allocs, held, offset>>

\* The search has left the heap.
NoRoom ==
    /\ search.step = "search" /\ ~Fits
    /\ search' = Refused("full")
    /\ UNCHANGED <<allocs, held, offset>>

\* free finds the descriptor by the offset of the pointer.
Owns(i, o) == allocs[i].size > 0 /\ allocs[i].offset = o

ReleasedUpTo(o) ==                                           \* mutant of Released
    [i \in Descriptors |->
        IF allocs[i].size > 0 /\ allocs[i].offset <= o
             /\ \A j \in Descriptors : j < i => ~(allocs[j].size > 0 /\ allocs[j].offset <= o)
          THEN [offset |-> allocs[i].offset, size |-> 0] ELSE allocs[i]]
Released(o) ==
    [i \in Descriptors |->
        IF Owns(i, o) /\ \A j \in Descriptors : j < i => ~Owns(j, o)
          THEN [offset |-> allocs[i].offset, size |-> 0] ELSE allocs[i]]

\* The C code gives back a block it has; null and pointers outside the heap
\* change nothing.
Free ==
    /\ search.step # "search"
    /\ \E b \in held :
         /\ allocs' = Released(b.offset)
         /\ held' = held \ {b}
    /\ search' = Idle /\ offset' = 0

Round == NextOffset \/ Place \/ NoDescriptor \/ NoRoom

Next == Calloc \/ Round \/ Free

Spec == Init /\ [][Next]_vars

\* A search that was begun runs on: it is a loop of one function.
FairSpec == Spec /\ WF_vars(Round)

------------------------------------------------------------------------------
(* Properties. *)

\* No byte belongs to two blocks that are in use, and none lies outside the
\* heap (calloc's overlap test against every descriptor).
BlocksApart ==
    /\ \A b \in held : b.offset + b.requested <= HEAP_SIZE
    /\ \A b, c \in held : b # c =>
         \/ b.offset + b.requested <= c.offset
         \/ c.offset + c.requested <= b.offset

\* Every block can hold any type: the search moves from one rounded end to
\* the next ("Align to 8 bytes").
BlocksAligned == \A b \in held : b.offset % 8 = 0

\* calloc gives up for want of room only when no place in the heap is free
\* for the block, although it tries no place but 0 and the ends of blocks.
NullOnlyWhenFull ==
    search.step = "full" =>
      \A o \in 0 .. HEAP_SIZE - search.total :
        \E i \in Descriptors : InTheWay(i, o, search.total)

\* Every descriptor in use is a block somebody has, and every block has its
\* descriptor: free releases the block it is given, and nothing else.
DescriptorsMatchBlocks ==
    {<<allocs[i].offset, allocs[i].size>> : i \in UsedDescriptors}
      = {<<b.offset, b.total>> : b \in held}

\* calloc returns: its search makes progress in every round.
SearchEnds == search.step = "search" ~> search.step # "search"

==============================================================================

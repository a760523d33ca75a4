---------------------------- MODULE LinearMemory ----------------------------
(***************************************************************************)
(* The CPU backend's allocator over WebAssembly memory                     *)
(* (backends/cpu/linear-memory.ts): a bump cursor, an address-ordered list *)
(* of free segments searched first-fit, and an upper bound on the largest  *)
(* segment that lets most requests skip the search. Memory grows in pages  *)
(* and never shrinks.                                                      *)
(***************************************************************************)
EXTENDS Integers, SequencesExt

CONSTANTS
    Allocations,          \* allocation objects; a name is reused once released
    Sizes,                \* byte lengths requested
    Alignment,            \* #alignment
    ArenaBase,            \* first byte after the kernel module's own data
    PageBytes,            \* WEBASSEMBLY_PAGE_BYTES
    MaximumPages,         \* #maximumPages
    MaximumAddress        \* MAXIMUM_ADDRESS

ASSUME MemoryAssumption ==
    /\ Alignment \in Nat \ {0} /\ PageBytes \in Nat \ {0}
    /\ Sizes \subseteq Nat
    /\ {ArenaBase, MaximumPages, MaximumAddress} \subseteq Nat
    /\ PageBytes % Alignment = 0
    /\ ArenaBase <= (MaximumPages - 1) * PageBytes /\ MaximumPages * PageBytes <= MaximumAddress + 1

VARIABLES
    live,                 \* allocations whose `released' is false
    offset, bytes, reserved,   \* the fields of CpuAllocation
    cursor,               \* #cursor
    segments,             \* #freeSegments
    bound,                \* #freeSegmentByteBound
    payloadBytes,         \* #livePayloadBytes
    reservedBytes,        \* #liveReservedBytes
    pages                 \* memory.buffer.byteLength in pages

fields == <<offset, bytes, reserved>>
vars == <<live, fields, cursor, segments, bound, payloadBytes, reservedBytes, pages>>

Align(value) == ((value + Alignment - 1) \div Alignment) * Alignment

PagesFor(n) == (n + PageBytes - 1) \div PageBytes

\* Memory holds at least the kernel module's data when the allocator starts.
Init ==
    /\ live = {} /\ segments = <<>> /\ bound = 0
    /\ offset = [a \in Allocations |-> 0]
    /\ bytes = [a \in Allocations |-> 0]
    /\ reserved = [a \in Allocations |-> 0]
    /\ cursor = Align(ArenaBase)
    /\ payloadBytes = 0 /\ reservedBytes = 0
    /\ pages = PagesFor(ArenaBase)

-----------------------------------------------------------------------------
(* allocate                                                                *)

\* The search is skipped when no segment can be large enough.
Searches(n) == n <= bound
Fitting(n) == {i \in DOMAIN segments : segments[i].byteLength >= n}
Finds(n) == Searches(n) /\ Fitting(n) # {}

\* An unsuccessful search leaves the exact maximum it met as the new bound.
Largest ==
    LET lengths == {segments[i].byteLength : i \in DOMAIN segments} IN
    IF lengths = {} THEN 0 ELSE Max(lengths)

Construct(a, n, at) ==
    /\ live' = live \cup {a}
    /\ offset' = [offset EXCEPT ![a] = at]
    /\ bytes' = [bytes EXCEPT ![a] = n]
    /\ reserved' = [reserved EXCEPT ![a] = Align(n)]
    /\ payloadBytes' = payloadBytes + n
    /\ reservedBytes' = reservedBytes + Align(n)

Segment(at, n) == [offset |-> at, byteLength |-> n]

\* Mutants of Taken: the remainder is dropped; the remainder's offset is not advanced.
TakenWhole(i, size) == RemoveAt(segments, i)
TakenInPlace(i, size) ==
    LET s == segments[i] IN
    IF s.byteLength = size THEN RemoveAt(segments, i)
    ELSE ReplaceAt(segments, i, Segment(s.offset, s.byteLength - size))

\* An exact match leaves the list, a larger segment loses its front.
Taken(i, size) ==
    LET s == segments[i] IN
    IF s.byteLength = size THEN RemoveAt(segments, i)
    ELSE ReplaceAt(segments, i, Segment(s.offset + size, s.byteLength - size))

\* First fit.
AllocateFree(a, n) ==
    LET size == Align(n)  i == Min(Fitting(size)) IN
    /\ a \notin live /\ Finds(size)
    /\ segments' = Taken(i, size)
    /\ Construct(a, n, segments[i].offset)
    /\ UNCHANGED <<cursor, bound, pages>>

\* The bump path ends in the address check, the page limit, or growth, which
\* the browser may refuse.
GrownByWholePages(end) ==      \* mutant of Grown: the last, partial page is not asked for
    IF end <= pages * PageBytes THEN pages ELSE end \div PageBytes

Grown(end) == IF end <= pages * PageBytes THEN pages ELSE PagesFor(end)

BoundAfterEveryMiss(n) ==      \* mutant of BoundAfterSearch: a skipped search also resets it
    IF Searches(n) THEN Largest ELSE 0

BoundAfterSearch(n) == IF Searches(n) THEN Largest ELSE bound

AllocateBump(a, n) ==
    LET size == Align(n)  end == cursor + size IN
    /\ a \notin live /\ ~Finds(size)
    /\ end <= MaximumAddress
    /\ end <= pages * PageBytes \/ PagesFor(end) <= MaximumPages
    /\ bound' = BoundAfterSearch(size)
    /\ cursor' = end
    /\ pages' = Grown(end)
    /\ Construct(a, n, cursor)
    /\ UNCHANGED segments

\* RESOURCE_EXHAUSTED: only the bound keeps what the search has learnt.
AllocateFails(n) ==
    LET size == Align(n)  end == cursor + size IN
    /\ ~Finds(size)
    /\ end > MaximumAddress \/ end > pages * PageBytes
    /\ bound' = BoundAfterSearch(size)
    /\ UNCHANGED <<live, fields, cursor, segments, payloadBytes, reservedBytes, pages>>

-----------------------------------------------------------------------------
(* release                                                                 *)

\* The binary search for the first segment behind `at'.
Search(at) ==
    LET places == 1..(Len(segments) + 1)
        from[range \in places \X places] ==
            LET low == range[1]  high == range[2]  middle == (low + high) \div 2 IN
            IF low >= high THEN low
            ELSE IF segments[middle].offset <= at THEN from[<<middle + 1, high>>]
            ELSE from[<<low, middle>>]
    IN from[<<1, Len(segments) + 1>>]

PlaceAtEnd(at) == Len(segments) + 1      \* mutant of Place: every release appends

\* Where the segment goes: at the end without searching when released in order.
Place(at) ==
    IF segments = <<>> \/ Last(segments).offset <= at THEN Len(segments) + 1 ELSE Search(at)

Touches(i, at) == i \in DOMAIN segments /\ segments[i].offset + segments[i].byteLength = at
Follows(i, end) == i \in DOMAIN segments /\ segments[i].offset = end

\* #insertFreeSegment: join the previous segment, the next, both or neither.
InsertFreeSegment(at, n) ==
    LET i == Place(at)
        back == IF Touches(i - 1, at) THEN segments[i - 1].byteLength ELSE 0
        ahead == IF Follows(i, at + n) THEN segments[i].byteLength ELSE 0
        merged == Segment(at - back, back + n + ahead)
        kept == IF ahead > 0 THEN RemoveAt(segments, i) ELSE segments
    IN
    /\ segments' = IF back > 0 THEN ReplaceAt(kept, i - 1, merged) ELSE InsertAt(kept, i, merged)
    /\ bound' = Max({bound, merged.byteLength})

\* A released object is never read again: its name goes back with fields zero.
Release(a) ==
    /\ a \in live
    /\ live' = live \ {a}
    /\ payloadBytes' = payloadBytes - bytes[a]
    /\ reservedBytes' = reservedBytes - reserved[a]
    /\ IF reserved[a] > 0 THEN InsertFreeSegment(offset[a], reserved[a])
       ELSE UNCHANGED <<segments, bound>>
    /\ offset' = [offset EXCEPT ![a] = 0]
    /\ bytes' = [bytes EXCEPT ![a] = 0]
    /\ reserved' = [reserved EXCEPT ![a] = 0]
    /\ UNCHANGED <<cursor, pages>>

-----------------------------------------------------------------------------
Next ==
    \/ \E a \in Allocations, n \in Sizes : AllocateFree(a, n) \/ AllocateBump(a, n)
    \/ \E n \in Sizes : AllocateFails(n)
    \/ \E a \in Allocations : Release(a)

Spec == Init /\ [][Next]_vars

-----------------------------------------------------------------------------
(* Properties.                                                             *)

TypeOK ==
    /\ live \in SUBSET Allocations
    /\ \A a \in Allocations : {offset[a], bytes[a], reserved[a]} \subseteq Nat
    /\ \A i \in DOMAIN segments : segments[i].offset \in Nat /\ segments[i].byteLength \in Nat \ {0}
    /\ {cursor, bound, payloadBytes, reservedBytes, pages} \subseteq Nat
    /\ cursor <= pages * PageBytes

\* The shortcut is sound: a request larger than the bound fits no free segment,
\* so skipping the search never grows memory while a segment would do.
BoundCoversSegments == \A i \in DOMAIN segments : segments[i].byteLength <= bound

\* No byte is lost: the arena below the cursor is the live reservations plus the
\* free segments, through every split, exact fit and merge.
EveryByteIsAccounted ==
    /\ cursor - Align(ArenaBase) = reservedBytes + FoldSeq(LAMBDA s, n : s.byteLength + n, 0, segments)
    /\ reservedBytes = FoldSet(LAMBDA a, n : reserved[a] + n, 0, live)
    /\ payloadBytes = FoldSet(LAMBDA a, n : bytes[a] + n, 0, live)

\* The list, the bound and the binary search together behave as the abstract
\* store: lowest fitting range first, untouched memory last, neighbours merged.
Store == INSTANCE FirstFitStore WITH
    Base <- Align(ArenaBase),
    Limit <- Min({MaximumAddress, MaximumPages * PageBytes}),
    free <- ToSet(segments)

ImplementsFirstFit == Store!Spec

\* No two live tensors, and no live tensor and free segment, share a byte.
LiveBytesAreExclusive == Store!LiveBytesAreExclusive

\* Memory is cut into live reservations and free segments without overlap or
\* loss, through every split, exact fit and merge; it has been grown to hold
\* them, and the search that a request skips would have found nothing.
MemoryIsPartitioned ==
    TypeOK /\ BoundCoversSegments /\ EveryByteIsAccounted /\ LiveBytesAreExclusive
=============================================================================

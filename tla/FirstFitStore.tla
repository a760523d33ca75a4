---------------------------- MODULE FirstFitStore ----------------------------
(***************************************************************************)
(* What the CPU backend's linear memory promises: byte ranges that nobody  *)
(* else owns, taken from the lowest free range that is large enough, and   *)
(* from untouched memory only when no free range is. Free ranges are a set *)
(* here; how the code finds and merges them is the business of             *)
(* LinearMemory, which implements this module.                             *)
(***************************************************************************)
EXTENDS Integers

CONSTANTS
    Allocations,          \* allocation objects
    Base,                 \* the aligned start of the arena
    Limit                 \* the highest end address memory can ever have

VARIABLES
    live,                 \* allocations handed out and not released
    offset, reserved,     \* the range of each live allocation, 0 otherwise
    free,                 \* the free ranges below the cursor
    cursor                \* the start of untouched memory

vars == <<live, offset, reserved, free, cursor>>

Ranges == [offset : Nat, byteLength : Nat \ {0}]

TypeOK ==
    /\ live \in SUBSET Allocations
    /\ offset \in [Allocations -> Nat]
    /\ reserved \in [Allocations -> Nat]
    /\ free \in SUBSET Ranges
    /\ cursor \in Nat

Init ==
    /\ live = {} /\ free = {} /\ cursor = Base
    /\ offset = [a \in Allocations |-> 0]
    /\ reserved = [a \in Allocations |-> 0]

End(s) == s.offset + s.byteLength
Fits(s, n) == s \in free /\ s.byteLength >= n
Lowest(s, n) == Fits(s, n) /\ \A o \in free : Fits(o, n) => s.offset <= o.offset

HandOut(a, at, n) ==
    /\ live' = live \cup {a}
    /\ offset' = [offset EXCEPT ![a] = at]
    /\ reserved' = [reserved EXCEPT ![a] = n]

\* Take the front of the lowest free range that fits.
Reuse(a, n, s) ==
    /\ a \notin live /\ Lowest(s, n)
    /\ HandOut(a, s.offset, n)
    /\ free' = (free \ {s}) \cup
               (IF s.byteLength = n THEN {}
                ELSE {[offset |-> s.offset + n, byteLength |-> s.byteLength - n]})
    /\ UNCHANGED cursor

\* Take untouched memory, only when no free range fits.
Extend(a, n) ==
    /\ a \notin live /\ ~\E s \in free : Fits(s, n)
    /\ cursor + n <= Limit
    /\ HandOut(a, cursor, n)
    /\ cursor' = cursor + n
    /\ UNCHANGED free

\* The released range is merged with its free neighbours.
Before(at) == {s \in free : End(s) = at}
After(at) == {s \in free : s.offset = at}

\* Bytes of the free ranges in a set of at most one range.
Length(S) == IF S = {} THEN 0 ELSE (CHOOSE s \in S : TRUE).byteLength

Merged(at, n) ==
    [offset |-> at - Length(Before(at)),
     byteLength |-> Length(Before(at)) + n + Length(After(at + n))]

Release(a) ==
    LET at == offset[a]  n == reserved[a] IN
    /\ a \in live
    /\ live' = live \ {a}
    /\ free' = IF n = 0 THEN free
               ELSE (free \ (Before(at) \cup After(at + n))) \cup {Merged(at, n)}
    /\ offset' = [offset EXCEPT ![a] = 0]
    /\ reserved' = [reserved EXCEPT ![a] = 0]
    /\ UNCHANGED cursor

Next ==
    \E a \in Allocations :
        \/ Release(a)
        \/ \E n \in 0..Limit : Extend(a, n)
        \/ \E n \in 0..Limit, s \in free : Reuse(a, n, s)

Spec == Init /\ [][Next]_vars

-----------------------------------------------------------------------------
(* Properties.                                                             *)

\* Two byte ranges share no address.
Apart(at, n, to, m) == at + n <= to \/ to + m <= at

\* No byte of a live tensor belongs to another live tensor or to a free range,
\* so a kernel can never write over a live operand it was not given.
LiveBytesAreExclusive ==
    /\ \A a, b \in live : a # b /\ reserved[a] > 0 /\ reserved[b] > 0 =>
        Apart(offset[a], reserved[a], offset[b], reserved[b])
    /\ \A a \in live, s \in free : reserved[a] > 0 =>
        Apart(offset[a], reserved[a], s.offset, s.byteLength)

\* Every range handed out or free lies in the arena, below the cursor.
RangesAreInArena ==
    /\ \A a \in live : Base <= offset[a] /\ offset[a] + reserved[a] <= cursor
    /\ \A s \in free : Base <= s.offset /\ End(s) <= cursor
    /\ cursor <= Limit

\* Free ranges never touch: what was released side by side is one range again.
FreeRangesAreMaximal ==
    \A s, o \in free : s # o => End(s) < o.offset \/ End(o) < s.offset
=============================================================================

-------------------------- MODULE SerializedBuffer --------------------------
(***************************************************************************)
(* The byte buffers of paymon/utils/SerializedBuffer.cpp and the size       *)
(* classes of the pool in paymon/utils/BuffersStorage.cpp.                  *)
(*                                                                         *)
(* A byte is named by its offset in the stream it came from, so a buffer    *)
(* that holds bytes in the wrong order, twice or not at all is visible.     *)
(* Memory that was never written, or that the pool hands out again, holds   *)
(* Stale.                                                                  *)
(***************************************************************************)
EXTENDS Integers

CONSTANT Classes    \* the capacities BuffersStorage keeps free lists for

\* Every non-empty set of classes has a least one: the if-chain of
\* getFreeBuffer tries the classes in increasing order.
ASSUME ClassesAssumption ==
    /\ Classes \subseteq Nat
    /\ \A C \in SUBSET Classes :
          C # {} => \E c \in C : \A d \in C : c <= d

Stale == -1

\* A buffer whose positions are in order; what every operation keeps.
WellFormed(b) ==
    /\ b.pos \in Nat /\ b.lim \in Nat /\ b.cap \in Nat /\ b.freed \in BOOLEAN
    /\ b.pos <= b.lim /\ b.lim <= b.cap
    /\ b.bytes \in [0 .. b.cap - 1 -> Int]

\* The bytes first .. first+n-1 of a stream, as a buffer around them.
Slice(first, n) ==
    [bytes |-> [i \in 0 .. n - 1 |-> first + i],
     pos |-> 0, lim |-> n, cap |-> n, freed |-> FALSE]

NoBuffer == Slice(0, 0)

-----------------------------------------------------------------------------
Remaining(b) == b.lim - b.pos

HasRemaining(b) == b.pos < b.lim

\* b with its position at p and its limit at l.
Moved(b, p, l) ==
    [bytes |-> b.bytes, pos |-> p, lim |-> l, cap |-> b.cap, freed |-> b.freed]

\* position(p): ignored beyond the limit.
Position(b, p) == IF p > b.lim THEN b ELSE Moved(b, p, b.lim)

\* limit(l): ignored beyond the capacity; pulls the position back.
Limit(b, l) ==
    IF l > b.cap THEN b ELSE Moved(b, IF b.pos > l THEN l ELSE b.pos, l)

Rewind(b) == Moved(b, 0, b.lim)

\* compact(): what remains moves to the front; an exhausted buffer is left
\* alone.
Compact(b) ==
    IF b.pos = b.lim THEN b
    ELSE [bytes |-> [i \in 0 .. b.cap - 1 |->
                        IF i < Remaining(b) THEN b.bytes[b.pos + i] ELSE b.bytes[i]],
          pos |-> Remaining(b), lim |-> b.cap, cap |-> b.cap, freed |-> b.freed]

\* dst->writeBytes(src): refused, with only a log line, when src does not fit
\* below dst's limit.  WriteBytes is what becomes of dst, Drain of src.
Fits(dst, src) == dst.pos + Remaining(src) <= dst.lim

WriteBytes(dst, src) ==
    IF ~ Fits(dst, src) THEN dst
    ELSE [bytes |-> [i \in 0 .. dst.cap - 1 |->
                        IF dst.pos <= i /\ i < dst.pos + Remaining(src)
                        THEN src.bytes[src.pos + (i - dst.pos)]
                        ELSE dst.bytes[i]],
          pos |-> dst.pos + Remaining(src),
          lim |-> dst.lim, cap |-> dst.cap, freed |-> dst.freed]

Drain_Forgotten(dst, src) == src
Drain(dst, src) == IF Fits(dst, src) THEN Moved(src, src.lim, src.lim) ELSE src

-----------------------------------------------------------------------------
\* The least class that holds size bytes; a larger buffer is made to measure.
CapacityFor(size) ==
    LET fit == {c \in Classes : size <= c}
    IN  IF fit = {} THEN size
        ELSE CHOOSE c \in fit : \A d \in fit : c <= d

GetFreeBuffer(size) ==
    [bytes |-> [i \in 0 .. CapacityFor(size) - 1 |-> Stale],
     pos |-> 0, lim |-> size, cap |-> CapacityFor(size), freed |-> FALSE]

\* reuse(): back to the free list of its class, or deleted when it has none.
Reuse(b) ==
    [bytes |-> b.bytes, pos |-> b.pos, lim |-> b.lim, cap |-> b.cap,
     freed |-> b.cap \notin Classes]
=============================================================================

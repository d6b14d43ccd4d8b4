----------------------------- MODULE ReplayRing -----------------------------
(***************************************************************************)
(* The replay ring of a push transfer (src/stream.rs, struct ReplayRing):  *)
(* the most recently emitted bodies of the active file, oldest first,      *)
(* bounded in wire bytes.  A ring is the sequence of its chunks; the body  *)
(* of a chunk is abstracted to its wire length, which exceeds the logical  *)
(* length data_len by the envelope overhead of the encoding.  bytes_held,  *)
(* which the code caches, is WireBytes of the sequence.                    *)
(***************************************************************************)
EXTENDS Integers, Sequences, FiniteSets

CONSTANTS RingCapacity,   \* capacity_bytes, in wire bytes
          Overhead        \* envelope bytes an encoded body adds to data_len

ASSUME RingAssumption == RingCapacity \in Nat /\ Overhead \in Nat

RingChunk == [offset : Nat, data_len : Nat]

EndOf(c) == c.offset + c.data_len

WireBytes(ring) ==
    LET held[i \in 0..Len(ring)] ==
            IF i = 0 THEN 0 ELSE held[i - 1] + ring[i].data_len + Overhead
    IN  held[Len(ring)]

Newest(ring) == ring[Len(ring)]

\* None of the code is the empty ring here; an empty ring belongs to a file
\* that has emitted nothing, whose next chunk starts at offset 0.
highest_end_offset(ring) == IF ring = <<>> THEN 0 ELSE EndOf(Newest(ring))

\* Mutant: a ring that is just full evicts, too.
Evicted_Full(ring) ==
    Cardinality({i \in 1..(Len(ring) - 1) :
                    WireBytes(SubSeq(ring, i, Len(ring))) >= RingCapacity})

(***************************************************************************)
(* How many chunks the eviction loop pops: chunk i goes when it and its    *)
(* successors together exceed the capacity, and the newest never goes.     *)
(***************************************************************************)
Evicted(ring) ==
    Cardinality({i \in 1..(Len(ring) - 1) :
                    WireBytes(SubSeq(ring, i, Len(ring))) > RingCapacity})

push(ring, chunk) ==
    LET grown == Append(ring, chunk)
    IN  SubSeq(grown, Evicted(grown) + 1, Len(grown))

covers(ring, offset) ==
    \/ \E i \in DOMAIN ring : ring[i].offset = offset
    \/ highest_end_offset(ring) = offset

\* The chunks at or after offset; offsets ascend along a ring, so the filter
\* of the code keeps a suffix.
replay_from(ring, offset) ==
    LET older == Cardinality({i \in DOMAIN ring : ring[i].offset < offset})
    IN  SubSeq(ring, older + 1, Len(ring))
=============================================================================

--------------------------- MODULE OrderedStream ----------------------------
(***************************************************************************)
(* What a receiver of numbered chunks promises its reader: chunks are      *)
(* handed out in the order of their numbers, each of them once and as soon *)
(* as every earlier one is there, and none after the last one announced.   *)
(***************************************************************************)
EXTENDS Naturals

CONSTANTS
    ChunkNo,    \* the numbers a sender may give to a chunk
    Unbounded   \* stands for the last chunk until one is announced

VARIABLES
    have,   \* the chunks accepted so far
    out,    \* how many chunks were handed out: they are 0..out-1
    last    \* the number of the last chunk, as far as it is known

osVars == <<have, out, last>>

\* The chunks 0..n-1 are there and may be handed out; chunk n is not or may not.
Ready(n, h, l) ==
    /\ \A i \in ChunkNo : i < n => i \in h /\ i <= l
    /\ n \notin h \/ n > l

OSInit ==
    /\ have = {}
    /\ out = 0
    /\ last = Unbounded

Accept(n) ==
    /\ n <= last
    /\ have' = have \cup {n}
    /\ out' >= out
    /\ Ready(out', have', last)
    /\ UNCHANGED last

\* The end is announced once, while chunks up to it may still be missing.
Announce(n) ==
    /\ last = Unbounded
    /\ n >= out
    /\ last' = n
    /\ UNCHANGED <<have, out>>

OSNext == \E n \in ChunkNo : Accept(n) \/ Announce(n)

OSSpec == OSInit /\ [][OSNext]_osVars
=============================================================================

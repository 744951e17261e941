----------------------------- MODULE MCStreams ------------------------------
(***************************************************************************)
(* An exec and a port-forward whose pipes hold one chunk.  The exec gets   *)
(* two chunks and the end of its input, the port-forward two chunks, in    *)
(* any order.                                                              *)
(***************************************************************************)
EXTENDS Streams

CONSTANTS s1, s2

MCOp == {s1, s2}
MCForward == {s2}

Chunk(o, n) == [sid |-> o, seq |-> n, kind |-> "data"]
InputEnd(o, n) == [sid |-> o, seq |-> n, kind |-> "close"]

MCInput ==
    {Chunk(s1, 0), Chunk(s1, 1), InputEnd(s1, 1), Chunk(s2, 0), Chunk(s2, 1)}
=============================================================================

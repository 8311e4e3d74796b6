------------------------------- MODULE MCWsConn -------------------------------
EXTENDS WsConn

Frame(op, fin, len) == [op |-> op, fin |-> fin, len |-> len]

\* Unsorted, with a duplicate and a size that is dropped; 9 is more than MaxAlloc.
SmallBuckets == <<4, 1, 0, 2, 9, 2>>

\* Messages whole and in fragments, an empty one, a frame longer than MaxPayload, and the
\* control frames.
SomeFrames ==
    {Frame("text", TRUE, 0), Frame("text", FALSE, 1), Frame("text", TRUE, 3),
     Frame("cont", TRUE, 1), Frame("cont", FALSE, 2), Frame("binary", TRUE, 5),
     Frame("ping", TRUE, 1), Frame("pong", TRUE, 0), Frame("close", TRUE, 1)}
=============================================================================

----------------------------- MODULE MCTpdRing -----------------------------
\* Constants of TpdRing for TLC.
EXTENDS TpdRing, TLC

CONSTANTS s1, s2, s3, s4

Packet(frags, gso, split, oddcsum) ==
    [frags |-> frags, gso |-> gso, split |-> split, oddcsum |-> oddcsum]

\* IPv6 TSO with its payload behind the headers (three descriptors), a plain
\* packet with a fragment (two), one whose checksum starts at an odd offset, and
\* the smallest one.
AllShapes ==
    s1 :> Packet(0, "tcp6", TRUE, FALSE) @@
    s2 :> Packet(1, "none", FALSE, FALSE) @@
    s3 :> Packet(0, "none", FALSE, TRUE) @@
    s4 :> Packet(0, "none", FALSE, FALSE)

MCShape == [s \in Skbs |-> AllShapes[s]]
=============================================================================

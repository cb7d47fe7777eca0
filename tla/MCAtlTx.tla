------------------------------ MODULE MCAtlTx ------------------------------
\* Constants of AtlTx for TLC.
EXTENDS AtlTx, TLC

CONSTANTS s1, s2, s3

Packet(frags) == [frags |-> frags, gso |-> "none", split |-> FALSE, oddcsum |-> FALSE]

\* A packet of two descriptors, which fills a ring of three, and two of one.
AllShapes == s1 :> Packet(1) @@ s2 :> Packet(0) @@ s3 :> Packet(0)

MCShape == [s \in Skbs |-> AllShapes[s]]
=============================================================================

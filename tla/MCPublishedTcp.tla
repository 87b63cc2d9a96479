--------------------------- MODULE MCPublishedTcp ---------------------------
(* PublishedTcp with more connections than source ports and a channel of   *)
(* one place, so that the channel and the range fill up and ports wrap.    *)
EXTENDS PublishedTcp, TLC

CONSTANTS c1, c2, c3

ThreeConns == {c1, c2, c3}
Interchangeable == Permutations(ThreeConns)
=============================================================================

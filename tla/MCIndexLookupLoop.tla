-------------------------- MODULE MCIndexLookupLoop --------------------------
(* A store over heights 0..5 with bundles of 2 and 4 blocks for TLC.       *)
EXTENDS IndexLookupLoop

\* Files [0,2), [2,4), [4,6) and [0,4): chains of jumps through both sizes.
MCFileSizes == {2, 4}
\* Both orders, one size, none, and a zero before and after a valid size.
MCLoopSizeLists == {<<4, 2>>, <<2, 4>>, <<2>>, <<>>, <<2, 0>>, <<0, 4>>}
=============================================================================

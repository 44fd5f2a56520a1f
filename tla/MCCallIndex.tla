----------------------------- MODULE MCCallIndex -----------------------------
(* Small instances of the generate-callto-index tool for TLC.              *)
EXTENDS CallIndex

\* Index bundles of 2 and 4 blocks over heights 0..3: files [0,2), [2,4) and
\* [0,4), so a store can hold a gap, a bundle of either size, or both.
MCFileSizes == {2, 4}
\* Lookup orders as the flags give them: large bundles first (the default
\* order), small first, a zero size after a valid one, and a negative size.
MCSizeLists == {<<4, 2>>, <<2, 4>>, <<2, 0>>, <<-1>>}
MCStartArgs == {1, 2, BadArg}
MCStopArgs == {3, BadArg}
=============================================================================

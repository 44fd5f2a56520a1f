----------------------------- MODULE IndexLookup -----------------------------
(***************************************************************************)
(* The index lookup of bstransform that the generate-callto-index tool     *)
(* calls, FindNextUnindexed, stated by what it returns. A store of index   *)
(* files holds bundles of FileSizes blocks, each aligned on its size; the  *)
(* lookup takes a list of bundle sizes and a start height.                 *)
(*                                                                         *)
(* bstransform is outside the repository: this is its contract. Its loop   *)
(* is transliterated in IndexLookupLoop and checked by TLC to compute      *)
(* exactly this.                                                           *)
(***************************************************************************)
EXTENDS Integers, Sequences, FiniteSetsExt, Functions

CONSTANTS
    MaxBlock,     \* bound: highest height the stream can deliver
    FileSizes     \* bundle sizes of the index files that may exist in a store

ASSUME IndexLookupAssumption ==
    /\ MaxBlock \in Nat
    /\ FileSizes \subseteq Nat \ {0}

\* An index file names its first block and its bundle size; it is written
\* once the whole bundle is indexed, so it ends at a height the stream
\* delivers.
IndexFiles ==
    {f \in [base : 0..MaxBlock, size : FileSizes] :
        f.base % f.size = 0 /\ f.base + f.size <= MaxBlock + 1}

\* lowBoundary(i, mod) = i - i % mod; a zero mod panics (integer divide by
\* zero), modelled by the caller.
LowBoundary(i, mod) == i - (i % mod)

\* The index file of bundle size s that would hold height h.
FileAt(h, s) == [base |-> LowBoundary(h, s), size |-> s]

\* Height h is in an index file, of a nonzero size of the list, in files.
Indexed(h, sizes, files) ==
    \E i \in 1..Len(sizes) : sizes[i] # 0 /\ FileAt(h, sizes[i]) \in files

\* FindNextUnindexed(cur, sizes): the first height from cur that no index
\* file of the listed sizes holds (cur + MaxBlock + 1 is past every file).
\* A size of 0 panics: the loop reaches lowBoundary(i, 0) at the latest at
\* that first unindexed height, where every nonzero size misses.
FindNextUnindexed(cur, sizes, files) ==
    [panic |-> 0 \in Range(sizes),
     next  |-> Min({h \in cur..(cur + MaxBlock + 1) : ~Indexed(h, sizes, files)})]

=============================================================================

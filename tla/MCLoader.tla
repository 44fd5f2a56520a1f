------------------------------ MODULE MCLoader ------------------------------
(* Small instances of the live-mode loader for TLC.                        *)
EXTENDS Loader

\* Heights 0..5 with genesis 0; blocks 3 and up are at or past the stop block.
MCMaxBlock == 5
MCForkAt == {2}
=============================================================================

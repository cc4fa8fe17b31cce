--------------------------- MODULE MCAutoBlocker ----------------------------
(* Instances of AutoBlocker for TLC.                                         *)
EXTENDS AutoBlocker, TLC

CONSTANTS s1, s2

Symmetry == Permutations(Sources)   \* sources differ only in what they do

Remembered == \A ip \in Sources : Len(seen[ip]) <= MaxHistory

ShortBlocks == <<1, 2>>
LongBlocks  == <<1, 4>>
=============================================================================

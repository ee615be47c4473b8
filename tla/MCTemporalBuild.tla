----------------------------- MODULE MCTemporalBuild -----------------------------
EXTENDS TemporalBuild
\* Two releases with other packing limits.
OtherPacking == [c \in {1, 2} |-> IF c = 1 THEN <<{1}, {2}, {3}>> ELSE <<{1, 2}, {3}>>]
================================================================================

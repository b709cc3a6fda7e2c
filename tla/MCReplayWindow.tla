--------------------------- MODULE MCReplayWindow ---------------------------
EXTENDS ReplayWindow, TLC

\* Every valid number and the two just outside the range.
MCArguments == -1 .. (MAX_MESSAGE_SEQUENCE + 1)

MCSymmetry == Permutations(Threads)
=============================================================================

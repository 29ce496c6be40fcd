-------------------------------- MODULE MCWalk --------------------------------
\* One lane over one page, with one worker.
EXTENDS Walk
CONSTANTS p1, w1

\* Two rows, and one in a subpage.
MCSpan == [l \in 0..1 |-> 2 - l]
=============================================================================

----------------------------- MODULE MCRunLoop -----------------------------
EXTENDS RunLoop

CONSTANTS t1, t2

\* 15 percent of 42 leave exactly the room StashFits asks for; the others
\* switch the memory test off.
MCMemPercents == {-10, 15}
=============================================================================

----------------------------- MODULE MCOsdCmpr -----------------------------
\* Five pixels of four colours, two of which are in the cache at the start
\* and two of which become one of these when truncated; runs of at most two
\* pixels; no cache, and caches of two and of four colours.
EXTENDS OsdCmpr

MCColors == {Gray(0), [a |-> 0, c |-> 3], Gray(128), [a |-> 128, c |-> 129]}
=============================================================================

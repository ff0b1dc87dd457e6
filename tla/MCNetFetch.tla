----------------------------- MODULE MCNetFetch -----------------------------
EXTENDS NetFetchQueue

CONSTANTS b1, b2, b3, b4

\* Chunks of a typical curl write (under the 4096 floor) and one above it.
MCSizes == {1000, 5000}
=============================================================================

------------------------- MODULE MCVolumeService ----------------------------
EXTENDS OHVolumeService

CONSTANTS c1, c2

\* SetVolume arguments: below, inside and above the range.
MCInputs == {-5, 42, 101}

\* A helper that prints the level it was given.
MCHelperSame(x) == x
=============================================================================

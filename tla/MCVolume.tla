------------------------------ MODULE MCVolume ------------------------------
EXTENDS MPDCliVolume

\* SetVolume arguments: below, inside and above the range.
MCInputs == {-5, 42, 101}

\* A helper that prints the level it was given.
MCHelperSame(x) == x

\* A helper that prints the raw ALSA mixer value (0..255) of the level,
\* which is what `amixer` reports unless it is asked for percentages.
MCHelperRaw(x) == (x * 255) \div 100
=============================================================================

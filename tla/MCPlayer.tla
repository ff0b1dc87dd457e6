------------------------------ MODULE MCPlayer ------------------------------
EXTENDS MPDCliPlayer

CONSTANTS s1, s2

\* Two songs in MPD's queue.
MCQueue == <<s1, s2>>

\* Two of the four flags restoreState() sets, in its order.
MCFlags == <<"repeat", "random">>
=============================================================================

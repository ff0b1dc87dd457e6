----------------------------- MODULE MCReceiver -----------------------------
(* OHReceiver with two sender URIs, one good and one unparsable metadata. *)
EXTENDS OHReceiver

CONSTANTS u1, m1, mBad

MCUris == {u1}
MCMetas == {m1, mBad}
=============================================================================

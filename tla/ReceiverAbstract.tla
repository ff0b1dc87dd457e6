-------------------------- MODULE ReceiverAbstract --------------------------
(***************************************************************************)
(* What the OpenHome Receiver service promises a control point: it reports *)
(* TransportState Playing or Stopped; it can only start playing for a      *)
(* sender it has been given (Uri and Metadata set); Stop, leaving the      *)
(* Receiver source, or the session ending on its own make it Stopped; and  *)
(* changing the sender stops what was playing.                             *)
(***************************************************************************)
CONSTANTS Uris, Metas

VARIABLES uri, meta, transport

Empty == ""

avars == <<uri, meta, transport>>

AInit ==
  /\ uri \in Uris \cup {Empty}
  /\ meta \in Metas \cup {Empty}
  /\ transport = "Stopped"

\* Play with a sender: playing, or still (or again) stopped if it failed.
Start ==
  /\ uri # Empty
  /\ meta # Empty
  /\ transport' \in {"Playing", "Stopped"}
  /\ UNCHANGED <<uri, meta>>

\* Stop, source change, or the session ended.
Halt ==
  /\ transport' = "Stopped"
  /\ UNCHANGED <<uri, meta>>

\* A new sender: whatever played is stopped.
Retarget ==
  \E u \in Uris \cup {Empty}, m \in Metas \cup {Empty} :
    /\ u # uri \/ m # meta
    /\ uri' = u
    /\ meta' = m
    /\ transport' = "Stopped"

ANext == Start \/ Halt \/ Retarget

ASpec == AInit /\ [][ANext]_avars
=============================================================================

---------------------------- MODULE MPDCliVolume ----------------------------
(***************************************************************************)
(* Volume and mute (src/src/mpdcli.cxx, src/src/ohvolume.cxx): the        *)
(* OpenHome Volume actions SetVolume, VolumeInc, VolumeDec and SetMute go  *)
(* through MPDCli::setVolume(), which emulates mute by remembering the     *)
(* pre-mute volume, and the event loop's updStatus() arbitrates between    *)
(* MPD's mixer, an external volume helper and the cached value.            *)
(*                                                                         *)
(* Every action and status refresh runs to completion on the event loop,   *)
(* so each is one step.  Between them another MPD client may change MPD's  *)
(* volume.  MPD refuses set_volume while it has no mixer; that error     *)
(* stays on the connection (MpdConn's "err") until updStatus() reopens it. *)
(* A connection may also break while MPD cannot be reached, so the reopen  *)
(* fails and m_conn is null.  Setting a volume is idempotent, so a resent  *)
(* command changes nothing more.                                           *)
(***************************************************************************)
EXTENDS Integers, MpdConn

CONSTANTS
  Inputs,        \* Value arguments a control point sends to SetVolume
  Levels,        \* volumes another MPD client may set
  External,      \* m_externalvolumecontrol with a getexternalvolume helper
  HelperOut(_),  \* what the helper prints (atoi'd) for the mixer's level
  MpdFails,      \* MPD may be unreachable when a volume command is sent
  SetVolumeCalls,\* SetVolume, VolumeInc and VolumeDec are sent
  MaxCalls       \* bound: actions received

VARIABLES
  conn,       \* m_conn (MpdConn!ConnStates, "dead" apart)
  mpdVol,     \* MPD's mixer volume; -1 while MPD has no usable mixer
              \* (its output closed), when it also refuses set_volume
  extVol,     \* the external mixer, set by the onvolumechange helper
  statVol,    \* m_stat.volume
  cachedVol,  \* m_cachedvolume
  premute,    \* m_premutevolume
  calls,
  heard,      \* history: the volume published when the last mute was asked
  lastOp      \* history: "mute", "unmute" or "other": the last action

vars == <<conn, mpdVol, extVol, statVol, cachedVol, premute, calls, heard, lastOp>>

Clamp(v) == IF v < 0 THEN 0 ELSE IF v > 100 THEN 100 ELSE v

-----------------------------------------------------------------------------
(* MPDCli.                                                                 *)

\* MPDCli::getVolume(), lines 558-562.
GetVolume == IF statVol >= 0 THEN statVol ELSE cachedVol

\* Variant of the arbitration that takes an unknown volume as it is.
ArbitrateNoSubst(read) == [stat |-> read, cached |-> read]

\* updStatus(), lines 204-220: the helper's answer, when there is one,
\* wins over MPD's; a known volume is cached, an unknown one (-1) replaced
\* by the cache.
Arbitrate(read) ==
  IF read >= 0 THEN [stat |-> read, cached |-> read]
               ELSE [stat |-> cachedVol, cached |-> cachedVol]

\* The volume updStatus() reads.
ReadVolume == IF External THEN HelperOut(extVol) ELSE mpdVol

\* The mute emulation of setVolume(), lines 503-530: the volume to set and
\* the new m_premutevolume, or "done" when a mute finds one remembered.
MuteStep(volume, isMute) ==
  CASE ~isMute -> [done |-> FALSE, vol |-> volume, pre |-> premute]
    [] volume # 0 ->                               \* unmute
         [done |-> FALSE, vol |-> IF premute # 0 THEN premute ELSE volume,
          pre |-> 0]
    [] premute > 0 -> [done |-> TRUE, vol |-> volume, pre |-> premute]
    [] OTHER ->                                    \* mute
         [done |-> FALSE, vol |-> volume,
          pre |-> IF cachedVol > 0 THEN cachedVol ELSE 1]

\* Variant of the clamp of lines 532-535 that lets values above 100 pass.
ClampLow(v) == IF v < 0 THEN 0 ELSE v

\* The clamp of lines 532-535.
SetClamp(v) == Clamp(v)

\* MPDCli::setVolume(volume, isMute), lines 491-556.  The unmute branch
\* also stores the restored value in m_stat.volume before the command.
\* RETRY_CMD (lines 157-167) returns false at once on a null m_conn, and
\* after one try on one in error; a refused command leaves it in error; a
\* break whose reopen fails leaves it null.
SetVolume(volume, isMute) ==
  LET s == MuteStep(volume, isMute)
      v == SetClamp(s.vol)
      restored == isMute /\ volume # 0 /\ premute # 0
  IN /\ premute' = s.pre
     /\ IF s.done
          THEN UNCHANGED <<conn, mpdVol, extVol, statVol, cachedVol>>
        ELSE IF External
          THEN \* no MPD command; the onvolumechange helper gets v
               /\ extVol' = v
               /\ statVol' = v
               /\ cachedVol' = v
               /\ UNCHANGED <<conn, mpdVol>>
        ELSE \/ /\ conn = "live" /\ mpdVol # -1
                /\ mpdVol' = v
                /\ statVol' = v
                /\ cachedVol' = v
                /\ UNCHANGED <<conn, extVol>>
             \/ \* RETRY_CMD returned false
                /\ conn # "live" \/ mpdVol = -1 \/ MpdFails
                /\ conn' = CASE conn # "live" -> conn
                              [] mpdVol = -1   -> "err"
                              [] OTHER         -> "null"
                /\ statVol' = IF restored THEN premute ELSE statVol
                /\ UNCHANGED <<mpdVol, extVol, cachedVol>>

\* The event loop's status refresh, updStatus() (lines 182-220): a null
\* m_conn is reopened and read; one in error fails mpd_run_status, is
\* reopened, and this round reads nothing.
Poll ==
  \E o \in UpdStatusOutcomes(conn, TRUE) :
    /\ conn' = o.conn
    /\ IF o.ok THEN LET a == Arbitrate(ReadVolume) IN
                      statVol' = a.stat /\ cachedVol' = a.cached
               ELSE UNCHANGED <<statVol, cachedVol>>
    /\ UNCHANGED <<mpdVol, extVol, premute, calls, heard, lastOp>>

-----------------------------------------------------------------------------
(* OHVolume actions (src/src/ohvolume.cxx) and the device's setvolume()   *)
(* and setmute(), which call MPDCli::setVolume(v, false) and               *)
(* setVolume(mute ? 0 : 1, true).                                          *)

Action(op) ==
  /\ calls < MaxCalls
  /\ calls' = calls + 1
  /\ lastOp' = op

\* OHVolume::setVolume(), src/src/ohvolume.cxx lines 116-126.
OHSetVolume ==
  /\ SetVolumeCalls
  /\ \E v \in Inputs : SetVolume(v, FALSE)
  /\ Action("other")
  /\ UNCHANGED heard

\* OHVolume::volumeInc() and volumeDec(), lines 140-160.
VolumeInc ==
  /\ SetVolumeCalls
  /\ SetVolume(IF GetVolume + 1 > 100 THEN 100 ELSE GetVolume + 1, FALSE)
  /\ Action("other")
  /\ UNCHANGED heard

VolumeDec ==
  /\ SetVolumeCalls
  /\ SetVolume(IF GetVolume - 1 < 0 THEN 0 ELSE GetVolume - 1, FALSE)
  /\ Action("other")
  /\ UNCHANGED heard

\* OHVolume::setMute(), lines 128-138.
SetMute ==
  \/ /\ SetVolume(0, TRUE)
     /\ Action("mute")
     /\ heard' = GetVolume
  \/ /\ SetVolume(1, TRUE)
     /\ Action("unmute")
     /\ UNCHANGED heard

\* Another MPD client sets the volume, or MPD's output opens again.
OtherClient ==
  /\ \E v \in Levels : mpdVol' = v
  /\ lastOp' = "other"
  /\ UNCHANGED <<conn, extVol, statVol, cachedVol, premute, calls, heard>>

\* MPD closes its output and its mixer with it: the volume is unknown.
MixerLost ==
  /\ mpdVol # -1
  /\ mpdVol' = -1
  /\ UNCHANGED <<conn, extVol, statVol, cachedVol, premute, calls, heard, lastOp>>

-----------------------------------------------------------------------------
\* The constructor's updStatus(), line 66, with m_cachedvolume at its
\* initial 50 and no mute remembered.
Init ==
  /\ conn = "live"
  /\ mpdVol \in Levels \cup {-1}
  /\ extVol \in Levels
  /\ LET a == [stat |-> IF ReadVolume >= 0 THEN ReadVolume ELSE 50,
               cached |-> IF ReadVolume >= 0 THEN ReadVolume ELSE 50]
     IN /\ statVol = a.stat
        /\ cachedVol = a.cached
  /\ premute = 0
  /\ calls = 0
  /\ heard = -1
  /\ lastOp = "other"

Next ==
  \/ OHSetVolume \/ VolumeInc \/ VolumeDec \/ SetMute
  \/ Poll \/ OtherClient \/ MixerLost

Spec == Init /\ [][Next]_vars

-----------------------------------------------------------------------------
TypeOK ==
  /\ conn \in {"live", "err", "null"}
  /\ mpdVol \in -1..100
  /\ statVol \in Int
  /\ cachedVol \in Int
  /\ premute \in 0..100
  /\ calls \in 0..MaxCalls
  /\ lastOp \in {"mute", "unmute", "other"}

(* The Volume OHVolume publishes (makestate, lines 85-102, from           *)
(* getvolume()) is always a level in 0..100: setVolume() clamps what a     *)
(* control point sends, and updStatus() replaces MPD's "unknown" (-1) by   *)
(* the cached volume, so Volume never goes blank or out of range.          *)
PublishedVolumeInRange ==
  GetVolume \in 0..100

(* Mute then unmute restores exactly the volume that was heard before the *)
(* mute (the spec's mute/unmute round trip), whatever was set before.     *)
MuteRoundTrip ==
  [][ (lastOp = "mute" /\ lastOp' = "unmute" /\ heard \in 1..100)
        => GetVolume' = heard ]_vars
=============================================================================

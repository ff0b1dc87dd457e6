--------------------------- MODULE OHVolumeService ---------------------------
(***************************************************************************)
(* The OpenHome Volume service as its subscribers see it: the volume       *)
(* actions of MPDCliVolume composed with the state-diff eventing of the    *)
(* service.  makestate() computes Volume and Mute from the device's        *)
(* volume (the cached m_stat.volume of MPDCli); getEventData() diffs that  *)
(* map against m_state, the map it published last, stores the new map in  *)
(* m_state and hands the changed names to the device, which sends them to  *)
(* every subscriber.  A new subscription gets getEventData(all = true)'s   *)
(* full map, to it alone.                                                  *)
(*                                                                         *)
(* Two versions of the service are in the repository.  The older one      *)
(* (src/upmpd/ohvolume.cxx) only wakes the event loop after a volume       *)
(* action (loopWakeup()); the current one (src/src/ohvolume.cxx) also      *)
(* sends Volume at once with notifyEvent(), a path that does not go        *)
(* through m_state.  The constant Immediate selects the current one.       *)
(*                                                                         *)
(* Actions, status refreshes and event passes run one at a time on the     *)
(* device's loop; the event pass and the subscription machinery belong to  *)
(* the UPnP device library, which is not in the repository, and are        *)
(* modelled from the spec (section 4.2).                                   *)
(***************************************************************************)
EXTENDS Integers, FiniteSets

CONSTANTS
  Inputs, Levels, External, HelperOut(_), MpdFails, SetVolumeCalls, MaxCalls,
  Subscribers,  \* control points that may subscribe
  Immediate,    \* the current OHVolume: volume actions notifyEvent() at once
  MaxOthers     \* bound: volume changes by another MPD client

VARIABLES
  conn, mpdVol, extVol, statVol, cachedVol, premute, calls, heard, lastOp,
  mstate,  \* m_state
  subs,    \* current subscribers
  view,    \* view[s]: the value of each name as subscriber s last heard it
  others   \* volume changes made by another MPD client so far

volVars == <<conn, mpdVol, extVol, statVol, cachedVol, premute, calls, heard, lastOp>>
evVars == <<mstate, subs, view>>
vars == <<volVars, evVars, others>>

V == INSTANCE MPDCliVolume

\* The device's volume, which makestate() reads: UpMpd::getvolume() for the
\* current OHVolume, UpMpdRenderCtl::getvolume_i() for the older one.
\* Neither class is in the repository; from the spec (section 4.1), both
\* return MPDCli::getVolume(), and their setvolume() and setmute() call
\* MPDCli::setVolume() (MPDCliVolume's actions).
DevVolume == V!GetVolume

Names == {"Volume", "Mute"}
None == -1      \* a name absent from a map
NoMap == [n \in Names |-> None]

\* OHVolume::makestate(), src/src/ohvolume.cxx lines 85-102 (and the older
\* version's lines 68-85): Volume and Mute from the device's volume; the
\* other entries are constants.
MakeState(v) == [n \in Names |-> IF n = "Volume" THEN v
                                 ELSE IF v = 0 THEN 1 ELSE 0]

\* Variant of diffmaps() that reports only names new to the old map.
DiffMapsNewKeys(old, new) == {n \in Names : old[n] = None /\ new[n] # None}

\* diffmaps(): the names whose value in new differs from old.
DiffMaps(old, new) == {n \in Names : old[n] # new[n]}

\* A subscriber's view after an event carrying names d of map st.
Heard(v, st, d) == [n \in Names |-> IF n \in d THEN st[n] ELSE v[n]]

\* OHVolume::getEventData(all, ...), src/upmpd/ohvolume.cxx lines 87-110,
\* with the device sending the result to the subscribers in `to`.
GetEventData(all, to) ==
  LET state == MakeState(DevVolume)
      changed == IF all THEN Names ELSE DiffMaps(mstate, state)
  IN /\ view' = [s \in Subscribers |->
                   IF s \in to THEN Heard(view[s], state, changed) ELSE view[s]]
     /\ mstate' = state

\* What a volume action tells the subscribers itself.  The current
\* OHVolume calls notifyEvent(this, {"Volume"}, {getvolume()}) after
\* setvolume() (src/src/ohvolume.cxx lines 123-124, 146-147, 157-158):
\* Volume alone, to every subscriber, and m_state is not touched.  The
\* older one calls loopWakeup(), and the change goes out on the next pass.
NotifyVolume ==
  view' = IF Immediate
            THEN [s \in Subscribers |->
                    IF s \in subs
                      THEN [view[s] EXCEPT !["Volume"] = DevVolume']
                      ELSE view[s]]
            ELSE view

-----------------------------------------------------------------------------
(* The service's actions.                                                  *)

\* OHVolume::setVolume(), volumeInc(), volumeDec().
SetVolume ==
  /\ V!OHSetVolume
  /\ NotifyVolume
  /\ UNCHANGED <<mstate, subs, others>>

VolumeInc ==
  /\ V!VolumeInc
  /\ NotifyVolume
  /\ UNCHANGED <<mstate, subs, others>>

VolumeDec ==
  /\ V!VolumeDec
  /\ NotifyVolume
  /\ UNCHANGED <<mstate, subs, others>>

\* OHVolume::setMute(): in both versions nothing is sent by the action.
SetMute ==
  /\ V!SetMute
  /\ UNCHANGED <<evVars, others>>

\* The event loop's status refresh (MPDCli::updStatus()).
Poll ==
  /\ V!Poll
  /\ UNCHANGED <<evVars, others>>

\* Another MPD client sets the volume; MPD closes its mixer.
OtherClient ==
  /\ others < MaxOthers
  /\ V!OtherClient
  /\ others' = others + 1
  /\ UNCHANGED evVars

MixerLost ==
  /\ V!MixerLost
  /\ UNCHANGED <<evVars, others>>

\* The device's event pass (woken by loopWakeup() or by MPD's mixer event):
\* getEventData(false) and the changed names to every subscriber.
EventPass ==
  /\ GetEventData(FALSE, subs)
  /\ UNCHANGED <<volVars, subs, others>>

\* A control point subscribes: the initial event, all variables, to it.
Subscribe ==
  /\ \E s \in Subscribers \ subs :
       /\ subs' = subs \cup {s}
       /\ GetEventData(TRUE, {s})
  /\ UNCHANGED <<volVars, others>>

\* A subscription lapses (it was not renewed, or the control point left).
Unsubscribe ==
  /\ \E s \in subs : subs' = subs \ {s}
  /\ UNCHANGED <<volVars, mstate, view, others>>

Init ==
  /\ V!Init
  /\ mstate = NoMap
  /\ subs = {}
  /\ view = [s \in Subscribers |-> NoMap]
  /\ others = 0

Next ==
  \/ SetVolume \/ VolumeInc \/ VolumeDec \/ SetMute
  \/ Poll \/ OtherClient \/ MixerLost
  \/ EventPass \/ Subscribe \/ Unsubscribe

\* The device's loop keeps making event passes, and MPDCli's keeps
\* refreshing the status.
Spec == Init /\ [][Next]_vars /\ WF_vars(EventPass) /\ WF_vars(Poll)

-----------------------------------------------------------------------------
TypeOK ==
  /\ V!TypeOK
  /\ mstate \in [Names -> Int]
  /\ subs \subseteq Subscribers
  /\ view \in [Subscribers -> [Names -> Int]]
  /\ others \in 0..MaxOthers

(* The Volume the service publishes (makestate, from getvolume()) is       *)
(* always a level in 0..100: setVolume() clamps what a control point       *)
(* sends, and updStatus() replaces MPD's "unknown" (-1) by the cached      *)
(* volume, so Volume never goes blank or out of range.                     *)
PublishedVolumeInRange == V!PublishedVolumeInRange

(* Once the control points and the other MPD client stop, every            *)
(* subscriber's picture of Volume and Mute settles on what makestate()     *)
(* computes from the device's volume: no change is lost between the        *)
(* action's own event, m_state and the diff of the next pass.              *)
ViewsConverge ==
  <>[](\A s \in subs : view[s] = MakeState(DevVolume))
=============================================================================

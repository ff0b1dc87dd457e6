---------------------------- MODULE MPDCliPlayer ----------------------------
(***************************************************************************)
(* MPDCli's transport side (src/src/mpdcli.cxx): the play state that       *)
(* updStatus() reads and the onplay/onpause/onstop commands it runs on a   *)
(* change, the transport commands (play, stop, pause, togglePause, seek,   *)
(* next, previous, the repeat/random/single/consume flags), and            *)
(* saveState()/restoreState(), which rebuild MPD's queue, flags and play    *)
(* state from a snapshot.                                                  *)
(*                                                                         *)
(* The worker runs one MPDCli call at a time.  A call that is a single     *)
(* RETRY_CMD (followed by updStatus() where the code does so) is one step; *)
(* restoreState() is a program counter with one step per MPDCli call it    *)
(* makes, so the environment (a dropped connection, MPD restarting,        *)
(* another MPD client) can act between them.  Songs are model values;     *)
(* elapsed time is in whole seconds and does not advance by itself; the    *)
(* volume is MPDCliVolume's and only the connection it uses is kept here.  *)
(***************************************************************************)
EXTENDS Integers, Sequences, SequencesExt, MpdConn

CONSTANTS
  InitQueue,    \* MPD's queue, a sequence of distinct songs
  FlagList,     \* the flags restoreState() sets, in its order
  Secs,         \* elapsed times MPD may be at, in seconds (0 included)
  SeekArgs,     \* saveState()'s seekms argument (0: keep MPD's), as seconds
  ExtVolume,    \* m_externalvolumecontrol
  MaxCalls,     \* bound: calls the worker makes
  MaxDrops,     \* bound: broken connections and MPD restarts
  MaxEnv,       \* bound: changes another MPD client makes
  StartUp,      \* whether MPD may be up, or down, when MPDCli is built
  LocalSongs,   \* the songs of InitQueue that are local files, not URLs
  Mixer         \* MPD has a mixer, so it accepts set_volume

PlayStates == {"stop", "play", "pause"}
FlagNames == Range(FlagList)

VARIABLES
  mpd,      \* MPD: [q, st, pos, el, flags]
  srvUp,    \* MPD accepts connections
  conn,     \* m_conn (MpdConn!ConnStates)
  stat,     \* m_stat: [state, pos, el, flags]; state "unk" before a read
  amp,      \* history: the onplay/onpause/onstop commands run so far, read
            \* as the power of an amplifier they drive: on after onplay
  pc,       \* the worker: "idle", a step of restoreState, or "crashed"
  ri,       \* restoreState: the index of the next song or flag
  saved,    \* the MpdState of the last successful saveState, or NoSave
  res,      \* what the last saveState returned ("saved", "unsaved") or the
            \* last restoreState ("true", "false"); "none" after other calls
  touched,  \* history: another client, a drop or a restart since saveState
  configured, \* the constructor read the configuration (hooks, external
              \* volume control): only when its openconn() succeeded
  orig,     \* history: MPD's queue when the last saveState() succeeded
  calls, drops, env

vars == <<mpd, srvUp, conn, stat, amp, pc, ri, saved, res, touched,
          configured, orig, calls, drops, env>>

NoSave == [q |-> <<>>, st |-> "none", pos |-> -1, el |-> 0, flags |-> {}]

-----------------------------------------------------------------------------
(* MPD's side of the commands: the new state, and whether MPD accepts it.  *)

Cmd(ok, m) == [valid |-> ok, eff |-> m]

MpdPlayPos(m, pos) ==
  Cmd(pos \in 0..Len(m.q) - 1, [m EXCEPT !.st = "play", !.pos = pos, !.el = 0])

\* mpd_run_play: resume, or start the current song, or the first one.
MpdPlay(m) ==
  Cmd(TRUE, CASE m.st = "pause" -> [m EXCEPT !.st = "play"]
              [] m.st = "play"  -> m
              [] m.pos >= 0     -> [m EXCEPT !.st = "play", !.el = 0]
              [] m.q # <<>>     -> [m EXCEPT !.st = "play", !.pos = 0, !.el = 0]
              [] OTHER          -> m)

MpdStop(m) == Cmd(TRUE, [m EXCEPT !.st = "stop", !.el = 0])

MpdPause(m, on) ==
  Cmd(TRUE, IF m.st = "stop" THEN m
            ELSE [m EXCEPT !.st = IF on THEN "pause" ELSE "play"])

MpdToggle(m) == MpdPause(m, m.st = "play")

\* Variant of next that runs past the end of the queue.
MpdNextNoWrap(m) ==
  Cmd(TRUE, IF m.st = "stop" THEN m ELSE [m EXCEPT !.pos = @ + 1, !.el = 0])

\* next: the following song, or stop after the last one.
MpdNext(m) ==
  Cmd(TRUE, CASE m.st = "stop"          -> m
              [] m.pos + 1 < Len(m.q)   -> [m EXCEPT !.pos = @ + 1, !.el = 0]
              [] OTHER -> [m EXCEPT !.st = "stop", !.pos = -1, !.el = 0])

MpdPrevious(m) ==
  Cmd(TRUE, IF m.st = "stop" THEN m
            ELSE [m EXCEPT !.pos = IF @ > 0 THEN @ - 1 ELSE 0, !.el = 0])

\* seek is refused when the song does not exist or MPD is stopped.
MpdSeek(m, pos, s) ==
  Cmd(m.st # "stop" /\ pos \in 0..Len(m.q) - 1,
      [m EXCEPT !.pos = pos, !.el = s])

MpdFlag(m, f, on) ==
  Cmd(TRUE, [m EXCEPT !.flags = IF on THEN @ \cup {f} ELSE @ \ {f}])

\* mpd_run_delete_range [b, e[: a deleted current song is followed by the
\* next one, or MPD stops.
MpdDeleteRange(m, b, e) ==
  LET n == e - b
      q2 == SubSeq(m.q, 1, b) \o SubSeq(m.q, e + 1, Len(m.q))
  IN Cmd(b < e /\ e <= Len(m.q),
         CASE m.pos < b  -> [m EXCEPT !.q = q2]
           [] m.pos >= e -> [m EXCEPT !.q = q2, !.pos = @ - n]
           [] m.st # "stop" /\ b < Len(q2) -> [m EXCEPT !.q = q2, !.pos = b, !.el = 0]
           [] OTHER -> [m EXCEPT !.q = q2, !.st = "stop", !.pos = -1, !.el = 0])

MpdClear(m) == Cmd(TRUE, [m EXCEPT !.q = <<>>, !.st = "stop", !.pos = -1, !.el = 0])

\* mpd_run_add_id_to: the song goes to 0-based position pos.
MpdAdd(m, song, pos) ==
  Cmd(pos <= Len(m.q),
      [m EXCEPT !.q = InsertAt(@, pos + 1, song),
                !.pos = IF @ >= pos THEN @ + 1 ELSE @])

-----------------------------------------------------------------------------
(* MPDCli.                                                                 *)

\* Variant of RETRY_CMD that takes MPD's error answer for success.
RetryIgnoreError(cn, c) ==
  { [mpd  |-> IF p.execs >= 1 THEN c.eff ELSE mpd,
     conn |-> p.conn,
     ok   |-> p.replied]
    : p \in RetryPaths(cn, srvUp, 0) }

\* RETRY_CMD(CMD, false), lines 157-167, around a command c: MPD's state,
\* the connection and the macro's result, for each way through it.  A
\* refused command leaves the connection in error (MpdConn).
Retry(cn, c) ==
  { [mpd  |-> IF p.execs >= 1 /\ c.valid THEN c.eff ELSE mpd,
     conn |-> IF p.execs >= 1 /\ ~c.valid THEN AfterReject(p) ELSE p.conn,
     ok   |-> p.replied /\ c.valid]
    : p \in RetryPaths(cn, srvUp, 0) }

\* Variant of the hooks in which onplay is not run on a resume from pause.
HookNoResume(old, new) ==
  CASE new = "stop" /\ old \in {"play", "pause"} -> "onstop"
    [] new = "play" /\ old \in {"unk", "stop"}    -> "onplay"
    [] new = "pause" /\ old = "play"              -> "onpause"
    [] OTHER                                      -> "none"

\* updStatus(), lines 229-264: the command run when the play state read
\* differs from m_stat.state.
Hook(old, new) ==
  CASE new = "stop" /\ old \in {"play", "pause"}      -> "onstop"
    [] new = "play" /\ old \in {"unk", "stop", "pause"} -> "onplay"
    [] new = "pause" /\ old = "play"                  -> "onpause"
    [] OTHER                                          -> "none"

\* A hook runs only when its command is configured (m_onplay etc. not empty).
AmpAfter(h) == CASE ~configured -> amp
                 [] h = "onplay" -> TRUE
                 [] h \in {"onstop", "onpause"} -> FALSE
                 [] OTHER -> amp

\* m_stat as updStatus() reads it from MPD state m (lines 205-270).
StatusOf(m) == [state |-> m.st, pos |-> m.pos, el |-> m.el, flags |-> m.flags]

\* updStatus(), lines 205-270, having read MPD state m (when ok): m_stat
\* refreshed and the hook run; m_stat is left as it was otherwise.
ReadStatus(ok, m) ==
  IF ok THEN /\ stat' = StatusOf(m)
             /\ amp' = AmpAfter(Hook(stat.state, m.st))
        ELSE UNCHANGED <<stat, amp>>

\* updStatus() as a whole, lines 182-281, for one of its outcomes o
\* (MpdConn); its result is o.ok.  Its statSong() look-ups of the current
\* and the next song (lines 271-278) change no state kept here: past the
\* end of the queue MPD answers with an empty list, and the connection
\* stays as it was.
Refresh(o, m) ==
  /\ conn' = o.conn
  /\ ReadStatus(o.ok, m)

\* A call from the services begins: the worker is idle.
Begin ==
  /\ pc = "idle"
  /\ calls < MaxCalls
  /\ calls' = calls + 1

\* A call that is one RETRY_CMD and nothing else: stop(), pause(),
\* togglePause(), next(), previous(), repeat() etc., lines 564-575 and
\* 606-663 (seek apart).
Simple(c) ==
  /\ Begin
  /\ \E r \in Retry(conn, c) : mpd' = r.mpd /\ conn' = r.conn
  /\ res' = "none"
  /\ UNCHANGED <<srvUp, configured, stat, amp, pc, ri, saved, orig, touched, drops, env>>

Stop == Simple(MpdStop(mpd))
Pause == \E on \in BOOLEAN : Simple(MpdPause(mpd, on))
TogglePause == Simple(MpdToggle(mpd))
Next_ == Simple(MpdNext(mpd))
Previous == Simple(MpdPrevious(mpd))
SetFlag == \E f \in FlagNames, on \in BOOLEAN : Simple(MpdFlag(mpd, f, on))

\* deletePosRange(start, end), lines 783-788.
DeletePosRange ==
  \E b \in 0..Len(mpd.q), e \in 1..Len(mpd.q) + 1 :
    Simple(MpdDeleteRange(mpd, b, e))

\* play(pos), lines 578-592: nothing without a connection; otherwise the
\* command, then updStatus() if it succeeded.
PlayOutcome(c) ==
  IF conn = "null" THEN UNCHANGED <<mpd, conn, stat, amp>>
  ELSE \E r \in Retry(conn, c) :
         /\ mpd' = r.mpd
         /\ IF r.ok
              THEN \E o \in UpdStatusOutcomes(r.conn, srvUp) : Refresh(o, r.mpd)
              ELSE /\ conn' = r.conn
                   /\ UNCHANGED <<stat, amp>>

PlayArg(pos) == IF pos >= 0 THEN MpdPlayPos(mpd, pos) ELSE MpdPlay(mpd)

Play ==
  /\ Begin
  /\ \E pos \in -1..Len(mpd.q) : PlayOutcome(PlayArg(pos))
  /\ res' = "none"
  /\ UNCHANGED <<srvUp, configured, pc, ri, saved, orig, touched, drops, env>>

\* seek(seconds), lines 613-621: updStatus() first, then the command on
\* the position it read.
SeekOutcome(s) ==
  \E o \in UpdStatusOutcomes(conn, srvUp) :
    IF ~o.ok \/ mpd.pos < 0
      THEN /\ Refresh(o, mpd)
           /\ UNCHANGED mpd
      ELSE \E r \in Retry(o.conn, MpdSeek(mpd, mpd.pos, s)) :
             /\ mpd' = r.mpd
             /\ conn' = r.conn
             /\ ReadStatus(TRUE, mpd)

Seek ==
  /\ Begin
  /\ \E s \in Secs : SeekOutcome(s)
  /\ res' = "none"
  /\ UNCHANGED <<srvUp, configured, pc, ri, saved, orig, touched, drops, env>>

\* curpos(), lines 850-857: updStatus(), then m_stat.songpos.
CurPos ==
  /\ Begin
  /\ \E o \in UpdStatusOutcomes(conn, srvUp) : Refresh(o, mpd)
  /\ res' = "none"
  /\ UNCHANGED <<mpd, srvUp, configured, pc, ri, saved, orig, touched, drops, env>>

\* The event loop's periodic updStatus().
Poll ==
  /\ pc = "idle"
  /\ \E o \in UpdStatusOutcomes(conn, srvUp) : Refresh(o, mpd)
  /\ UNCHANGED <<mpd, srvUp, configured, pc, ri, saved, orig, res, touched, calls, drops, env>>

\* getQueueData(), lines 803-847: getQueueSongs()'s mpd_send_list_queue_meta
\* in a RETRY_CMD, the songs received, mpd_response_finish(); false when
\* the listing fails or its answer is lost.  The songs are MPD's queue.
GetQueueData(c) == Retry(c, Cmd(TRUE, mpd))

\* A local file's URI made into a URL: "http://127.0.0.1/" + uri.
FakeUrl(s) == <<"http://127.0.0.1/", s>>

\* mapSong(), lines 425-442, as far as the URI goes: one that does not
\* match m_tpuexpr, "^[[:alpha:]]+://.+" (line 44), is taken for a local
\* file and replaced by a URL on 127.0.0.1, which does match it.
MapSong(s) == IF s \in LocalSongs THEN FakeUrl(s) ELSE s

\* MPD's state as saveState() records it (MpdState: m_stat, and the queue
\* as getQueueData() maps it, line 843).
Snapshot(m, seek) ==
  [q |-> [i \in 1..Len(m.q) |-> MapSong(m.q[i])], st |-> m.st, pos |-> m.pos,
   flags |-> m.flags, el |-> IF seek > 0 THEN seek ELSE m.el]

\* saveState(st, seekms), lines 341-358: updStatus(), then m_stat with the
\* elapsed time replaced by seekms when given, then getQueueData().  Either
\* failing returns false and the caller keeps no snapshot.
Save ==
  /\ Begin
  /\ \E o \in UpdStatusOutcomes(conn, srvUp), sk \in SeekArgs :
       IF ~o.ok
         THEN /\ Refresh(o, mpd)
              /\ UNCHANGED <<saved, orig, touched>>
              /\ res' = "unsaved"
         ELSE \E r \in GetQueueData(o.conn) :
                /\ conn' = r.conn
                /\ ReadStatus(TRUE, mpd)
                /\ IF r.ok THEN /\ saved' = Snapshot(mpd, sk)
                                /\ orig' = mpd.q
                                /\ touched' = FALSE
                                /\ res' = "saved"
                           ELSE /\ UNCHANGED <<saved, orig, touched>>
                                /\ res' = "unsaved"
  /\ UNCHANGED <<mpd, srvUp, configured, pc, ri, drops, env>>

-----------------------------------------------------------------------------
(* restoreState(st), lines 360-395, one step per MPDCli call it makes.     *)

\* Variant that restarts playback only for a state saved while playing.
RestorePlaysIfPlaying(sv) == sv.st = "play"

\* Lines 382-383: whether the saved state is restarted.
RestorePlays(sv) == sv.st \in {"play", "pause"}

\* Where restoreState goes after the call at pc (the lines 366-393 order).
AfterInserts == IF FlagList = <<>> THEN "r_vol" ELSE "r_flags"
AfterSeek == IF saved.st = "pause" THEN "r_pause" ELSE "r_vol2"
AfterPlay == IF saved.el > 0 THEN "r_seek" ELSE AfterSeek

Goto(l, i) == pc' = l /\ ri' = i

\* Returns with result b.
Return(b) == Goto("idle", 0) /\ res' = b

\* Lines 363-365 and the clearQueue() of line 366, whose result is ignored.
Restore ==
  /\ Begin
  /\ saved # NoSave
  /\ IF conn = "null"
       THEN Return("false") /\ UNCHANGED <<mpd, conn>>
       ELSE /\ \E r \in Retry(conn, MpdClear(mpd)) :
                 mpd' = r.mpd /\ conn' = r.conn
            /\ IF saved.q = <<>> THEN Goto(AfterInserts, 1) ELSE Goto("r_ins", 1)
            /\ res' = "none"
  /\ UNCHANGED <<srvUp, configured, stat, amp, saved, orig, touched, drops, env>>

\* Lines 367-372: insert(uri, i) (lines 711-730): mpd_run_add_id_to in a
\* RETRY_CMD returning -1, then updStatus(), whose result insert() ignores.
\* A failed insert ends restoreState with false.
RInsert ==
  /\ pc = "r_ins"
  /\ \E r \in Retry(conn, MpdAdd(mpd, saved.q[ri], ri - 1)) :
       /\ mpd' = r.mpd
       /\ IF r.ok
            THEN /\ \E o \in UpdStatusOutcomes(r.conn, srvUp) : Refresh(o, r.mpd)
                 /\ IF ri = Len(saved.q) THEN Goto(AfterInserts, 1)
                                         ELSE Goto("r_ins", ri + 1)
                 /\ UNCHANGED res
            ELSE /\ conn' = r.conn
                 /\ UNCHANGED <<stat, amp>>
                 /\ Return("false")
  /\ UNCHANGED <<srvUp, configured, saved, orig, touched, calls, drops, env>>

\* Lines 373-376: repeat(), random(), single(), consume(), results ignored.
RFlag ==
  /\ pc = "r_flags"
  /\ LET f == FlagList[ri] IN
       \E r \in Retry(conn, MpdFlag(mpd, f, f \in saved.flags)) :
         mpd' = r.mpd /\ conn' = r.conn
  /\ IF ri = Len(FlagList) THEN Goto("r_vol", 1) ELSE Goto("r_flags", ri + 1)
  /\ UNCHANGED <<srvUp, configured, stat, amp, saved, orig, res, touched, calls, drops, env>>

\* Lines 377-380 (and 391-392): mpd_run_set_volume(m_conn, ...) straight
\* on m_conn, without ok() or RETRY_CMD, unless the volume is external.
\* With m_conn null, libmpdclient dereferences it: the process crashes.
\* Otherwise the volume (not kept here) is sent: MPD without a mixer
\* refuses it, and nothing clears that error; a broken connection, or one
\* in error, stays as it is.
SetVolumeOn(next) ==
  CASE ExtVolume /\ configured -> next /\ UNCHANGED conn
    [] conn = "null" -> Goto("crashed", 0) /\ UNCHANGED <<conn, res>>
    [] OTHER -> /\ conn' = IF conn = "live" /\ ~Mixer THEN "err" ELSE conn
                /\ next

RVol ==
  /\ pc = "r_vol"
  /\ SetVolumeOn(IF RestorePlays(saved) THEN Goto("r_play", 0) /\ UNCHANGED res
                                        ELSE Return("true"))
  /\ UNCHANGED <<mpd, srvUp, configured, stat, amp, saved, orig, touched, calls, drops, env>>

\* Line 386: play(songpos), result ignored.
RPlay ==
  /\ pc = "r_play"
  /\ PlayOutcome(PlayArg(saved.pos))
  /\ Goto(AfterPlay, 0)
  /\ UNCHANGED <<srvUp, configured, saved, orig, res, touched, calls, drops, env>>

\* Lines 387-388: seek(songelapsedms / 1000), result ignored.
RSeek ==
  /\ pc = "r_seek"
  /\ SeekOutcome(saved.el)
  /\ Goto(AfterSeek, 0)
  /\ UNCHANGED <<srvUp, configured, saved, orig, res, touched, calls, drops, env>>

\* Lines 389-390: pause(true), result ignored.
RPause ==
  /\ pc = "r_pause"
  /\ \E r \in Retry(conn, MpdPause(mpd, TRUE)) : mpd' = r.mpd /\ conn' = r.conn
  /\ Goto("r_vol2", 0)
  /\ UNCHANGED <<srvUp, configured, stat, amp, saved, orig, res, touched, calls, drops, env>>

\* Lines 391-394: the volume again, then return true.
RVol2 ==
  /\ pc = "r_vol2"
  /\ SetVolumeOn(Return("true"))
  /\ UNCHANGED <<mpd, srvUp, configured, stat, amp, saved, orig, touched, calls, drops, env>>

-----------------------------------------------------------------------------
(* The environment.                                                        *)

\* Another MPD client runs a command: play a song, stop, pause or resume,
\* next, seek, or set a flag.
OtherCmds ==
  {MpdPlayPos(mpd, i) : i \in 0..Len(mpd.q) - 1}
  \cup {MpdStop(mpd), MpdNext(mpd)}
  \cup {MpdPause(mpd, on) : on \in BOOLEAN}
  \cup {MpdSeek(mpd, mpd.pos, s) : s \in Secs}
  \cup {MpdFlag(mpd, f, on) : f \in FlagNames, on \in BOOLEAN}

OtherClient ==
  /\ env < MaxEnv
  /\ \E c \in OtherCmds : c.valid /\ mpd' = c.eff
  /\ env' = env + 1
  /\ touched' = TRUE
  /\ UNCHANGED <<srvUp, configured, conn, stat, amp, pc, ri, saved, orig, res, calls, drops>>

\* MPD closes the connection (its idle timeout, or a network error).
Drop ==
  /\ drops < MaxDrops
  /\ conn = "live"
  /\ conn' = "dead"
  /\ drops' = drops + 1
  /\ touched' = TRUE
  /\ UNCHANGED <<mpd, srvUp, configured, stat, amp, pc, ri, saved, orig, res, calls, env>>

\* MPD stops, closing the connection; it keeps its queue and flags (its
\* state file) and comes back stopped.
ServerDown ==
  /\ drops < MaxDrops
  /\ srvUp
  /\ srvUp' = FALSE
  /\ conn' = IF conn = "live" THEN "dead" ELSE conn
  /\ mpd' = [mpd EXCEPT !.st = "stop", !.el = 0]
  /\ drops' = drops + 1
  /\ touched' = TRUE
  /\ UNCHANGED <<configured, stat, amp, pc, ri, saved, orig, res, calls, env>>

ServerUp ==
  /\ ~srvUp
  /\ srvUp' = TRUE
  /\ UNCHANGED <<mpd, conn, configured, stat, amp, pc, ri, saved, orig, res, touched, calls,
                 drops, env>>

-----------------------------------------------------------------------------
\* The constructor, lines 41-67.  openconn() fails when MPD is down, and the
\* constructor returns at once: m_conn stays null and the configuration
\* (hooks, m_externalvolumecontrol) is never read.  Otherwise it reads it
\* and runs updStatus(), whose hook sees m_stat.state MPDS_UNK.
Init ==
  /\ mpd \in {[q |-> InitQueue, st |-> s, pos |-> p, el |-> 0, flags |-> {}] :
                s \in PlayStates, p \in -1..Len(InitQueue) - 1}
  /\ mpd.st # "stop" => mpd.pos >= 0
  /\ srvUp \in StartUp
  /\ configured = srvUp
  /\ conn = OpenConn(srvUp)
  /\ stat = IF srvUp THEN StatusOf(mpd)
                    ELSE [state |-> "unk", pos |-> -1, el |-> 0, flags |-> {}]
  /\ amp = (srvUp /\ Hook("unk", mpd.st) = "onplay")
  /\ pc = "idle" /\ ri = 0
  /\ saved = NoSave /\ orig = <<>> /\ res = "none" /\ touched = FALSE
  /\ calls = 0 /\ drops = 0 /\ env = 0

Worker == RInsert \/ RFlag \/ RVol \/ RPlay \/ RSeek \/ RPause \/ RVol2

Calls == Play \/ Stop \/ Pause \/ TogglePause \/ Seek \/ Next_ \/ Previous
         \/ SetFlag \/ DeletePosRange \/ CurPos \/ Save \/ Restore

Next == Calls \/ Worker \/ Poll \/ OtherClient \/ Drop \/ ServerDown \/ ServerUp

\* The worker finishes the call it is in; the event loop keeps polling;
\* MPD, once stopped, is started again (by its service manager).
Spec == Init /\ [][Next]_vars /\ WF_vars(Worker) /\ WF_vars(Poll)
        /\ WF_vars(ServerUp)

-----------------------------------------------------------------------------
Songs == Range(InitQueue) \cup {FakeUrl(x) : x \in LocalSongs}

MpdStates == [q : Seq(Songs), st : PlayStates, pos : Int,
              el : Secs, flags : SUBSET FlagNames]

TypeOK ==
  /\ mpd \in MpdStates
  /\ mpd.pos \in -1..Len(mpd.q) - 1
  /\ mpd.st # "stop" => mpd.pos >= 0
  /\ conn \in ConnStates /\ srvUp \in BOOLEAN /\ amp \in BOOLEAN
  /\ configured \in BOOLEAN
  /\ stat.state \in PlayStates \cup {"unk"}
  /\ pc \in {"idle", "crashed", "r_ins", "r_flags", "r_vol", "r_play",
             "r_seek", "r_pause", "r_vol2"}
  /\ saved \in MpdStates \cup {NoSave}
  /\ orig \in Seq(Range(InitQueue))
  /\ res \in {"none", "true", "false", "saved", "unsaved"}
  /\ calls \in 0..MaxCalls /\ drops \in 0..MaxDrops /\ env \in 0..MaxEnv

(* spec.md: saveState followed by restoreState on an unmodified backend    *)
(* reproduces the queue in order, the repeat/random/single/consume flags   *)
(* and, for a saved Playing or Paused state, the play state, position and  *)
(* elapsed time.  Checked whenever restoreState() has just returned true   *)
(* and neither another client nor a lost connection or restart came in     *)
(* between.                                                                *)
RestoreReproduces ==
  (pc = "idle" /\ res = "true" /\ ~touched) =>
    /\ mpd.q = orig
    /\ mpd.flags = saved.flags
    /\ mpd.st = saved.st
    /\ saved.st # "stop" => mpd.pos = saved.pos /\ mpd.el = saved.el

(* The onplay/onpause/onstop commands that updStatus() runs on a change   *)
(* of MPD's play state keep what they drive in step with MPD: whatever     *)
(* MPD's state, and whoever changed it (a control point, restoreState(),   *)
(* another client, a restart), the last command run is eventually onplay   *)
(* if MPD plays and onpause/onstop if it does not, unless the process has  *)
(* crashed (RestoreNoNullConn).                                            *)
AmpFollowsMpd ==
  \A s \in PlayStates :
    (mpd.st = s) ~> (mpd.st # s \/ amp = (s = "play") \/ pc = "crashed")

(* restoreState() never uses a null m_conn: it completes, or fails, but   *)
(* the process survives it.                                                *)
RestoreNoNullConn == pc # "crashed"
=============================================================================

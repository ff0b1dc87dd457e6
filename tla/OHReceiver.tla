----------------------------- MODULE OHReceiver -----------------------------
(***************************************************************************)
(* The OpenHome Receiver service (src/src/ohreceiver.cxx): the life cycle  *)
(* of the sc2mpd relay process it runs for a Songcast sender, and, in MPD  *)
(* mode, the http://localhost:<port>/Songcast.wav entry it puts into MPD's *)
(* queue and plays.                                                        *)
(*                                                                         *)
(* The UPnP actions and the state-publication pass run one at a time (the  *)
(* device serialises them), so each is one atomic step, the 15 second wait *)
(* for the relay's CONNECTED line included.  Between them the relay may    *)
(* exit and other MPD clients may play or stop.  MPDCli calls are atomic   *)
(* here and may fail (MPDCliQueue checks their inside; the insert takes   *)
(* its outcomes from MpdConn); a queue entry is a record of its MPD id and *)
(* whether it is the receiver's URI.                                       *)
(***************************************************************************)
EXTENDS Integers, Sequences, SequencesExt, FiniteSets, MpdConn

CONSTANTS
  Modes,      \* values of m_pm the device may be configured with
  Uris,       \* sender URIs a control point may set
  Metas,      \* sender metadata; BadMeta does not parse
  BadMeta,
  MaxSpawns,  \* bound: relay processes started
  MaxCalls,   \* bound: UPnP actions received
  MpdFails,   \* MPDCli calls may fail
  HaveConf,   \* a receiver state file is configured and readable (m_conf)
  ConfFails,  \* a write to the state file may fail
  MaxRestarts \* bound: restarts of the upmpdcli process

ASSUME Modes \subseteq {"mpd", "alsa"} /\ BadMeta \in Metas

Empty == ""
Pids == 1..MaxSpawns
NoCmd == 0             \* m_cmd is null
IdleCmd == -1          \* m_cmd holds an ExecCmd without a child
Http == "http"         \* m_httpuri
Song == "song"         \* any other queue entry

VARIABLES
  pm,           \* m_pm: "mpd" (OHRP_MPD) or "alsa" (OHRP_ALSA), fixed
  uri, meta,    \* m_uri, m_metadata
  active,       \* m_active
  cmd,          \* m_cmd: NoCmd, IdleCmd, or the pid of its child
  procs,        \* state of each relay process
  queue,        \* MPD's queue: sequence of [id, uri]
  nextId,       \* MPD: id of the next added entry
  mpdState,     \* MPD's play state
  statState,    \* MPDCli m_stat.state, as of the last good updStatus
  conf,         \* the state file: [uri, meta] (scsenderuri, scsendermetadata)
  calls, restarts

vars == <<pm, uri, meta, active, cmd, procs, queue, nextId, mpdState, statState,
          conf, calls, restarts>>

ProcStates == {"unborn", "running", "exited", "reaped"}
MpdStates == {"stop", "play", "pause"}
Entry == [id : Nat, uri : {Http, Song}]

-----------------------------------------------------------------------------
(* Helpers: the relay process and MPD as MPDCli leaves them.               *)

\* Variant of zapChild() that kills the child without waiting for it.
ZapNoWait(pr, c) == IF c \in Pids THEN [pr EXCEPT ![c] = "exited"] ELSE pr

\* ExecCmd::zapChild(): kill the child and wait for it.
Zap(pr, c) == IF c \in Pids THEN [pr EXCEPT ![c] = "reaped"] ELSE pr

Alive(pr) == {p \in Pids : pr[p] \in {"running", "exited"}}

\* ids of the receiver's entries in OHPlaylist::urlMap().
HttpIds(q) == {q[i].id : i \in {i \in 1..Len(q) : q[i].uri = Http}}

\* An MPDCli call whose effect may fail: its outcomes.
MayFail(ok, failed) == IF MpdFails THEN {ok, failed} ELSE {ok}

\* OHReceiver::iStop(), lines 256-279, from the values c (m_cmd), pr, q, ms
\* the caller has reached: zap the relay; in MPD mode stop MPD, then
\* delete every entry urlMap() shows with the receiver's URI.  urlMap()
\* and each deleteId() may fail; m_stat is not refreshed.
IStop(c, pr, q, ms) ==
  /\ cmd' = NoCmd
  /\ procs' = Zap(pr, c)
  /\ IF pm = "mpd"
       THEN /\ mpdState' \in MayFail("stop", ms)
            /\ \E kept \in SUBSET HttpIds(q) :
                 /\ MpdFails \/ kept = {}
                 /\ queue' = SelectSeq(q, LAMBDA e : e.uri # Http \/ e.id \in kept)
       ELSE /\ mpdState' = ms
            /\ queue' = q

\* iPlay(), lines 206-214: the ids of entries urlMap() maps to m_httpuri.
FindHttp(q) == HttpIds(q)

-----------------------------------------------------------------------------
(* OHReceiver::iPlay(), lines 144-244.                                     *)

\* The end of a successful iPlay(): m_cmd holds relay p, MPD plays and
\* playId()'s updStatus() has seen it.
Playing(p, pr, q) ==
  /\ cmd' = p
  /\ procs' = pr
  /\ queue' = q
  /\ mpdState' = IF pm = "mpd" THEN "play" ELSE mpdState
  /\ statState' = IF pm = "mpd" THEN "play" ELSE statState

\* `out:` with ok false: iStop(), m_stat as it was.
Fail(c, pr, q, ms) == IStop(c, pr, q, ms) /\ UNCHANGED statState

\* playId() returned false: RETRY_CMD gave up before MPD played, or MPD
\* played and the updStatus() after it failed.  Then `out:` calls iStop().
PlayIdFailed(p, pr, q, ms) == \E ms2 \in {ms, "play"} : Fail(p, pr, q, ms2)

\* insertAfterId(m_httpuri, 0) is insert(uri, 0), lines 711-730: a
\* RETRY_CMD around mpd_run_add_id_to, from whatever state m_conn is in
\* (MpdConn).  Its outcomes: how many entries it added, and whether it
\* returned an id.  A lost answer makes it add the entry twice, or return
\* -1 after adding it.
AddOutcomes ==
  IF MpdFails
    THEN {[n |-> p.execs, ok |-> p.replied] :
            p \in UNION {AllRetryPaths(c, up) : c \in ConnStates, up \in BOOLEAN}}
    ELSE {[n |-> 1, ok |-> TRUE]}

\* n receiver entries added at position 0, one after the other.
AddedAtHead(n) == [i \in 1..n |-> [id |-> nextId + n - i, uri |-> Http]]

\* The MPD part, lines 192-237, after sc2mpd was started as pid p and
\* MPDCli::stop() left MPD in ms.
IPlayMpd(p, pr, ms) ==
  LET found == FindHttp(queue) IN
  \/ \* getline() read no CONNECTED line: sc2mpd exited, or timed out
     /\ \E pr2 \in {pr, [pr EXCEPT ![p] = "exited"]} : Fail(p, pr2, queue, ms)
     /\ UNCHANGED nextId
  \/ \* urlMap() failed
     /\ MpdFails
     /\ Fail(p, pr, queue, ms)
     /\ UNCHANGED nextId
  \/ \* an entry is there already: playId() it
     /\ found # {}
     /\ \E ok \in MayFail(TRUE, FALSE) :
          IF ok THEN Playing(p, pr, queue) ELSE PlayIdFailed(p, pr, queue, ms)
     /\ UNCHANGED nextId
  \/ \* no entry and the metadata does not parse (uMetaToUpSong)
     /\ found = {}
     /\ meta = BadMeta
     /\ Fail(p, pr, queue, ms)
     /\ UNCHANGED nextId
  \/ \* no entry: insertAfterId(m_httpuri, 0) puts one at the head; playId()
     \* the id it returned, or `out:` on -1
     /\ found = {}
     /\ meta # BadMeta
     /\ \E a \in AddOutcomes :
          LET q2 == AddedAtHead(a.n) \o queue
          IN /\ nextId' = nextId + a.n
             /\ IF a.ok
                  THEN \E ok \in MayFail(TRUE, FALSE) :
                         IF ok THEN Playing(p, pr, q2)
                               ELSE PlayIdFailed(p, pr, q2, ms)
                  ELSE Fail(p, pr, q2, ms)

\* The relay spawned by startExec(): the first pid not used yet.
NewPid == CHOOSE x \in Pids : procs[x] = "unborn"

IPlay ==
  \/ \* lines 152-159: no sender: return false, nothing touched
     /\ uri = Empty \/ meta = Empty
     /\ UNCHANGED <<cmd, procs, queue, nextId, mpdState, statState>>
  \/ /\ uri # Empty
     /\ meta # Empty
     /\ LET pr1 == Zap(procs, cmd)                 \* lines 168-169
            pr2 == [pr1 EXCEPT ![NewPid] = "running"]
        IN \/ \* startExec() failed: m_cmd is a fresh ExecCmd
              /\ MpdFails
              /\ Fail(IdleCmd, pr1, queue, mpdState)
              /\ UNCHANGED nextId
           \/ /\ pm = "alsa"
              /\ Playing(NewPid, pr2, queue)
              /\ UNCHANGED nextId
           \/ /\ pm = "mpd"
              /\ \E ms \in MayFail("stop", mpdState) : IPlayMpd(NewPid, pr2, ms)

-----------------------------------------------------------------------------
(* UPnP actions and the publication pass.                                  *)

\* OHReceiver::play(), lines 246-254: select the Receiver source (which
\* sets m_active through OHProduct), then iPlay().
Play ==
  /\ calls < MaxCalls
  /\ \E x \in Pids : procs[x] = "unborn"
  /\ calls' = calls + 1
  /\ active' = TRUE
  /\ IPlay
  /\ UNCHANGED <<uri, meta, conf, restarts>>

\* OHReceiver::stop(), lines 281-297: iStop(), then select the Playlist
\* source, which deactivates the receiver.
Stop ==
  /\ calls < MaxCalls
  /\ calls' = calls + 1
  /\ active' = FALSE
  /\ Fail(cmd, procs, queue, mpdState)
  /\ UNCHANGED <<uri, meta, nextId, conf, restarts>>

\* writeSenderToConf(), lines 81-90, when m_conf is there and ok (lines
\* 309-310): two separate set() calls, scsenderuri then scsendermetadata;
\* either may fail, and a failure is only logged.
WriteSenderToConf(u, m) ==
  \E okU, okM \in IF ConfFails THEN BOOLEAN ELSE {TRUE} :
    conf' = IF HaveConf
              THEN [uri  |-> IF okU THEN u ELSE conf.uri,
                    meta |-> IF okM THEN m ELSE conf.meta]
              ELSE conf

\* Variant of iSetSender() that changes the sender without stopping.
SetSenderNoStop ==
  /\ calls < MaxCalls
  /\ \E u \in Uris \cup {Empty}, m \in Metas \cup {Empty} :
       /\ calls' = calls + 1
       /\ uri' = u
       /\ meta' = m
       /\ WriteSenderToConf(u, m)
  /\ UNCHANGED <<active, nextId, cmd, procs, queue, mpdState, statState,
                 restarts>>

\* OHReceiver::iSetSender(), lines 299-315: only a change does anything,
\* and it first stops a running session.
SetSender ==
  /\ calls < MaxCalls
  /\ \E u \in Uris \cup {Empty}, m \in Metas \cup {Empty} :
       /\ calls' = calls + 1
       /\ IF u # uri \/ m # meta
            THEN /\ uri' = u
                 /\ meta' = m
                 /\ IF cmd # NoCmd THEN Fail(cmd, procs, queue, mpdState)
                    ELSE UNCHANGED <<cmd, procs, queue, mpdState, statState>>
                 /\ WriteSenderToConf(u, m)
            ELSE UNCHANGED <<uri, meta, cmd, procs, queue, mpdState, statState,
                             conf>>
  /\ UNCHANGED <<active, nextId, restarts>>

\* OHReceiver::setActive(false), lines 137-142: OHProduct selected another
\* source.
Deactivate ==
  /\ calls < MaxCalls
  /\ calls' = calls + 1
  /\ active' = FALSE
  /\ Fail(cmd, procs, queue, mpdState)
  /\ UNCHANGED <<uri, meta, nextId, conf, restarts>>

\* Variant of makestate() that judges MPD by the cached m_stat only.
PublishCached(read) ==
  LET st == statState IN
  /\ IF pm = "mpd"
       THEN IF cmd # NoCmd /\ st \notin {"play", "pause"}
              THEN IStop(cmd, procs, queue, mpdState)
              ELSE UNCHANGED <<cmd, procs, queue, mpdState>>
       ELSE /\ IF cmd \in Pids /\ procs[cmd] = "exited"
                 THEN /\ cmd' = IdleCmd
                      /\ procs' = [procs EXCEPT ![cmd] = "reaped"]
                 ELSE UNCHANGED <<cmd, procs>>
            /\ UNCHANGED <<queue, mpdState>>
  /\ statState' = st
  /\ UNCHANGED <<pm, uri, meta, active, nextId, calls, conf,
                 restarts>>

\* OHReceiver::makestate(), lines 94-113, on the event loop's pass, after
\* MPDCli's status refresh (read: whether updStatus() succeeded).  MPD
\* mode: a session whose MPD is neither playing nor paused is stopped.
\* ALSA mode: an exited relay is reaped and m_cmd replaced by a fresh
\* ExecCmd.
Publish(read) ==
  LET st == IF read THEN mpdState ELSE statState IN
  /\ IF pm = "mpd"
       THEN IF cmd # NoCmd /\ st \notin {"play", "pause"}
              THEN IStop(cmd, procs, queue, mpdState)
              ELSE UNCHANGED <<cmd, procs, queue, mpdState>>
       ELSE /\ IF cmd \in Pids /\ procs[cmd] = "exited"
                 THEN /\ cmd' = IdleCmd
                      /\ procs' = [procs EXCEPT ![cmd] = "reaped"]
                 ELSE UNCHANGED <<cmd, procs>>
            /\ UNCHANGED <<queue, mpdState>>
  /\ statState' = st
  /\ UNCHANGED <<pm, uri, meta, active, nextId, calls, conf,
                 restarts>>

-----------------------------------------------------------------------------
(* The environment.                                                        *)

\* sc2mpd exits on its own (the sender went away, a network error).
RelayExit ==
  /\ \E p \in Pids :
       /\ procs[p] = "running"
       /\ procs' = [procs EXCEPT ![p] = "exited"]
  /\ UNCHANGED <<uri, meta, active, cmd, queue, nextId, mpdState, statState,
                 calls, conf, restarts>>

\* Another MPD client, or the end of the stream, changes MPD's state.
MpdChange ==
  /\ \E s \in MpdStates \ {mpdState} : mpdState' = s
  /\ UNCHANGED <<uri, meta, active, cmd, procs, queue, nextId, statState,
                 calls, conf, restarts>>

\* The sender the constructor starts with, lines 62-79: setSenderFromConf()
\* reads both settings from the state file c when it is configured and
\* opens; otherwise m_uri and m_metadata stay empty.
SenderFromConf(c) == IF HaveConf THEN c ELSE [uri |-> Empty, meta |-> Empty]

\* upmpdcli exits and is started again (by its service manager).  On the
\* way out ExecCmd's destructor kills and reaps the relay; MPD keeps its
\* queue and play state.  The new OHReceiver (lines 46-79) is inactive,
\* has no relay and reads the sender from the state file; the new MPDCli's
\* first updStatus() reads MPD's state.
Restart ==
  /\ restarts < MaxRestarts
  /\ restarts' = restarts + 1
  /\ procs' = Zap(procs, cmd)
  /\ cmd' = NoCmd
  /\ active' = FALSE
  /\ uri' = SenderFromConf(conf).uri
  /\ meta' = SenderFromConf(conf).meta
  /\ statState' = mpdState
  /\ UNCHANGED <<queue, nextId, mpdState, conf, calls>>

-----------------------------------------------------------------------------
\* The constructor, lines 46-79: the sender comes from the state file; MPD
\* may hold a receiver entry left by an earlier run.
Init ==
  /\ pm \in Modes
  /\ conf \in [uri : Uris \cup {Empty}, meta : Metas \cup {Empty}]
  /\ uri = SenderFromConf(conf).uri
  /\ meta = SenderFromConf(conf).meta
  /\ active = FALSE
  /\ cmd = NoCmd
  /\ procs = [p \in Pids |-> "unborn"]
  /\ queue \in {<<[id |-> 1, uri |-> Song]>>,
                <<[id |-> 1, uri |-> Song], [id |-> 2, uri |-> Http]>>}
  /\ nextId = 3
  /\ mpdState \in MpdStates
  /\ statState = mpdState
  /\ calls = 0
  /\ restarts = 0

Next ==
  /\ \/ Play \/ Stop \/ SetSender \/ Deactivate
     \/ \E read \in BOOLEAN : Publish(read)
     \/ RelayExit \/ MpdChange \/ Restart
  /\ UNCHANGED pm

\* The event loop publishes again and again; the status refresh before it
\* succeeds whenever MPD is reachable (MPDCliQueue: StatusCatchesUp).
Fairness == WF_vars(Publish(TRUE))

Spec == Init /\ [][Next]_vars /\ Fairness

-----------------------------------------------------------------------------
TypeOK ==
  /\ pm \in Modes
  /\ uri \in Uris \cup {Empty}
  /\ meta \in Metas \cup {Empty}
  /\ active \in BOOLEAN
  /\ cmd \in {NoCmd, IdleCmd} \cup Pids
  /\ procs \in [Pids -> ProcStates]
  /\ queue \in Seq(Entry)
  /\ nextId \in Nat
  /\ mpdState \in MpdStates
  /\ statState \in MpdStates
  /\ conf \in [uri : Uris \cup {Empty}, meta : Metas \cup {Empty}]
  /\ calls \in 0..MaxCalls
  /\ restarts \in 0..MaxRestarts

(* At most one relay process per session: every sc2mpd that has not been *)
(* reaped is the child m_cmd holds, so a second Play kills the first      *)
(* relay and no stop, failure or source change leaves one behind.         *)
NoOrphanRelay ==
  \A p \in Alive(procs) : cmd = p

(* The service publishes TransportState "Playing" exactly while m_cmd is  *)
(* set, and its comment says it is playing as long as it has a            *)
(* subprocess: once the relay has exited, the published state eventually  *)
(* goes back to "Stopped".                                                 *)
RelayGoneEventuallyStopped ==
  \A p \in Pids :
    (cmd = p /\ procs[p] = "exited") ~> (cmd = NoCmd)

(* MPD mode: when MPD stops under a running session (another control      *)
(* point, the end of the stream), the publication pass eventually tears   *)
(* the session down, unless MPD plays again first.                        *)
StopReconciled ==
  (pm = "mpd" /\ cmd # NoCmd /\ mpdState = "stop") ~> (cmd = NoCmd \/ mpdState # "stop")

(* The published TransportState ("Playing" iff m_cmd is set, lines       *)
(* 117-124) and the sender behave as ReceiverAbstract allows: playing     *)
(* starts only for a sender that is set, and iSetSender() never leaves a   *)
(* session playing for a sender other than the current one.               *)
Abs == INSTANCE ReceiverAbstract
         WITH transport <- IF cmd = NoCmd THEN "Stopped" ELSE "Playing"

ImplementsAbstract == Abs!ASpec
=============================================================================

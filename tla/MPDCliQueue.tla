---------------------------- MODULE MPDCliQueue ----------------------------
(***************************************************************************)
(* MPDCli's queue operations (src/src/mpdcli.cxx): insert, insertAfterId   *)
(* with its fast-path position cache, deleteId, and the periodic           *)
(* updStatus() that refreshes m_stat.qvers, all running over the retrying  *)
(* connection of MpdConn against an MPD server that other actors share.    *)
(*                                                                         *)
(* The single worker that runs MPDCli calls is a program counter: each     *)
(* step is one round trip to MPD (one RETRY_CMD, one updStatus), and the   *)
(* environment (broken connections, MPD going away, another MPD client     *)
(* editing the queue) runs between steps.  Songs are their MPD ids; URIs   *)
(* and tags are left out, positions are 0-based as in the code.            *)
(***************************************************************************)
EXTENDS Integers, Sequences, SequencesExt, MpdConn

CONSTANTS
  InitQueue,    \* ids in MPD's queue when MPDCli connects: <<1, ..., k>>
  MaxIds,       \* bound: another client adds songs while ids <= MaxIds
  MaxCalls,     \* bound: calls the worker makes
  MaxDrops,     \* bound: connections that break (0: never)
  Lossy,        \* a connection may break while a command is under way
  External,     \* another MPD client inserts and deletes songs
  StaleArgs,    \* callers pass ids and positions that may no longer hold
  HaveAddTagId  \* m_have_addtagid: MPD knows "addtagid"

ASSUME InitQueue = [i \in 1..Len(InitQueue) |-> i] /\ Len(InitQueue) <= MaxIds

VARIABLES
  queue,           \* MPD: the queue, a sequence of song ids
  qvers,           \* MPD: queue version, bumped by every queue change
  nextId,          \* MPD: the id the next added song gets
  srvUp,           \* MPD accepts connections
  conn,            \* m_conn (MpdConn!ConnStates)
  statQvers,       \* m_stat.qvers: the version the last good updStatus read
  lastInsertId,    \* m_lastinsertid
  lastInsertPos,   \* m_lastinsertpos
  lastInsertQvers, \* m_lastinsertqvers
  pc,              \* where the worker is in its current call
  arg,             \* insert(): pos;  deleteId(): id
  afterId,         \* insertAfterId(): id
  calls,           \* calls made so far (bounded by MaxCalls)
  drops            \* broken connections so far (bounded by MaxDrops)

vars == <<queue, qvers, nextId, srvUp, conn, statQvers, lastInsertId,
          lastInsertPos, lastInsertQvers, pc, arg, afterId, calls, drops>>

Ids == Nat \ {0}
NoId == -1            \* the error value of insert(): RETRY_CMD(..., -1)

\* Breaks a command may still meet on its way through RETRY_CMD.
Budget == IF Lossy THEN MaxDrops - drops ELSE 0

Labels == {"idle", "ins_add", "ins_tag", "ins_status", "iai_status",
           "iai_scan", "del"}

-----------------------------------------------------------------------------
(* MPD's side of the commands.                                             *)

\* mpd_run_add_id / mpd_run_add_id_to: pos -1 appends, otherwise the song
\* goes to 0-based position pos, which must not be past the end.
AddOk(q, pos) == pos = -1 \/ pos <= Len(q)
AddAt(q, pos, id) == IF pos = -1 THEN Append(q, id) ELSE InsertAt(q, pos + 1, id)

\* n executions of the same add (a resend adds the song a second time).
AddN(q, pos, n) ==
  IF n = 0 THEN q
  ELSE IF n = 1 THEN AddAt(q, pos, nextId)
  ELSE AddAt(AddAt(q, pos, nextId), pos, nextId + 1)

-----------------------------------------------------------------------------
(* The worker.                                                             *)

\* Return from the current call to the caller.
Return == pc' = "idle"

\* updStatus() as far as the queue goes.
UpdStatus(o) ==
  /\ conn' = o.conn
  /\ statQvers' = IF o.ok THEN qvers ELSE statQvers

Poll ==
  /\ pc = "idle"
  /\ \E o \in UpdStatusOutcomes(conn, srvUp) : UpdStatus(o)
  /\ UNCHANGED <<queue, qvers, nextId, srvUp, lastInsertId, lastInsertPos,
                 lastInsertQvers, pc, arg, afterId, calls, drops>>

\* Variant that records false (0) for a failed add.
AddResultFalse(success, n) == IF success THEN nextId + n - 1 ELSE 0

\* m_lastinsertid after the add: the new id, or the -1 that a failed
\* mpd_run_add_id_to returns.
AddResult(success, n) == IF success THEN nextId + n - 1 ELSE NoId

\* insert(uri, pos, meta), lines 711-730: the add.
InsAdd ==
  /\ pc = "ins_add"
  /\ \E p \in RetryPaths(conn, srvUp, Budget) :
       LET ok      == AddOk(queue, arg)
           n       == IF ok THEN p.execs ELSE 0
           success == ok /\ p.replied
       IN /\ queue' = AddN(queue, arg, n)
          /\ qvers' = qvers + n
          /\ nextId' = nextId + n
          /\ conn' = IF ok THEN p.conn ELSE AfterReject(p)
          /\ drops' = drops + p.breaks
          \* the macro returns before evaluating CMD when m_conn is null
          /\ lastInsertId' = IF conn = "null" THEN lastInsertId
                             ELSE AddResult(success, n)
          /\ IF success
               THEN pc' = IF HaveAddTagId THEN "ins_tag" ELSE "ins_status"
               ELSE Return
  /\ UNCHANGED <<srvUp, statQvers, lastInsertPos, lastInsertQvers, arg,
                 afterId, calls>>

\* send_tag_data(), lines 665-709: addtagid requests, which change tags,
\* not the order.  MPD tags remote songs only and refuses a local file's,
\* and showError() leaves that MPD_ERROR_SERVER in place; a closed
\* connection is noticed by mpd_response_finish and showError() reopens
\* it; on a connection in error mpd_send_command fails at once.  The
\* first failure ends send_tag_data().
TagConn(c, remote) ==
  CASE c = "live" -> IF remote THEN "live" ELSE "err"
    [] c = "dead" -> OpenConn(srvUp)
    [] OTHER      -> c

InsTag ==
  /\ pc = "ins_tag"
  /\ pc' = "ins_status"
  /\ \E remote \in BOOLEAN : conn' = TagConn(conn, remote)
  /\ UNCHANGED <<queue, qvers, nextId, srvUp, statQvers, lastInsertId,
                 lastInsertPos, lastInsertQvers, arg, afterId, calls, drops>>

\* insert(), lines 726-729: remember the position and the queue version.
InsStatus ==
  /\ pc = "ins_status"
  /\ \E o \in UpdStatusOutcomes(conn, srvUp) :
       /\ UpdStatus(o)
       /\ lastInsertQvers' = statQvers'
  /\ lastInsertPos' = arg
  /\ Return
  /\ UNCHANGED <<queue, qvers, nextId, srvUp, lastInsertId, arg, afterId,
                 calls, drops>>

\* Variant that ignores the queue version.
FastPathOkAnyVers(vers) ==
  /\ lastInsertId = afterId
  /\ lastInsertPos >= 0

\* insertAfterId(), lines 743-744: the fast path is taken when the last
\* insert is the predecessor and the queue version read now is the one
\* recorded then.
FastPathOk(vers) ==
  /\ lastInsertId = afterId
  /\ lastInsertPos >= 0
  /\ lastInsertQvers = vers

\* insertAfterId(uri, id, meta), lines 740-746: updStatus(), whose result is
\* not looked at, then the fast path or the scan.
IaiStatus ==
  /\ pc = "iai_status"
  /\ \E o \in UpdStatusOutcomes(conn, srvUp) :
       /\ UpdStatus(o)
       /\ IF FastPathOk(statQvers')
            THEN /\ pc' = "ins_add"
                 /\ arg' = lastInsertPos + 1
            ELSE /\ pc' = "iai_scan"
                 /\ UNCHANGED arg
  /\ UNCHANGED <<queue, qvers, nextId, srvUp, lastInsertId, lastInsertPos,
                 lastInsertQvers, afterId, calls, drops>>

\* The position after id, by the scan of lines 752-758: one past the
\* first song with that id, or the end of the queue when there is none.
ScanPos(q, id) ==
  LET i == SelectInSeq(q, LAMBDA x : x = id) IN IF i = 0 THEN Len(q) ELSE i

\* insertAfterId(), lines 747-761: getQueueSongs() (lines 805-823) and the
\* scan.  When the listing fails insertAfterId returns false, that is 0.
IaiScan ==
  /\ pc = "iai_scan"
  /\ \/ \* the listing is read, on the open connection or after showError
        \* reopened a closed one
        /\ \/ conn = "live"
           \/ conn = "dead" /\ srvUp
        /\ conn' = "live"
        /\ pc' = "ins_add"
        /\ arg' = ScanPos(queue, afterId)
     \/ \* no connection, a refused one, or a closed one that the request
        \* went out on and whose answer mpd_response_finish cannot read
        /\ conn \in {"null", "err", "dead"}
        /\ conn' \in IF conn = "dead" /\ ~srvUp THEN {"dead", "null"}
                                                ELSE {conn}
        /\ Return
        /\ UNCHANGED arg
  /\ UNCHANGED <<queue, qvers, nextId, srvUp, statQvers, lastInsertId,
                 lastInsertPos, lastInsertQvers, afterId, calls, drops>>

\* deleteId(id), lines 771-781: RETRY_CMD_WITH_SLEEP.  A resend after a
\* lost answer finds the song gone and is refused.
Del ==
  /\ pc = "del"
  /\ \E p \in RetryPaths(conn, srvUp, Budget) :
       LET present == arg \in Range(queue)
           lastOk  == present /\ p.execs = 1
       IN /\ queue' = IF present /\ p.execs >= 1 THEN Remove(queue, arg)
                      ELSE queue
          /\ qvers' = IF present /\ p.execs >= 1 THEN qvers + 1 ELSE qvers
          /\ conn' = IF p.replied /\ ~lastOk THEN "err" ELSE p.conn
          /\ drops' = drops + p.breaks
  /\ pc' = "idle"
  /\ UNCHANGED <<nextId, srvUp, statQvers, lastInsertId, lastInsertPos,
                 lastInsertQvers, arg, afterId, calls>>

-----------------------------------------------------------------------------
(* The callers: the playlist services call these with arguments from      *)
(* their view of the queue, which may be out of date.                      *)

KnownIds == IF StaleArgs THEN 1..(nextId - 1) ELSE Range(queue)
Positions == -1..(IF StaleArgs THEN Len(queue) + 1 ELSE Len(queue))

Call(label, a, id) ==
  /\ pc = "idle"
  /\ calls < MaxCalls
  /\ calls' = calls + 1
  /\ pc' = label
  /\ arg' = a
  /\ afterId' = id
  /\ UNCHANGED <<queue, qvers, nextId, srvUp, conn, statQvers, lastInsertId,
                 lastInsertPos, lastInsertQvers, drops>>

CallInsert == \E pos \in Positions : Call("ins_add", pos, 0)

\* insertAfterId(), lines 736-739: id 0 is insert(uri, 0, meta).
CallInsertAfterId ==
  \/ Call("ins_add", 0, 0)
  \/ \E id \in KnownIds : Call("iai_status", 0, id)

CallDeleteId == \E id \in KnownIds : Call("del", id, 0)

-----------------------------------------------------------------------------
(* The environment.                                                        *)

\* MPD closes the connection (timeout, restart of the network).
Drop ==
  /\ conn = "live"
  /\ drops < MaxDrops
  /\ conn' = "dead"
  /\ drops' = drops + 1
  /\ UNCHANGED <<queue, qvers, nextId, srvUp, statQvers, lastInsertId,
                 lastInsertPos, lastInsertQvers, pc, arg, afterId, calls>>

\* MPD goes away (its queue survives in its state file) and comes back.
ServerDown ==
  /\ srvUp
  /\ drops < MaxDrops
  /\ srvUp' = FALSE
  /\ conn' = IF conn = "live" THEN "dead" ELSE conn
  /\ drops' = drops + 1
  /\ UNCHANGED <<queue, qvers, nextId, statQvers, lastInsertId, lastInsertPos,
                 lastInsertQvers, pc, arg, afterId, calls>>

ServerUp ==
  /\ ~srvUp
  /\ srvUp' = TRUE
  /\ UNCHANGED <<queue, qvers, nextId, conn, statQvers, lastInsertId,
                 lastInsertPos, lastInsertQvers, pc, arg, afterId, calls,
                 drops>>

\* Another MPD client adds or deletes a song.
ExtAdd ==
  /\ External
  /\ nextId <= MaxIds
  /\ \E pos \in 0..Len(queue) :
       queue' = AddAt(queue, pos, nextId)
  /\ nextId' = nextId + 1
  /\ qvers' = qvers + 1
  /\ UNCHANGED <<srvUp, conn, statQvers, lastInsertId, lastInsertPos,
                 lastInsertQvers, pc, arg, afterId, calls, drops>>

ExtDelete ==
  /\ External
  /\ \E i \in 1..Len(queue) : queue' = RemoveAt(queue, i)
  /\ qvers' = qvers + 1
  /\ UNCHANGED <<nextId, srvUp, conn, statQvers, lastInsertId, lastInsertPos,
                 lastInsertQvers, pc, arg, afterId, calls, drops>>

-----------------------------------------------------------------------------
(* MPDCli(): the constructor opened the connection and read the status,   *)
(* or could not connect.  The m_lastinsert* members start unset.           *)
Init ==
  /\ queue = InitQueue
  /\ qvers = 1
  /\ nextId = Len(InitQueue) + 1
  /\ srvUp = TRUE
  /\ conn \in {"live", "null"}
  /\ statQvers = IF conn = "live" THEN qvers ELSE 0
  /\ lastInsertId = NoId
  /\ lastInsertPos = -1
  /\ lastInsertQvers = 0
  /\ pc = "idle"
  /\ arg = 0
  /\ afterId = 0
  /\ calls = 0
  /\ drops = 0

Worker == InsAdd \/ InsTag \/ InsStatus \/ IaiStatus \/ IaiScan \/ Del

Next ==
  \/ Worker \/ Poll
  \/ CallInsert \/ CallInsertAfterId \/ CallDeleteId
  \/ Drop \/ ServerDown \/ ServerUp \/ ExtAdd \/ ExtDelete

\* The worker finishes a call it has started, and the event loop keeps
\* calling updStatus() while the worker is idle.
Fairness == WF_vars(Worker) /\ WF_vars(Poll)

Spec == Init /\ [][Next]_vars /\ Fairness

-----------------------------------------------------------------------------
TypeOK ==
  /\ queue \in Seq(Ids)
  /\ qvers \in Nat
  /\ nextId \in Ids
  /\ srvUp \in BOOLEAN
  /\ conn \in ConnStates
  /\ statQvers \in Nat
  /\ lastInsertId \in Ids \cup {NoId}
  /\ lastInsertPos \in Int
  /\ lastInsertQvers \in Nat
  /\ pc \in Labels
  /\ arg \in Int
  /\ afterId \in Nat
  /\ calls \in 0..MaxCalls
  /\ drops \in Nat

(* insertAfterId's fast path (lines 743-745) takes m_lastinsertpos + 1 as *)
(* the place after `id` without looking at the queue, trusting that an     *)
(* unchanged m_stat.qvers means the queue has not moved since insert()     *)
(* recorded it.  Whenever the fast path is taken, the song at that         *)
(* position is the predecessor the caller asked for.                       *)
FastPathSound ==
  [][ (pc = "iai_status" /\ pc' = "ins_add")
        => arg' \in 1..Len(queue) /\ queue[arg'] = afterId ]_vars

(* spec.md: insertion returns the backend-assigned id of the queue item   *)
(* it adds, and the retry policy retries "the same call".  One insert()   *)
(* puts at most one song into MPD's queue, however RETRY_CMD got through   *)
(* the add (lines 714-720).                                                *)
OneSongPerInsert ==
  [][ pc = "ins_add" /\ pc' # "ins_add" => Len(queue') <= Len(queue) + 1 ]_vars

(* The periodic updStatus() reopens whatever connection was lost, so once *)
(* the environment settles with MPD up, m_stat.qvers is MPD's version for  *)
(* good.                                                                   *)
StatusCatchesUp ==
  <>[](srvUp => (conn = "live" /\ statQvers = qvers))
=============================================================================

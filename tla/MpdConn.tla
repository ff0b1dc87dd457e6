------------------------------ MODULE MpdConn ------------------------------
(***************************************************************************)
(* The connection MPDCli keeps to MPD (m_conn) and the two ways it is      *)
(* re-established: the RETRY_CMD macro wrapped around every command, and   *)
(* the reconnect inside updStatus().  Pure operators: the modules of       *)
(* MPDCli apply them to their own variables.                               *)
(*                                                                         *)
(* A connection is in one of four states:                                  *)
(*   "null"  m_conn == nullptr (openconn failed, or never opened);          *)
(*   "live"  open and usable;                                              *)
(*   "dead"  the server closed it: the next command fails with             *)
(*           MPD_ERROR_CLOSED;                                             *)
(*   "err"   the server rejected a command (MPD_ERROR_SERVER).  The code   *)
(*           never calls mpd_connection_clear_error(), so libmpdclient     *)
(*           refuses every later command on it until it is reopened.       *)
(***************************************************************************)
EXTENDS Naturals

ConnStates == {"null", "live", "dead", "err"}

\* openconn(): closeconn(), then mpd_connection_new().  It yields a usable
\* connection iff the server accepts it; otherwise m_conn is left null.
OpenConn(up) == IF up THEN "live" ELSE "null"

(***************************************************************************)
(* One way through RETRY_CMD(CMD, ERROR) (and RETRY_CMD_WITH_SLEEP, whose  *)
(* sleep(1) only widens the window in which other actors run):             *)
(*   execs   how many times the server executed CMD (0, 1 or 2);          *)
(*   conn    m_conn afterwards;                                            *)
(*   replied whether the answer to the last execution was read.  When it   *)
(*           was, the macro's outcome is that answer; when it was not, or  *)
(*           CMD never ran, the macro returns ERROR;                       *)
(*   breaks  how many connections broke, or failed to open, on the way.    *)
(* A server-side rejection of the first execution is an answer: showError  *)
(* sees MPD_ERROR_SERVER and returns false, so CMD is not retried.  A      *)
(* break after the server executed CMD and before its answer was read     *)
(* looks to the code like a break before execution: showError reopens and  *)
(* CMD is sent again.                                                      *)
(***************************************************************************)
Path(e, c, r, b) == [execs |-> e, conn |-> c, replied |-> r, breaks |-> b]

\* The second attempt, after showError() reopened a connection on which e
\* executions had already happened and b breaks: answered, broken after
\* execution, or broken before it (i == 1: ERROR either way).
SecondAttempt(e, b) ==
  {Path(e + 1, "live", TRUE, b),
   Path(e + 1, "dead", FALSE, b + 1),
   Path(e, "dead", FALSE, b + 1)}

\* Every way through the macro from connection state conn, with the server
\* up or not.  openconn() starts with closeconn(), so a reopen that fails
\* (the server is gone, or does not answer within m_timeoutms) leaves
\* m_conn null.
AllRetryPaths(conn, up) ==
  CASE conn = "null" -> {Path(0, "null", FALSE, 0)}          \* !ok()
    [] conn = "err"  -> {Path(0, "err", FALSE, 0)}           \* refused locally
    [] conn = "live" ->
         {Path(1, "live", TRUE, 0),
          Path(1, "null", FALSE, 1)}      \* answer lost, the reopen fails
         \cup (IF up THEN SecondAttempt(1, 1) ELSE {})
    [] conn = "dead" ->
         \* the first attempt fails with MPD_ERROR_CLOSED before reaching
         \* MPD; showError() reopens
         IF up THEN SecondAttempt(0, 0) \cup {Path(0, "null", FALSE, 1)}
               ELSE {Path(0, "null", FALSE, 0)}

\* The paths with at most `budget` breaks: what the environment may still
\* break of the connection (0 over a reliable network).
RetryPaths(conn, up, budget) ==
  {p \in AllRetryPaths(conn, up) : p.breaks <= budget}

\* The connection after a command that MPD rejected.
AfterReject(path) == IF path.replied THEN "err" ELSE path.conn

(***************************************************************************)
(* updStatus(), lines 184-202: the connection and whether the status was   *)
(* read.  With no connection it opens one first.  When mpd_run_status      *)
(* fails it reopens and asks again, but then returns false whatever the    *)
(* second answer was, so m_stat is left as it was.                         *)
(***************************************************************************)
StatusOutcome(c, ok) == [conn |-> c, ok |-> ok]

\* Variant that gives up when m_conn is null instead of opening one.
UpdStatusOutcomesNoOpen(conn, up) ==
  IF conn = "live" THEN {StatusOutcome("live", TRUE)}
  ELSE {StatusOutcome(IF conn = "null" THEN "null" ELSE OpenConn(up), FALSE)}

UpdStatusOutcomes(conn, up) ==
  CASE conn = "null" ->
         IF up THEN {StatusOutcome("live", TRUE)}
               ELSE {StatusOutcome("null", FALSE)}
    [] conn = "live" ->
         {StatusOutcome("live", TRUE)}
    [] conn \in {"dead", "err"} ->
         {StatusOutcome(OpenConn(up), FALSE)}
=============================================================================

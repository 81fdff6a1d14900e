------------------------ MODULE RealtimeNotifications -----------------------
(***************************************************************************)
(* How the unread badge of an open page is kept right: the fan-out log     *)
(* (src/src/notification-fanout.mjs) that the writes of every server       *)
(* process fill through two triggers, and the sockets of each process      *)
(* (src/src/realtime-notifications.mjs), which polls that log.             *)
(*                                                                         *)
(* A process drops the triggers and makes them again when it starts, in    *)
(* statements of their own.  Its cursor is in memory.  A socket is         *)
(* admitted, and asked again later whether its session still stands, after *)
(* an answer that was true when it was given.                              *)
(*                                                                         *)
(* Time is counted in heartbeats.  Rows are pruned by age, ten minutes     *)
(* against a poll of 0.4 seconds: here, only once every process that polls *)
(* has read them.                                                          *)
(***************************************************************************)
EXTENDS Naturals, FiniteSets

CONSTANTS
  Owners,      \* users with an inbox
  Processes,   \* server processes on the same database
  Sockets,     \* connections of browsers
  PerTick,     \* maxPerTick: rows read in one poll
  PerUser,     \* realtimeMaxConnectionsPerUser
  Overall,     \* realtimeMaxConnections
  Beats,       \* heartbeats between two questions about a session
  MaxRow,      \* bound: rows the fan-out log ever has
  MaxBoots     \* bound: times a process starts

ASSUME RealtimeAssumption == {PerTick, PerUser, Overall, Beats} \subseteq Nat \ {0}

VARIABLES
  unread,      \* notifications with read_at NULL, by user
  read,        \* the others
  triggers,    \* whether the triggers on notifications exist
  rows,        \* notification_fanout: user by id
  lastId,      \* the highest id given, sqlite_sequence
  run,         \* "down", "booting", "up" or "stopped", by process
  cursor,      \* the last row a process has read
  pending,     \* pendingUsers: users whose sockets are to be told
  socket,      \* the connection
  session,     \* whether the session the connection came with still stands
  boots,
  missed       \* history: users with a change no row tells of

realVars == <<unread, read, triggers, rows, lastId, run, cursor, pending, socket, session, boots, missed>>
inboxVars == <<unread, read, rows, lastId, missed>>

NoSocket == [st |-> "closed"]
Of(p) == {s \in Sockets : socket[s].st = "open" /\ socket[s].at = p}
OfUser(u, p) == {s \in Of(p) : socket[s].user = u}
Latest == IF DOMAIN rows = {} THEN 0 ELSE CHOOSE i \in DOMAIN rows : \A k \in DOMAIN rows : k <= i
Since(c) == {i \in DOMAIN rows : i > c}

RealInit ==
  /\ unread = [u \in Owners |-> 0] /\ read = [u \in Owners |-> 0] /\ triggers = FALSE
  /\ rows = [i \in {} |-> {}] /\ lastId = 0
  /\ run = [p \in Processes |-> "down"] /\ cursor = [p \in Processes |-> 0]
  /\ pending = [p \in Processes |-> {}]
  /\ socket = [s \in Sockets |-> NoSocket] /\ session = [s \in Sockets |-> TRUE]
  /\ boots = 0 /\ missed = {}

-----------------------------------------------------------------------------
(* The log *)

\* As below, had the table no AUTOINCREMENT: the id after the highest there is.
NextIdReused == Latest + 1

\* AUTOINCREMENT: an id is never given twice, whatever has been pruned.
NextId == lastId + 1

\* n rows about user u, if the triggers are there to write them.
Logged(u, n) ==
  IF triggers
  THEN /\ NextId + n - 1 <= MaxRow
       /\ rows' = [i \in DOMAIN rows \cup NextId .. NextId + n - 1 |-> IF i \in DOMAIN rows THEN rows[i] ELSE u]
       /\ lastId' = NextId + n - 1
       /\ missed' = missed \ {u}
  ELSE UNCHANGED <<rows, lastId>> /\ missed' = missed \cup {u}

\* createNotification, in any process.
Created(u) ==
  /\ unread[u] + read[u] < MaxRow /\ unread' = [unread EXCEPT ![u] = @ + 1] /\ Logged(u, 1)
  /\ UNCHANGED <<read, triggers, run, cursor, pending, socket, session, boots>>

\* setNotificationRead, one way and the other; a change that changes nothing writes no row.
MarkedRead(u) ==
  /\ unread[u] > 0 /\ unread' = [unread EXCEPT ![u] = @ - 1] /\ read' = [read EXCEPT ![u] = @ + 1]
  /\ Logged(u, 1)
  /\ UNCHANGED <<triggers, run, cursor, pending, socket, session, boots>>

MarkedUnread(u) ==
  /\ read[u] > 0 /\ read' = [read EXCEPT ![u] = @ - 1] /\ unread' = [unread EXCEPT ![u] = @ + 1]
  /\ Logged(u, 1)
  /\ UNCHANGED <<triggers, run, cursor, pending, socket, session, boots>>

\* markAllNotificationsRead: a row for each.
AllMarkedRead(u) ==
  /\ unread[u] > 0 /\ read' = [read EXCEPT ![u] = @ + unread[u]] /\ unread' = [unread EXCEPT ![u] = 0]
  /\ Logged(u, unread[u])
  /\ UNCHANGED <<triggers, run, cursor, pending, socket, session, boots>>

\* pruneFanout.
Prune ==
  /\ \E n \in DOMAIN rows :
       /\ \A p \in Processes : run[p] = "up" => n <= cursor[p]
       /\ rows' = [i \in {k \in DOMAIN rows : k > n} |-> rows[i]]
  /\ UNCHANGED <<unread, read, triggers, lastId, run, cursor, pending, socket, session, boots, missed>>

-----------------------------------------------------------------------------
(* A process *)

\* migrateNotificationFanout drops the triggers ...
BootDropsTriggers(p) ==
  /\ run[p] = "down" /\ boots < MaxBoots
  /\ run' = [run EXCEPT ![p] = "booting"] /\ triggers' = FALSE /\ boots' = boots + 1
  /\ UNCHANGED <<unread, read, rows, lastId, cursor, pending, socket, session, missed>>

\* ... and makes them; the reader starts from the newest row.
BootMakesTriggers(p) ==
  /\ run[p] = "booting"
  /\ run' = [run EXCEPT ![p] = "up"] /\ triggers' = TRUE /\ cursor' = [cursor EXCEPT ![p] = Latest]
  /\ UNCHANGED <<unread, read, rows, lastId, pending, socket, session, boots, missed>>

\* tick: the next rows, in order, and their users are queued.
ReaderTick(p) ==
  /\ run[p] = "up" /\ Since(cursor[p]) # {}
  /\ LET batch == {i \in Since(cursor[p]) : Cardinality({k \in Since(cursor[p]) : k <= i}) <= PerTick}
     IN /\ cursor' = [cursor EXCEPT ![p] = CHOOSE i \in batch : \A k \in batch : k <= i]
        /\ pending' = [pending EXCEPT ![p] = @ \cup {rows[i] : i \in batch}]
  /\ UNCHANGED <<unread, read, triggers, rows, lastId, run, socket, session, boots, missed>>

\* flushPending, a microtask: the count is read now.
FlushPending(p) ==
  /\ pending[p] # {}
  /\ socket' = [s \in Sockets |-> IF s \in Of(p) /\ socket[s].user \in pending[p]
                                  THEN [socket[s] EXCEPT !.shown = unread[socket[s].user]] ELSE socket[s]]
  /\ pending' = [pending EXCEPT ![p] = {}]
  /\ UNCHANGED <<unread, read, triggers, rows, lastId, run, cursor, session, boots, missed>>

\* stop: every socket is closed; one whose question is still out is not among them.
StopServer(p) ==
  /\ run[p] = "up" /\ pending[p] = {}
  /\ run' = [run EXCEPT ![p] = "stopped"]
  /\ socket' = [s \in Sockets |-> IF s \in Of(p) THEN NoSocket ELSE socket[s]]
  /\ UNCHANGED <<unread, read, triggers, rows, lastId, cursor, pending, session, boots, missed>>

\* The process ends, at any point, and its connections with it.
Die(p) ==
  /\ run[p] # "down"
  /\ run' = [run EXCEPT ![p] = "down"] /\ cursor' = [cursor EXCEPT ![p] = 0]
  /\ pending' = [pending EXCEPT ![p] = {}]
  /\ socket' = [s \in Sockets |-> IF socket[s] # NoSocket /\ socket[s].at = p THEN NoSocket ELSE socket[s]]
  /\ UNCHANGED <<unread, read, triggers, rows, lastId, session, boots, missed>>

-----------------------------------------------------------------------------
(* The sockets of a process                                                *)

\* onUpgrade asks whether the session stands; the answer takes its time.
Upgrade(s, u, p) ==
  /\ run[p] = "up" /\ socket[s] = NoSocket
  /\ socket' = [socket EXCEPT ![s] = [st |-> "asking", user |-> u, at |-> p, answer |-> session[s]]]
  /\ UNCHANGED <<unread, read, triggers, rows, lastId, run, cursor, pending, session, boots, missed>>

\* The limits are read after the answer, and nothing else happens before the socket is counted.
Room(u, p) == Cardinality(OfUser(u, p)) < PerUser /\ Cardinality(Of(p)) < Overall

\* Rejected, or registered and given a snapshot; whether the server has stopped is not asked again.
Admit(s) ==
  /\ socket[s].st = "asking"
  /\ socket' = [socket EXCEPT ![s] =
       IF socket[s].answer /\ Room(socket[s].user, socket[s].at)
       THEN [st |-> "open", user |-> socket[s].user, at |-> socket[s].at, shown |-> unread[socket[s].user],
             pong |-> TRUE, due |-> Beats, check |-> "no"]
       ELSE NoSocket]
  /\ UNCHANGED <<unread, read, triggers, rows, lastId, run, cursor, pending, session, boots, missed>>

\* As below, had the heartbeat left the session to the next upgrade.
AfterBeatPingOnly(s) == IF socket[s].pong THEN [socket[s] EXCEPT !.pong = FALSE] ELSE NoSocket

\* revalidate, unless a question about this client is out already.
AfterBeat(s) ==
  LET c == socket[s]
      left == IF c.due = 0 THEN 0 ELSE c.due - 1
  IN IF ~c.pong THEN NoSocket
     ELSE [c EXCEPT !.pong = FALSE, !.due = left,
             !.check = IF left = 0 /\ @ = "no" THEN IF session[s] THEN "stands" ELSE "ended" ELSE @]

\* heartbeat: a client that has not answered the last one is closed.
Heartbeat(p) ==
  /\ run[p] = "up" /\ Of(p) # {}
  /\ socket' = [s \in Sockets |-> IF s \in Of(p) THEN AfterBeat(s) ELSE socket[s]]
  /\ UNCHANGED <<unread, read, triggers, rows, lastId, run, cursor, pending, session, boots, missed>>

\* The answer to the question comes, or fails and closes the socket as well.
Revalidated(s) ==
  /\ socket[s].st = "open" /\ socket[s].check # "no"
  /\ \/ socket' = [socket EXCEPT ![s] = NoSocket]
     \/ socket[s].check = "stands" /\ socket' = [socket EXCEPT ![s].check = "no", ![s].due = Beats]
  /\ UNCHANGED <<unread, read, triggers, rows, lastId, run, cursor, pending, session, boots, missed>>

Pong(s) ==
  /\ socket[s].st = "open" /\ ~socket[s].pong /\ socket' = [socket EXCEPT ![s].pong = TRUE]
  /\ UNCHANGED <<unread, read, triggers, rows, lastId, run, cursor, pending, session, boots, missed>>

\* A text message: a resync is answered with a snapshot.
Resync(s) ==
  /\ socket[s].st = "open" /\ socket' = [socket EXCEPT ![s].shown = unread[socket[s].user]]
  /\ UNCHANGED <<unread, read, triggers, rows, lastId, run, cursor, pending, session, boots, missed>>

Hangup(s) ==
  /\ socket[s].st = "open" /\ socket' = [socket EXCEPT ![s] = NoSocket]
  /\ UNCHANGED <<unread, read, triggers, rows, lastId, run, cursor, pending, session, boots, missed>>

\* The session ends elsewhere: signed out, revoked, expired.
SessionEnds(s) ==
  /\ session[s] /\ session' = [session EXCEPT ![s] = FALSE]
  /\ UNCHANGED <<unread, read, triggers, rows, lastId, run, cursor, pending, socket, boots, missed>>

InboxNext == \E u \in Owners : Created(u) \/ MarkedRead(u) \/ MarkedUnread(u) \/ AllMarkedRead(u)
ServerNext ==
  \/ Prune
  \/ \E p \in Processes : BootDropsTriggers(p) \/ BootMakesTriggers(p) \/ ReaderTick(p) \/ FlushPending(p)
                          \/ StopServer(p) \/ Die(p) \/ Heartbeat(p)
SocketNext ==
  \E s \in Sockets :
    \/ \E u \in Owners, p \in Processes : Upgrade(s, u, p)
    \/ Admit(s) \/ Revalidated(s) \/ Pong(s) \/ Resync(s) \/ Hangup(s) \/ SessionEnds(s)
RealNext == InboxNext \/ ServerNext \/ SocketNext

\* setInterval keeps calling tick and heartbeat, a microtask runs, and a question is answered or fails.
RealFairness ==
  /\ \A p \in Processes : WF_realVars(ReaderTick(p)) /\ WF_realVars(FlushPending(p)) /\ WF_realVars(Heartbeat(p))
  /\ \A s \in Sockets : WF_realVars(Admit(s)) /\ WF_realVars(Revalidated(s))

RealSpec == RealInit /\ [][RealNext]_realVars /\ RealFairness

-----------------------------------------------------------------------------
(* Properties *)

\* No socket of a running process shows a count that the inbox no longer has, once the
\* process has read the whole log: a row is not skipped because of what was pruned, of where
\* the cursor started, or of what was queued while an earlier count was being sent.  Left out
\* is a user whose change was made while a starting process had the triggers dropped.
BadgeFollowsInbox ==
  \A s \in Sockets :
    socket[s].st = "open" /\ run[socket[s].at] = "up"
      /\ Since(cursor[socket[s].at]) = {} /\ pending[socket[s].at] = {}
      /\ socket[s].user \notin missed
    => socket[s].shown = unread[socket[s].user]

\* A session that has ended does not keep its socket: the heartbeat asks again, whether or not
\* the client answers, and the socket goes.  Sockets of a process that has stopped are left out:
\* one admitted after the stop is asked about by nobody.
EndedSessionLosesSocket ==
  \A s \in Sockets : (socket[s].st = "open" /\ run[socket[s].at] = "up" /\ ~session[s])
                       ~> (socket[s].st # "open" \/ run[socket[s].at] # "up")

=============================================================================

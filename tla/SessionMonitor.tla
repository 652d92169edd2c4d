--------------------------- MODULE SessionMonitor ---------------------------
(***************************************************************************)
(* The liveness table of the dashboard (build_session_liveness) against    *)
(* the session it reports on.  The table is put together from three looks  *)
(* under three locks (sessions, sockets, the clock) while participants     *)
(* come, go and send, and the cleanup task ends the session by deadlines   *)
(* of its own.                                                             *)
(***************************************************************************)
EXTENDS Integers, FiniteSets

CONSTANTS LiveAge, DelayedAge,                    \* 5 and 15 seconds
          WaitingTime, Lifetime, IdleTime, Grace, \* the session's limits
          MaxNow                                  \* bound: time
ASSUME MonitorAssumption ==
    /\ {WaitingTime, Lifetime, IdleTime, Grace, MaxNow} \subseteq Nat \ {0}
    /\ LiveAge \in Nat /\ DelayedAge \in Nat /\ LiveAge <= DelayedAge

Seat == {"A", "B"}
NoTime == 0   \* None; the clock starts at 1

VARIABLES now,
          session,   \* the LiveSession in memory
          links,     \* game_connections: last message and last heartbeat
          look       \* the table being made: its step and what it has read
monitorVars == <<now, session, links, look>>

NoLink == [open |-> FALSE, message |-> NoTime, heartbeat |-> NoTime]
Empty == [source |-> "none", connected |-> FALSE, reconnect |-> NoTime]
MonitorInit ==
    /\ now = 1 /\ links = [r \in Seat |-> NoLink]
    /\ session = [life |-> "forming", waiting |-> 1 + WaitingTime, lifetime |-> 1 + Lifetime, idle |-> NoTime,
                  seats |-> [r \in Seat |-> IF r = "A" THEN [Empty EXCEPT !.source = "browser"] ELSE Empty]]
    /\ look = [step |-> "idle", session |-> session, links |-> links, at |-> 1]

-----------------------------------------------------------------------------
(* The session. *)

TimePasses == now < MaxNow /\ now' = now + 1 /\ UNCHANGED <<session, links, look>>
\* A second browser joins, or an agent, which needs no socket.
JoinSeat(source) ==
    /\ session.life = "forming" /\ session.seats["B"].source = "none"
    /\ session' = [session EXCEPT !.seats["B"] = [Empty EXCEPT !.source = source, !.connected = (source = "agent")]]
    /\ UNCHANGED <<now, links, look>>
\* register_connection with fresh timestamps, then the seat in memory.
OpenLink(r) ==
    /\ session.seats[r].source = "browser" /\ ~links[r].open
    /\ links' = [links EXCEPT ![r] = [open |-> TRUE, message |-> now, heartbeat |-> NoTime]]
    /\ UNCHANGED <<now, session, look>>
SeatConnected(r) ==
    /\ links[r].open /\ ~session.seats[r].connected
    /\ session' = [session EXCEPT !.seats[r].connected = TRUE, !.seats[r].reconnect = NoTime]
    /\ UNCHANGED <<now, links, look>>
\* maybe_start_session: both seats are filled and connected.
StartSession ==
    /\ session.life = "forming" /\ \A r \in Seat : session.seats[r].connected
    /\ session' = [session EXCEPT !.life = "running", !.idle = now + IdleTime]
    /\ UNCHANGED <<now, links, look>>
\* touch_heartbeat; touch_message, and an accepted action or message defers the
\* idle deadline (touch_session_activity).
Heartbeat(r) ==
    /\ links[r].open /\ links' = [links EXCEPT ![r].message = now, ![r].heartbeat = now]
    /\ UNCHANGED <<now, session, look>>
SendMessage(r) ==
    /\ links[r].open /\ links' = [links EXCEPT ![r].message = now]
    /\ session' = IF session.life = "running" THEN [session EXCEPT !.idle = now + IdleTime] ELSE session
    /\ UNCHANGED <<now, look>>
\* unregister_connection, then the seat in memory.
CloseLink(r) ==
    /\ links[r].open /\ links' = [links EXCEPT ![r] = NoLink] /\ UNCHANGED <<now, session, look>>
SeatLost(r) ==
    /\ session.seats[r].source = "browser" /\ session.seats[r].connected /\ ~links[r].open
    /\ session' = [session EXCEPT !.seats[r].connected = FALSE, !.seats[r].reconnect = now + Grace]
    /\ UNCHANGED <<now, links, look>>

\* cleanup_transient_rooms: whether a session in state m is ended at time t.
Filled(m) == {r \in Seat : m.seats[r].source # "none"}
Away(m) == {r \in Filled(m) : ~m.seats[r].connected}
Reached(deadline, t) == deadline # NoTime /\ deadline <= t
Expires(m, t) ==
    /\ m.life # "ended"
    /\ \/ Reached(m.lifetime, t)
       \/ m.life = "forming" /\ Reached(m.waiting, t)
       \/ \E r \in Away(m) : Reached(m.seats[r].reconnect, t)
       \/ m.life = "running" /\ Reached(m.idle, t)
Expire ==
    /\ Expires(session, now) /\ session' = [session EXCEPT !.life = "ended"]
    /\ UNCHANGED <<now, links, look>>

-----------------------------------------------------------------------------
(* build_session_liveness: three looks. *)

LookAtSessions ==
    /\ look.step = "idle" /\ look' = [look EXCEPT !.step = "sessions", !.session = session]
    /\ UNCHANGED <<now, session, links>>
LookAtLinks ==
    /\ look.step = "sessions" /\ look' = [look EXCEPT !.step = "links", !.links = links]
    /\ UNCHANGED <<now, session, links>>
Show ==
    /\ look.step = "links" /\ look' = [look EXCEPT !.step = "shown", !.at = now]
    /\ UNCHANGED <<now, session, links>>

\* The deadlines offered to retain_absolute_deadline.  Of those who are away
\* the one with the smallest Option counts, and None is the smallest.
SmallestReconnect(m) ==
    {t \in {m.seats[r].reconnect : r \in Away(m)} :
        t # NoTime /\ \A r \in Away(m) : t <= m.seats[r].reconnect}
MutCandidates(m) ==
    IF m.life = "ended" THEN {}
    ELSE {m.lifetime} \cup {m.waiting} \cup SmallestReconnect(m) \cup ({m.idle} \ {NoTime})
Candidates(m) ==
    IF m.life = "ended" THEN {}
    ELSE {m.lifetime} \cup (IF m.life = "forming" THEN {m.waiting} ELSE {m.idle} \ {NoTime}) \cup SmallestReconnect(m)
\* lifecycle_deadline_at, as a set: empty for none.
ShownDeadline(m) == {d \in Candidates(m) : \A e \in Candidates(m) : d <= e}

\* game_connection_health and the health of a seat.
game_connection_health(one, t) ==
    LET heard == IF one.heartbeat # NoTime THEN one.heartbeat ELSE one.message IN
    IF t - heard <= LiveAge THEN "live" ELSE IF t - heard <= DelayedAge THEN "delayed" ELSE "stale"
SeatHealth(r) ==
    IF look.links[r].open THEN game_connection_health(look.links[r], look.at)
    ELSE IF look.session.life = "forming" THEN "waiting" ELSE "disconnected"
Browsers == {r \in Seat : look.session.seats[r].source = "browser"}
SomeBrowser(health) == \E r \in Browsers : SeatHealth(r) = health
MutShownHealth ==
    CASE look.session.life = "ended" -> "ended"
      [] look.session.life # "ended" /\ SomeBrowser("live") -> "live"
      [] OTHER -> "disconnected"
ShownHealth ==
    IF look.session.life = "ended" THEN "ended"
    ELSE IF SomeBrowser("stale") THEN "stale"
    ELSE IF SomeBrowser("delayed") THEN "delayed"
    ELSE IF look.session.life = "running" /\ SomeBrowser("disconnected") THEN "disconnected"
    ELSE IF SomeBrowser("live") THEN "live"
    ELSE IF look.session.life = "forming" THEN "waiting" ELSE "disconnected"

\* One table per behaviour, followed until it is shown.  Once the session has
\* been read only its sockets and the clock still reach the table.
MonitorNext ==
    \/ /\ look.step = "idle"
       /\ \/ StartSession \/ Expire \/ LookAtSessions
          \/ \E source \in {"browser", "agent"} : JoinSeat(source)
          \/ \E r \in Seat : SeatConnected(r) \/ SendMessage(r) \/ SeatLost(r)
    \/ /\ look.step # "shown"
       /\ \/ TimePasses \/ LookAtLinks \/ Show
          \/ \E r \in Seat : OpenLink(r) \/ Heartbeat(r) \/ CloseLink(r)

MonitorSpec == MonitorInit /\ [][MonitorNext]_monitorVars

-----------------------------------------------------------------------------
(* Properties. *)

\* The table and the cleanup task agree on when a session ends if nothing else
\* happens to it: at the deadline shown the cleanup ends it and, unless somebody
\* who has never connected hides a reconnect deadline, not before
\* (build_session_liveness and cleanup_transient_rooms state the rule twice).
DeadlineIsReal ==
    look.step = "shown" =>
        LET m == look.session IN
        /\ (m.life = "ended") = (ShownDeadline(m) = {})
        /\ \A d \in ShownDeadline(m) :
              /\ Expires(m, d)
              /\ (\A r \in Away(m) : m.seats[r].reconnect # NoTime) => ~Expires(m, d - 1)

\* A running session shown live has a socket of every browser participant that
\* was heard within LiveAge of the table: nobody who has gone is hidden by a
\* partner who has not, although the session, the sockets and the clock are read
\* at different times (the order of the bands in build_session_liveness).
LiveMeansEverybody ==
    look.step = "shown" /\ look.session.life = "running" /\ ShownHealth = "live" =>
        \A r \in Browsers : look.links[r].open /\ look.at - look.links[r].message <= LiveAge

\* docs/data-and-monitoring.md:61-62: "`live` means a heartbeat or game message
\* arrived within five seconds".
HeardIsLive ==
    look.step = "shown" =>
        \A r \in Browsers :
            look.links[r].open /\ look.at - look.links[r].message <= LiveAge => SeatHealth(r) = "live"

\* docs/data-and-monitoring.md:73-75: the table shows "the earliest applicable
\* lifecycle deadline".
EarliestIsShown ==
    look.step = "shown" => \A d \in ShownDeadline(look.session) : ~Expires(look.session, d - 1)

\* The liveness table neither hides who has gone nor names a deadline that the
\* cleanup does not keep.
TableIsTrue == DeadlineIsReal /\ LiveMeansEverybody
=============================================================================

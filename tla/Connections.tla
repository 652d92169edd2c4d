---------------------------- MODULE Connections -----------------------------
(***************************************************************************)
(* The game sockets of one session: registration by generation, the        *)
(* connected flags, the pause, the reconnect deadlines and the timers and  *)
(* the sweep that act on them.  LiveSession folds the opening and the      *)
(* closing of a socket into few steps; here each await on the registry and *)
(* on memory is a step of its own, and a role may open a new socket while  *)
(* older ones are still being opened or closed.                            *)
(*                                                                         *)
(* The grace period is positive (LiveSession has the zero grace period)    *)
(* and the store does not fail.                                            *)
(***************************************************************************)
EXTENDS Naturals, FiniteSets

CONSTANTS
    Role,            \* the human roles; an agent is connected from the start
    MaxGenerations   \* bound: connections each role opens

ASSUME RoleAssumption == IsFiniteSet(Role)
ASSUME GenerationsAssumption == MaxGenerations \in [Role -> Nat]

Generation(r) == 1..MaxGenerations[r]
Conn == UNION {{r} \X Generation(r) : r \in Role}

\* Tasks that may run expire_live_session("reconnect_timeout").
Sweeper == <<"sweep", 0>>
Expirer == Conn \cup {Sweeper}

VARIABLES
    socket,     \* progress of websocket_loop, for each connection
    owner,      \* game_connections: the registered generation of a role, or 0
    signalled,  \* connections whose shutdown channel has a message or is closed
    session,    \* the entry of MemoryState.sessions
    elapsed,    \* connections whose reconnect deadline has passed
    expiry      \* progress of the reconnect timers and of the sweep

vars == <<socket, owner, signalled, session, elapsed, expiry>>

Outcome == {"connection_lost", "partner_left"}
NoResults == [r \in {} |-> "connection_lost"]
Idle == [pc |-> "idle", results |-> NoResults]

(***************************************************************************)
(* deadline[r] is the generation whose closing set reconnect_deadline_at,  *)
(* or 0.  results are the participant results of an end by reconnect       *)
(* timeout, the only end of this module.                                   *)
(***************************************************************************)
Init ==
    /\ socket = [c \in Conn |-> "none"]
    /\ owner = [r \in Role |-> 0]
    /\ signalled = {}
    /\ session = [live |-> TRUE, lifecycle |-> "forming", paused |-> FALSE, connected |-> {},
                  deadline |-> [r \in Role |-> 0], results |-> NoResults]
    /\ elapsed = {}
    /\ expiry = [e \in Expirer |-> Idle]

Goto(c, pc) == socket' = [socket EXCEPT ![c] = pc]

-----------------------------------------------------------------------------
(***************************************************************************)
(* websocket_loop, from the upgrade to the message loop.                   *)
(***************************************************************************)

\* register_connection.  Replacing the control cancels its owner.
Register(r, g) ==
    /\ socket[<<r, g>>] = "none"
    /\ \A h \in 1..(g - 1) : socket[<<r, h>>] # "none"
    /\ session.live
    /\ owner' = [owner EXCEPT ![r] = g]
    /\ signalled' = IF owner[r] = 0 THEN signalled ELSE signalled \cup {<<r, owner[r]>>}
    /\ Goto(<<r, g>>, "registered")
    /\ UNCHANGED <<session, elapsed, expiry>>

MarkConnected(r, g) ==
    /\ socket[<<r, g>>] = "registered"
    /\ LET connected == session.connected \cup {r}
       IN  session' = IF session.live
                      THEN [session EXCEPT !.connected = connected,
                                           !.deadline[r] = 0,
                                           !.paused = @ /\ connected # Role]
                      ELSE session
    /\ Goto(<<r, g>>, "start")
    /\ UNCHANGED <<owner, signalled, elapsed, expiry>>

\* session_has_started, else maybe_start_game.
MaybeStart(r, g) ==
    /\ socket[<<r, g>>] = "start"
    /\ session' = IF session.live /\ session.lifecycle = "forming" /\ session.connected = Role
                  THEN [session EXCEPT !.lifecycle = "running", !.paused = FALSE]
                  ELSE session
    /\ Goto(<<r, g>>, "open")
    /\ UNCHANGED <<owner, signalled, elapsed, expiry>>

-----------------------------------------------------------------------------
(***************************************************************************)
(* websocket_loop, after the message loop.  The client closes, stays       *)
(* silent for five seconds, or the socket has been replaced.               *)
(***************************************************************************)

\* Mutant: the loop does not listen to the shutdown channel.
CloseUnlessReplaced(r, g) ==
    /\ socket[<<r, g>>] = "open" /\ <<r, g>> \notin signalled
    /\ Goto(<<r, g>>, "closing")
    /\ UNCHANGED <<owner, signalled, session, elapsed, expiry>>

Close(r, g) ==
    /\ socket[<<r, g>>] = "open"
    /\ Goto(<<r, g>>, "closing")
    /\ UNCHANGED <<owner, signalled, session, elapsed, expiry>>

\* Mutant: the generation is not compared.
UnregisterAny(r, g) ==
    /\ socket[<<r, g>>] = "closing"
    /\ owner' = [owner EXCEPT ![r] = 0]
    /\ Goto(<<r, g>>, IF owner[r] # 0 THEN "lost" ELSE "gone")
    /\ UNCHANGED <<signalled, session, elapsed, expiry>>

\* unregister_connection.  Only the current generation goes on.
Unregister(r, g) ==
    /\ socket[<<r, g>>] = "closing"
    /\ owner' = IF owner[r] = g THEN [owner EXCEPT ![r] = 0] ELSE owner
    /\ Goto(<<r, g>>, IF owner[r] = g THEN "lost" ELSE "gone")
    /\ UNCHANGED <<signalled, session, elapsed, expiry>>

MarkDisconnected(r, g) ==
    /\ socket[<<r, g>>] = "lost"
    /\ session' = IF session.live
                  THEN [session EXCEPT !.connected = @ \ {r}, !.deadline[r] = g]
                  ELSE session
    /\ Goto(<<r, g>>, "pausing")
    /\ UNCHANGED <<owner, signalled, elapsed, expiry>>

\* Mutant: no timer for a session that has not started.
PauseArmsRunningOnly(r, g) ==
    LET running == session.live /\ session.lifecycle = "running"
    IN  /\ socket[<<r, g>>] = "pausing"
        /\ session' = IF running THEN [session EXCEPT !.paused = TRUE] ELSE session
        /\ expiry' = IF running THEN [expiry EXCEPT ![<<r, g>>].pc = "armed"] ELSE expiry
        /\ Goto(<<r, g>>, "gone")
        /\ UNCHANGED <<owner, signalled, elapsed>>

\* The pause, and the timer the closed socket leaves behind.
Pause(r, g) ==
    /\ socket[<<r, g>>] = "pausing"
    /\ session' = IF session.live /\ session.lifecycle = "running"
                  THEN [session EXCEPT !.paused = TRUE]
                  ELSE session
    /\ expiry' = [expiry EXCEPT ![<<r, g>>].pc = "armed"]
    /\ Goto(<<r, g>>, "gone")
    /\ UNCHANGED <<owner, signalled, elapsed>>

-----------------------------------------------------------------------------
(***************************************************************************)
(* Reconnect deadlines.  The timer of a connection is set by the closing   *)
(* that sets the deadline, a little later: it fires after the deadline.    *)
(***************************************************************************)

\* Mutant: the deadline of a session that has not started never comes.
ElapseRunningOnly(r, g) ==
    /\ <<r, g>> \notin elapsed /\ session.lifecycle = "running"
    /\ session.deadline[r] = g \/ expiry[<<r, g>>].pc = "armed"
    /\ elapsed' = elapsed \cup {<<r, g>>}
    /\ UNCHANGED <<socket, owner, signalled, session, expiry>>

Elapse(r, g) ==
    /\ <<r, g>> \notin elapsed
    /\ session.deadline[r] = g \/ expiry[<<r, g>>].pc = "armed"
    /\ elapsed' = elapsed \cup {<<r, g>>}
    /\ UNCHANGED <<socket, owner, signalled, session, expiry>>

\* The timer looks at the connected flag and not at the deadline.
TimerFires(r, g) ==
    /\ expiry[<<r, g>>].pc = "armed"
    /\ <<r, g>> \in elapsed
    /\ expiry' = [expiry EXCEPT ![<<r, g>>].pc =
                    IF session.live /\ r \notin session.connected THEN "read" ELSE "idle"]
    /\ UNCHANGED <<socket, owner, signalled, session, elapsed>>

Overdue(r) == r \notin session.connected /\ session.deadline[r] # 0 /\ <<r, session.deadline[r]>> \in elapsed

\* cleanup_transient_rooms selects and re-checks a candidate.
SweepPick ==
    /\ expiry[Sweeper].pc = "idle"
    /\ session.live /\ session.lifecycle # "ended"
    /\ \E r \in Role : Overdue(r)
    /\ expiry' = [expiry EXCEPT ![Sweeper].pc = "read"]
    /\ UNCHANGED <<socket, owner, signalled, session, elapsed>>

\* Mutant: only the participants who are gone get a result.
ExpireReadAbsentOnly(e) ==
    /\ expiry[e].pc = "read"
    /\ expiry' = [expiry EXCEPT ![e] =
                    IF session.live /\ session.lifecycle # "ended"
                    THEN [pc |-> "end",
                          results |-> [r \in Role \ session.connected |-> "connection_lost"]]
                    ELSE Idle]
    /\ UNCHANGED <<socket, owner, signalled, session, elapsed>>

\* expire_live_session: the end is built under a read lock,
ExpireRead(e) ==
    /\ expiry[e].pc = "read"
    /\ expiry' = [expiry EXCEPT ![e] =
                    IF session.live /\ session.lifecycle # "ended"
                    THEN [pc |-> "end",
                          results |-> [r \in Role |-> IF r \in session.connected
                                                      THEN "partner_left" ELSE "connection_lost"]]
                    ELSE Idle]
    /\ UNCHANGED <<socket, owner, signalled, session, elapsed>>

\* committed unless another task was first, and written to memory.
ExpireEnd(e) ==
    /\ expiry[e].pc = "end"
    /\ session' = IF session.live /\ session.lifecycle # "ended"
                  THEN [session EXCEPT !.lifecycle = "ended", !.paused = FALSE,
                                       !.results = expiry[e].results]
                  ELSE session
    /\ expiry' = [expiry EXCEPT ![e] =
                    IF e = Sweeper /\ session.live /\ session.lifecycle # "ended"
                    THEN [Idle EXCEPT !.pc = "remove"] ELSE Idle]
    /\ UNCHANGED <<socket, owner, signalled, elapsed>>

\* The candidate terminal_cleanup: everybody has gone for good.
CleanupPick ==
    /\ expiry[Sweeper].pc = "idle"
    /\ session.live /\ session.lifecycle = "ended"
    /\ session.connected = {} /\ \E r \in Role : Overdue(r)
    /\ expiry' = [expiry EXCEPT ![Sweeper].pc = "remove"]
    /\ UNCHANGED <<socket, owner, signalled, session, elapsed>>

\* Removal drops the controls, which closes the shutdown channels.
Remove ==
    /\ expiry[Sweeper].pc = "remove"
    /\ session' = [session EXCEPT !.live = FALSE]
    /\ owner' = [r \in Role |-> 0]
    /\ signalled' = signalled \cup {<<r, owner[r]>> : r \in {q \in Role : owner[q] # 0}}
    /\ expiry' = [expiry EXCEPT ![Sweeper] = Idle]
    /\ UNCHANGED <<socket, elapsed>>

Expired(e) == ExpireRead(e) \/ ExpireEnd(e)

Opening(r, g) == MarkConnected(r, g) \/ MaybeStart(r, g)
Closing(r, g) == Unregister(r, g) \/ MarkDisconnected(r, g) \/ Pause(r, g)

\* Nothing is left to happen: the clients have used up their connections.
Exhausted == \A c \in Conn : socket[c] \in {"open", "gone", "none"} /\ expiry[c].pc = "idle"

Rest == Exhausted /\ expiry[Sweeper].pc = "idle" /\ UNCHANGED vars

Next ==
    \/ \E r \in Role : \E g \in Generation(r) :
         \/ Register(r, g) \/ MarkConnected(r, g) \/ MaybeStart(r, g)
         \/ Close(r, g) \/ Unregister(r, g) \/ MarkDisconnected(r, g) \/ Pause(r, g)
         \/ Elapse(r, g) \/ TimerFires(r, g)
    \/ \E e \in Expirer : ExpireRead(e) \/ ExpireEnd(e)
    \/ SweepPick \/ CleanupPick \/ Remove
    \/ Rest

Spec == Init /\ [][Next]_vars

(***************************************************************************)
(* Tokio polls every task that can run, a cancelled socket leaves its      *)
(* loop, time passes.  Clients owe nothing.                                *)
(***************************************************************************)
Fairness ==
    /\ \A r \in Role : \A g \in Generation(r) :
         /\ WF_vars(Opening(r, g)) /\ WF_vars(Closing(r, g))
         /\ WF_vars(<<r, g>> \in signalled /\ Close(r, g))
         /\ WF_vars(Elapse(r, g)) /\ WF_vars(TimerFires(r, g))
    /\ \A e \in Expirer : WF_vars(Expired(e))
    /\ WF_vars(SweepPick \/ CleanupPick \/ Remove)

FairSpec == Spec /\ Fairness

-----------------------------------------------------------------------------
SocketPc == {"none", "registered", "start", "open", "closing", "lost", "pausing", "gone"}

TypeOK ==
    /\ socket \in [Conn -> SocketPc]
    /\ DOMAIN owner = Role /\ (\A r \in Role : owner[r] \in {0} \cup Generation(r))
    /\ signalled \subseteq Conn
    /\ session \in [live : BOOLEAN, lifecycle : {"forming", "running", "ended"},
                    paused : BOOLEAN, connected : SUBSET Role,
                    deadline : [Role -> {0} \cup UNION {Generation(r) : r \in Role}],
                    results : [Role -> Outcome] \cup {NoResults}]
    /\ elapsed \subseteq Conn
    /\ expiry \in [Expirer -> [pc : {"idle", "armed", "read", "end", "remove"},
                               results : [Role -> Outcome] \cup {NoResults}]]

Newest(r, g) == \A h \in Generation(r) : h > g => socket[<<r, h>>] = "none"

InUse(c) == socket[c] \in {"registered", "start", "open"}

\* However openings and closings of one role interleave, the registry names
\* the newest connection as long as that one is in use, and every older one
\* still in its loop has been told to stop: no two sockets can go on
\* speaking for one role.
OwnerIsNewest ==
    session.live =>
        \A r \in Role : \A g \in Generation(r) : InUse(<<r, g>>) =>
            IF Newest(r, g) THEN owner[r] = g ELSE <<r, g>> \in signalled

\* A participant who is marked disconnected in a session that has not ended
\* is never forgotten: some closed socket of that role still has its pause
\* to write, its timer to run, or its expiry to finish.
LostIsTimed ==
    session.live /\ session.lifecycle # "ended" =>
        \A r \in Role : session.deadline[r] # 0 /\ r \notin session.connected =>
            \/ \E g \in Generation(r) : socket[<<r, g>>] = "pausing"
            \/ \E g \in Generation(r) : expiry[<<r, g>>].pc # "idle"

\* A replaced socket leaves its loop.
SupersededCloses ==
    \A r \in Role : \A g \in Generation(r) :
        (socket[<<r, g>>] = "open" /\ ~Newest(r, g)) ~> socket[<<r, g>>] = "gone"

\* A participant who is marked disconnected returns, or the session ends.
DisconnectedEnds ==
    \A r \in Role : (session.live /\ session.deadline[r] # 0) ~>
        (session.deadline[r] = 0 \/ session.lifecycle = "ended")

\* Whatever comes and goes, a replaced socket and a lost participant are dealt
\* with in the end.
SocketsSettle == SupersededCloses /\ DisconnectedEnds

-----------------------------------------------------------------------------
(***************************************************************************)
(* Statements of the documentation that the code does not keep.            *)
(***************************************************************************)
Settled(r) == \A g \in Generation(r) : socket[<<r, g>>] \in {"none", "open", "gone"}

\* "Only the current generation may set connected=false"
\* (comprehensive-test-design.md, R5.3): once its sockets have settled, a
\* role whose current socket is open counts as connected.
CurrentSocketIsConnected ==
    session.live => \A r \in Role : Settled(r) /\ owner[r] # 0 => r \in session.connected

\* "A successful reconnect resumes the same session" (prolific-integration):
\* with everybody connected and every socket settled the game is not paused.
ReconnectResumes ==
    session.live /\ session.connected = Role /\ (\A r \in Role : Settled(r)) => ~session.paused

\* "reconnect timers honor their exact boundaries"
\* (comprehensive-test-design.md): a reconnect timeout begins only while the
\* current deadline of a disconnected participant has passed.
TimeoutHonorsDeadline ==
    [][\A e \in Expirer : expiry[e].pc # "read" /\ expiry'[e].pc = "read"
                            => \E r \in Role : Overdue(r)]_vars

\* "At expiry, the disconnected participant receives connection_lost; the
\* participant who remained receives partner_left" (prolific-integration).
SomebodyLostConnection ==
    [][session.lifecycle = "running" /\ session'.lifecycle = "ended"
         => \E r \in Role : session'.results[r] = "connection_lost"]_vars

\* The registry and the timers of a session together: what is registered is the
\* newest socket of its role, and whoever is marked lost is timed
\* (register_connection, unregister_connection and the end of websocket_loop).
SocketsAreOrderly == TypeOK /\ OwnerIsNewest /\ LostIsTimed
=============================================================================

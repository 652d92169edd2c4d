---------------------------- MODULE LiveSession -----------------------------
(***************************************************************************)
(* One human-versus-human session of the Parlando server: the LiveSession  *)
(* entry of MemoryState, the durable row behind it, and every task that    *)
(* creates, joins, starts, plays, leaves, expires or removes it.           *)
(*                                                                         *)
(* The server is one asynchronous process.  A task runs without            *)
(* interference between two await points, so an action below is the code   *)
(* from one await on shared state (the memory RwLock, the transition       *)
(* Mutex, a store transaction) to the next.  Acquiring the transition      *)
(* Mutex is merged with the memory read that follows it.                   *)
(***************************************************************************)
EXTENDS SessionStore, Naturals, FiniteSets

CONSTANTS
    GameLength,   \* accepted actions after which the game reports completion
    MaxChats,     \* bound: conversation messages sent
    MaxDrops,     \* bound: connection losses
    MaxFaults,    \* bound: store calls that return an error
    FaultyCalls,  \* the store calls that may return one
    Elapsing,     \* bound: the deadlines of the session that may pass
    MayCrash,     \* whether the process may crash
    HasGrace      \* whether reconnect_grace_seconds is positive

ASSUME GameLengthAssumption == GameLength \in Nat \ {0}
ASSUME BoundsAssumption == MaxChats \in Nat /\ MaxDrops \in Nat /\ MaxFaults \in Nat
ASSUME SwitchesAssumption == MayCrash \in BOOLEAN /\ HasGrace \in BOOLEAN

Role == {"A", "B"}

Reason == {"maximum_lifetime", "waiting_timeout", "reconnect_timeout", "idle_timeout"}

\* SessionEndCause and ParticipantOutcomeKind of protocol.rs.
Cause == {"game_completed", "participant_left", "partner_unavailable",
          "reconnect_timed_out", "idle_timed_out", "lifetime_timed_out",
          "technical_failure"}

Outcome == {"completed", "left_waiting_room", "left_game", "partner_left",
            "partner_unavailable", "connection_lost", "idle_limit_reached",
            "lifetime_limit_reached", "technical_failure"}

Results == UNION {[s -> Outcome] : s \in SUBSET Role}

NoEnd == SessionEnd(NoCause, << >>)

End == [cause : Cause, results : Results]

\* Deadlines of the session itself; reconnect deadlines are per role.
Deadline == {"waiting", "lifetime", "idle", "voice"}

\* Tasks that hold the transition Mutex: a game socket, an HTTP leave, and
\* the abandonment a socket runs when the grace period is zero.
Leaver == {"leave", "lost"} \X Role

Free == << >>

VARIABLES
    row,       \* the durable row (SessionStore)
    session,   \* the entry of MemoryState.sessions
    lock,      \* holder of the session's transition Mutex
    entry,     \* progress of create_session for each role
    socket,    \* progress of the game socket of each role, with its pending end
    closing,   \* roles whose closed socket has not yet written the pause
    abandon,   \* progress of abandon_session for each Leaver
    timer,     \* progress of the reconnect timer of each role
    sweep,     \* progress of cleanup_transient_rooms
    due,       \* deadlines of the session that have passed
    graceOver, \* roles whose reconnect deadline has passed
    up,        \* whether the process runs
    budget     \* what the bounds have left

vars == <<row, session, lock, entry, socket, closing, abandon, timer, sweep,
          due, graceOver, up, budget>>

Idle == [pc |-> "idle", end |-> NoEnd]

SweepIdle == [pc |-> "idle", end |-> NoEnd, reason |-> "none", fresh |-> FALSE]

NoSession ==
    [live |-> FALSE, lifecycle |-> "forming", end |-> NoEnd, moves |-> 0,
     paused |-> FALSE, seats |-> {}, connected |-> {}, awaited |-> {}, voice |-> FALSE]

(***************************************************************************)
(* The creator holds the admission Mutex; create_session and the event     *)
(* session_created have been written.                                      *)
(***************************************************************************)
Init ==
    /\ row = NewRow
    /\ session = NoSession
    /\ lock = Free
    /\ entry = [r \in Role |-> IF r = "A" THEN "build" ELSE "outside"]
    /\ socket = [r \in Role |-> Idle]
    /\ closing = {}
    /\ abandon = [l \in Leaver |-> Idle]
    /\ timer = [r \in Role |-> Idle]
    /\ sweep = SweepIdle
    /\ due = {}
    /\ graceOver = {}
    /\ up = TRUE
    /\ budget = [chats |-> MaxChats, drops |-> MaxDrops, faults |-> MaxFaults]

Ended == session.lifecycle = "ended"

\* One store call returns an error and its transaction is rolled back.
StoreFails(call) ==
    /\ call \in FaultyCalls /\ budget.faults > 0
    /\ budget' = [budget EXCEPT !.faults = @ - 1]

\* updated_at gets a new value: a candidate the sweep has observed is stale.
Touched == [sweep EXCEPT !.fresh = FALSE]

-----------------------------------------------------------------------------
(***************************************************************************)
(* create_session.  The first participant creates the session, the second  *)
(* one joins it.                                                           *)
(***************************************************************************)

\* The game factory or the initial state fails.
CreateFails ==
    /\ entry["A"] = "build"
    /\ row' = FailInitialization(row, "technical_failure")
    /\ entry' = [entry EXCEPT !["A"] = "failed"]
    /\ UNCHANGED <<session, lock, socket, closing, abandon, timer, sweep, due, graceOver, up, budget>>

CreateInsert ==
    /\ entry["A"] = "build"
    /\ session' = [NoSession EXCEPT !.live = TRUE, !.seats = {"A"}]
    /\ entry' = [entry EXCEPT !["A"] = "initialize"]
    /\ UNCHANGED <<row, lock, socket, closing, abandon, timer, sweep, due, graceOver, up, budget>>

CreateInitialized ==
    /\ entry["A"] = "initialize"
    /\ row' = CompleteInitialization(row)
    /\ entry' = [entry EXCEPT !["A"] = IF InitializationOpen(row) THEN "persist" ELSE "withdraw"]
    /\ UNCHANGED <<session, lock, socket, closing, abandon, timer, sweep, due, graceOver, up, budget>>

CreateInitializationError ==
    /\ entry["A"] = "initialize"
    /\ StoreFails("initialize")
    /\ entry' = [entry EXCEPT !["A"] = "withdraw"]
    /\ UNCHANGED <<row, session, lock, socket, closing, abandon, timer, sweep, due, graceOver, up>>

CreateWithdraw ==
    /\ entry["A"] = "withdraw"
    /\ session' = NoSession
    /\ entry' = [entry EXCEPT !["A"] = "failed"]
    /\ UNCHANGED <<row, lock, socket, closing, abandon, timer, sweep, due, graceOver, up, budget>>

\* open_human_session_for_pairing, under the admission Mutex and a read lock.
JoinFind ==
    /\ entry["B"] = "outside"
    /\ entry["A"] \in {"persist", "member"}
    /\ session.live
    /\ session.lifecycle = "forming"
    /\ "B" \notin session.seats
    /\ entry' = [entry EXCEPT !["B"] = "add"]
    /\ UNCHANGED <<row, session, lock, socket, closing, abandon, timer, sweep, due, graceOver, up, budget>>

\* add_human_participant_to_session_locked looks at the seats only.
JoinAdd ==
    /\ entry["B"] = "add"
    /\ session' = IF session.live THEN [session EXCEPT !.seats = @ \cup {"B"}] ELSE session
    /\ entry' = [entry EXCEPT !["B"] = IF session.live THEN "persist" ELSE "failed"]
    /\ UNCHANGED <<row, lock, socket, closing, abandon, timer, sweep, due, graceOver, up, budget>>

PersistSeat(r) ==
    /\ entry[r] = "persist"
    /\ row' = IF session.live THEN AddSeat(row, r) ELSE row
    /\ entry' = [entry EXCEPT ![r] = IF session.live THEN "member" ELSE "failed"]
    /\ UNCHANGED <<session, lock, socket, closing, abandon, timer, sweep, due, graceOver, up, budget>>

-----------------------------------------------------------------------------
(***************************************************************************)
(* websocket_loop: connection, game start, and the messages of one client, *)
(* which the loop handles one after the other.                             *)
(***************************************************************************)

SetSocket(r, pc) == socket' = [socket EXCEPT ![r] = [pc |-> pc, end |-> NoEnd]]

\* The socket's task returns the Mutex and goes back to reading messages.
SocketReturns(r) == SetSocket(r, "open") /\ lock' = Free

Connect(r) ==
    /\ socket[r].pc = "idle"
    /\ entry[r] = "member"
    /\ session.live
    /\ LET connected == session.connected \cup {r}
       IN  session' = [session EXCEPT !.connected = connected,
                                      !.awaited = @ \ {r},
                                      !.paused = @ /\ connected # session.seats]
    /\ graceOver' = graceOver \ {r}
    /\ SetSocket(r, "greet")
    /\ UNCHANGED <<row, lock, entry, closing, abandon, timer, sweep, due, up, budget>>

Greet(r) ==
    /\ socket[r].pc = "greet"
    /\ SetSocket(r, IF session.live /\ session.lifecycle # "forming" THEN "open" ELSE "start")
    /\ UNCHANGED <<row, session, lock, entry, closing, abandon, timer, sweep, due, graceOver, up, budget>>

\* maybe_start_game.
ReadyForGame == session.live /\ session.connected = Role

\* Mutant: memory says running before the store has been asked.
StartReadPublishesFirst(r) ==
    /\ socket[r].pc = "start"
    /\ lock = Free
    /\ session.lifecycle = "forming" /\ ReadyForGame
    /\ session' = [session EXCEPT !.lifecycle = "running"]
    /\ SetSocket(r, "startCommit") /\ lock' = <<"socket", r>>
    /\ UNCHANGED <<row, entry, closing, abandon, timer, sweep, due, graceOver, up, budget>>

StartRead(r) ==
    /\ socket[r].pc = "start"
    /\ lock = Free
    /\ IF session.lifecycle = "forming" /\ ReadyForGame
       THEN SetSocket(r, "startCommit") /\ lock' = <<"socket", r>>
       ELSE SocketReturns(r)
    /\ UNCHANGED <<row, session, entry, closing, abandon, timer, sweep, due, graceOver, up, budget>>

StartCommit(r) ==
    /\ socket[r].pc = "startCommit"
    /\ row' = StartSession(row)
    /\ IF Startable(row)
       THEN SetSocket(r, "startApply") /\ UNCHANGED lock
       ELSE SocketReturns(r)
    /\ UNCHANGED <<session, entry, closing, abandon, timer, sweep, due, graceOver, up, budget>>

StartError(r) ==
    /\ socket[r].pc = "startCommit"
    /\ StoreFails("start")
    /\ SocketReturns(r)
    /\ UNCHANGED <<row, session, entry, closing, abandon, timer, sweep, due, graceOver, up>>

StartApply(r) ==
    /\ socket[r].pc = "startApply"
    /\ session' = IF session.live
                  THEN [session EXCEPT !.lifecycle = "running", !.paused = FALSE]
                  ELSE session
    /\ sweep' = Touched
    /\ due' = due \ {"idle"}
    /\ SocketReturns(r)
    /\ UNCHANGED <<row, entry, closing, abandon, timer, graceOver, up, budget>>

\* submit_action.
CompletedEnd == SessionEnd("game_completed", [r \in session.seats |-> "completed"])

PlannedEnd == IF session.moves + 1 = GameLength THEN CompletedEnd ELSE NoEnd

\* Mutant: the transition Mutex is not taken.
SubmitReadUnlocked(r) ==
    /\ socket[r].pc = "open"
    /\ session.lifecycle = "running" /\ ~session.paused /\ ReadyForGame
    /\ socket' = [socket EXCEPT ![r] = [pc |-> "actCommit", end |-> PlannedEnd]]
    /\ UNCHANGED <<row, session, lock, entry, closing, abandon, timer, sweep, due, graceOver, up, budget>>

SubmitRead(r) ==
    /\ socket[r].pc = "open"
    /\ lock = Free
    /\ session.lifecycle = "running"
    /\ ~session.paused
    /\ ReadyForGame
    /\ socket' = [socket EXCEPT ![r] = [pc |-> "actCommit", end |-> PlannedEnd]]
    /\ lock' = <<"socket", r>>
    /\ UNCHANGED <<row, session, entry, closing, abandon, timer, sweep, due, graceOver, up, budget>>

\* The Boolean commit_session_transition returns is not looked at.
SubmitCommit(r) ==
    /\ socket[r].pc = "actCommit"
    /\ IF session.live
       THEN /\ row' = IF socket[r].end = NoEnd THEN CommitAction(row)
                                               ELSE CommitCompletion(row, socket[r].end)
            /\ socket' = [socket EXCEPT ![r].pc = "actApply"]
            /\ UNCHANGED lock
       ELSE SocketReturns(r) /\ UNCHANGED row
    /\ UNCHANGED <<session, entry, closing, abandon, timer, sweep, due, graceOver, up, budget>>

\* Mutant: the new game state is kept although the store refused the action.
SubmitErrorKeepsMove(r) ==
    /\ socket[r].pc = "actCommit"
    /\ StoreFails("submit")
    /\ SocketReturns(r)
    /\ session' = IF session.live /\ session.moves < GameLength
                  THEN [session EXCEPT !.moves = @ + 1] ELSE session
    /\ UNCHANGED <<row, entry, closing, abandon, timer, sweep, due, graceOver, up>>

SubmitError(r) ==
    /\ socket[r].pc = "actCommit"
    /\ StoreFails("submit")
    /\ SocketReturns(r)
    /\ UNCHANGED <<row, session, entry, closing, abandon, timer, sweep, due, graceOver, up>>

\* keepVoice: both roles still have an audio connection when the game ends.
SubmitApply(r, keepVoice) ==
    /\ socket[r].pc = "actApply"
    /\ LET moved == [session EXCEPT !.moves = @ + 1]
       IN  session' = IF ~session.live THEN session
                      ELSE IF socket[r].end = NoEnd THEN moved
                      ELSE [moved EXCEPT !.lifecycle = "ended", !.end = socket[r].end,
                                         !.voice = keepVoice]
    /\ sweep' = IF session.live THEN Touched ELSE sweep
    /\ due' = IF session.live /\ socket[r].end = NoEnd THEN due \ {"idle"} ELSE due
    /\ SocketReturns(r)
    /\ UNCHANGED <<row, entry, closing, abandon, timer, graceOver, up, budget>>

\* commit_conversation_message takes no lock between its check and its write.
ChatRead(r) ==
    /\ socket[r].pc = "open"
    /\ budget.chats > 0
    /\ session.live /\ session.lifecycle = "running" /\ ~session.paused
    /\ SetSocket(r, "chatCommit")
    /\ budget' = [budget EXCEPT !.chats = @ - 1]
    /\ UNCHANGED <<row, session, lock, entry, closing, abandon, timer, sweep, due, graceOver, up>>

ChatCommit(r) ==
    /\ socket[r].pc = "chatCommit"
    /\ IF session.live
       THEN row' = AppendEvent(row, "message") /\ SetSocket(r, "chatTouch")
       ELSE UNCHANGED row /\ SetSocket(r, "open")
    /\ UNCHANGED <<session, lock, entry, closing, abandon, timer, sweep, due, graceOver, up, budget>>

ChatTouch(r) ==
    /\ socket[r].pc = "chatTouch"
    /\ SetSocket(r, "open")
    /\ sweep' = IF session.live THEN Touched ELSE sweep
    /\ due' = IF session.live THEN due \ {"idle"} ELSE due
    /\ UNCHANGED <<row, session, lock, entry, closing, abandon, timer, graceOver, up, budget>>

(***************************************************************************)
(* The connection is lost.  A new socket of the role may connect while the *)
(* closed one still has its pause to write.                                *)
(***************************************************************************)
Drop(r) ==
    /\ socket[r].pc = "open"
    /\ budget.drops > 0
    /\ r \notin closing /\ timer[r].pc = "idle" /\ abandon[<<"lost", r>>].pc = "idle"
    /\ budget' = [budget EXCEPT !.drops = @ - 1]
    /\ session' = IF session.live
                  THEN [session EXCEPT !.connected = @ \ {r}, !.awaited = @ \cup {r}]
                  ELSE session
    /\ SetSocket(r, "idle")
    /\ IF HasGrace
       THEN closing' = closing \cup {r} /\ UNCHANGED abandon
       ELSE abandon' = [abandon EXCEPT ![<<"lost", r>>].pc = "read"] /\ UNCHANGED closing
    /\ UNCHANGED <<row, lock, entry, timer, sweep, due, graceOver, up>>

Pause(r) ==
    /\ r \in closing
    /\ closing' = closing \ {r}
    /\ session' = IF session.live /\ session.lifecycle = "running"
                  THEN [session EXCEPT !.paused = TRUE]
                  ELSE session
    /\ timer' = [timer EXCEPT ![r].pc = "armed"]
    /\ UNCHANGED <<row, lock, entry, socket, abandon, sweep, due, graceOver, up, budget>>

-----------------------------------------------------------------------------
(***************************************************************************)
(* abandon_session, for an HTTP leave or a socket lost without grace.      *)
(***************************************************************************)
AbandonEnd(l) ==
    LET own == IF l[1] = "lost" THEN "connection_lost"
               ELSE IF session.lifecycle = "forming" THEN "left_waiting_room" ELSE "left_game"
    IN  SessionEnd(IF l[1] = "lost" THEN "reconnect_timed_out" ELSE "participant_left",
                   [r \in session.seats |-> IF r = l[2] THEN own ELSE "partner_left"])

Leave(r) ==
    /\ abandon[<<"leave", r>>].pc = "idle"
    /\ entry[r] = "member"
    /\ session.live /\ ~Ended
    /\ abandon' = [abandon EXCEPT ![<<"leave", r>>].pc = "read"]
    /\ UNCHANGED <<row, session, lock, entry, socket, closing, timer, sweep, due, graceOver, up, budget>>

AbandonRead(l) ==
    /\ abandon[l].pc = "read"
    /\ lock = Free
    /\ IF session.live /\ ~Ended
       THEN abandon' = [abandon EXCEPT ![l] = [pc |-> "commit", end |-> AbandonEnd(l)]] /\ lock' = l
       ELSE abandon' = [abandon EXCEPT ![l] = Idle] /\ UNCHANGED lock
    /\ UNCHANGED <<row, session, entry, socket, closing, timer, sweep, due, graceOver, up, budget>>

\* Mutant: the early return for a session that has already ended keeps the Mutex.
AbandonCommitKeepsMutex(l) ==
    /\ abandon[l].pc = "commit"
    /\ row' = IF session.live THEN EndSession(row, abandon[l].end) ELSE row
    /\ abandon' = [abandon EXCEPT ![l] = IF session.live /\ NotEnded(row)
                                         THEN [@ EXCEPT !.pc = "apply"] ELSE Idle]
    /\ UNCHANGED <<session, lock, entry, socket, closing, timer, sweep, due, graceOver, up, budget>>

AbandonCommit(l) ==
    /\ abandon[l].pc = "commit"
    /\ row' = IF session.live THEN EndSession(row, abandon[l].end) ELSE row
    /\ IF session.live /\ NotEnded(row)
       THEN abandon' = [abandon EXCEPT ![l].pc = "apply"] /\ UNCHANGED lock
       ELSE abandon' = [abandon EXCEPT ![l] = Idle] /\ lock' = Free
    /\ UNCHANGED <<session, entry, socket, closing, timer, sweep, due, graceOver, up, budget>>

AbandonError(l) ==
    /\ abandon[l].pc = "commit"
    /\ StoreFails("abandon")
    /\ abandon' = [abandon EXCEPT ![l] = Idle]
    /\ lock' = Free
    /\ UNCHANGED <<row, session, entry, socket, closing, timer, sweep, due, graceOver, up>>

\* What a task writes to memory after its end_session returned true.
EndInMemory(end) ==
    session' = IF session.live
               THEN [session EXCEPT !.lifecycle = "ended", !.end = end, !.paused = FALSE]
               ELSE session

AbandonApply(l) ==
    /\ abandon[l].pc = "apply"
    /\ EndInMemory(abandon[l].end)
    /\ sweep' = IF session.live THEN Touched ELSE sweep
    /\ abandon' = [abandon EXCEPT ![l] = Idle]
    /\ lock' = Free
    /\ UNCHANGED <<row, entry, socket, closing, timer, due, graceOver, up, budget>>

-----------------------------------------------------------------------------
(***************************************************************************)
(* expire_live_session, which never takes the transition Mutex.  It runs   *)
(* in the reconnect timer of a role and in the sweep.                      *)
(***************************************************************************)
\* Mutant: an arm of the match is missing and its reason becomes the cause.
ExpiryCauseMissingArm(reason) ==
    CASE reason = "waiting_timeout"   -> "partner_unavailable"
      [] reason = "idle_timeout"      -> "idle_timed_out"
      [] OTHER                        -> reason

\* Mutant: two arms of the match are swapped.
ExpiryCauseSwapped(reason) ==
    CASE reason = "waiting_timeout"   -> "idle_timed_out"
      [] reason = "idle_timeout"      -> "partner_unavailable"
      [] reason = "maximum_lifetime"  -> "lifetime_timed_out"
      [] reason = "reconnect_timeout" -> "reconnect_timed_out"

ExpiryCause(reason) ==
    CASE reason = "waiting_timeout"   -> "partner_unavailable"
      [] reason = "idle_timeout"      -> "idle_timed_out"
      [] reason = "maximum_lifetime"  -> "lifetime_timed_out"
      [] reason = "reconnect_timeout" -> "reconnect_timed_out"

ExpiryOutcome(reason, r) ==
    CASE reason = "waiting_timeout"   -> "partner_unavailable"
      [] reason = "idle_timeout"      -> "idle_limit_reached"
      [] reason = "maximum_lifetime"  -> "lifetime_limit_reached"
      [] reason = "reconnect_timeout" -> IF r \in session.connected THEN "partner_left"
                                                                    ELSE "connection_lost"

ExpiryEnd(reason) ==
    SessionEnd(ExpiryCause(reason), [r \in session.seats |-> ExpiryOutcome(reason, r)])

\* The sleep ends; the timer stops unless its role is still disconnected.
TimerFires(r) ==
    /\ timer[r].pc = "armed"
    /\ r \in graceOver \/ r \notin session.awaited
    /\ timer' = [timer EXCEPT ![r].pc =
                   IF session.live /\ r \notin session.connected THEN "read" ELSE "idle"]
    /\ UNCHANGED <<row, session, lock, entry, socket, closing, abandon, sweep, due, graceOver, up, budget>>

TimerRead(r) ==
    /\ timer[r].pc = "read"
    /\ timer' = [timer EXCEPT ![r] = IF session.live /\ ~Ended
                                     THEN [pc |-> "commit", end |-> ExpiryEnd("reconnect_timeout")]
                                     ELSE Idle]
    /\ UNCHANGED <<row, session, lock, entry, socket, closing, abandon, sweep, due, graceOver, up, budget>>

TimerCommit(r) ==
    /\ timer[r].pc = "commit"
    /\ row' = EndSession(row, timer[r].end)
    /\ timer' = [timer EXCEPT ![r] = IF NotEnded(row) THEN [@ EXCEPT !.pc = "apply"] ELSE Idle]
    /\ UNCHANGED <<session, lock, entry, socket, closing, abandon, sweep, due, graceOver, up, budget>>

TimerError(r) ==
    /\ timer[r].pc = "commit"
    /\ StoreFails("timer")
    /\ timer' = [timer EXCEPT ![r] = Idle]
    /\ UNCHANGED <<row, session, lock, entry, socket, closing, abandon, sweep, due, graceOver, up>>

TimerApply(r) ==
    /\ timer[r].pc = "apply"
    /\ EndInMemory(timer[r].end)
    /\ sweep' = IF session.live THEN Touched ELSE sweep
    /\ timer' = [timer EXCEPT ![r] = Idle]
    /\ UNCHANGED <<row, lock, entry, socket, closing, abandon, due, graceOver, up, budget>>

-----------------------------------------------------------------------------
(***************************************************************************)
(* cleanup_transient_rooms: one task, one sweep every second.              *)
(***************************************************************************)
ReconnectOverdue == session.awaited \cap graceOver # {}

\* Mutant: the lifetime bound is only looked at once the game runs.
CandidateReasonRunningOnly ==
    IF session.lifecycle = "running" /\ "lifetime" \in due THEN "maximum_lifetime"
    ELSE IF session.lifecycle = "forming" /\ "waiting" \in due THEN "waiting_timeout"
    ELSE "none"

\* A reconnect deadline is only looked at while its role is disconnected,
\* and the earliest one decides.
CandidateReason ==
    IF ~Ended /\ "lifetime" \in due THEN "maximum_lifetime"
    ELSE IF session.lifecycle = "forming" /\ "waiting" \in due THEN "waiting_timeout"
    ELSE IF ~Ended /\ ReconnectOverdue THEN "reconnect_timeout"
    ELSE IF session.lifecycle = "running" /\ "idle" \in due THEN "idle_timeout"
    ELSE IF Ended /\ (\/ session.voice /\ "voice" \in due
                      \/ ~session.voice /\ session.connected = {} /\ ReconnectOverdue)
         THEN "terminal_cleanup"
    ELSE "none"

SweepPick ==
    /\ sweep.pc = "idle"
    /\ session.live
    /\ CandidateReason # "none"
    /\ sweep' = [SweepIdle EXCEPT !.pc = "recheck", !.reason = CandidateReason, !.fresh = TRUE]
    /\ UNCHANGED <<row, session, lock, entry, socket, closing, abandon, timer, due, graceOver, up, budget>>

StillCandidate ==
    /\ session.live
    /\ sweep.fresh
    /\ sweep.reason = "reconnect_timeout" => ReconnectOverdue
    /\ sweep.reason = "idle_timeout" => "idle" \in due

SweepRecheck ==
    /\ sweep.pc = "recheck"
    /\ sweep' = IF ~StillCandidate THEN SweepIdle
                ELSE [sweep EXCEPT !.pc = IF sweep.reason = "terminal_cleanup" THEN "remove" ELSE "read"]
    /\ UNCHANGED <<row, session, lock, entry, socket, closing, abandon, timer, due, graceOver, up, budget>>

SweepRead ==
    /\ sweep.pc = "read"
    /\ sweep' = IF session.live /\ ~Ended
                THEN [sweep EXCEPT !.pc = "commit", !.end = ExpiryEnd(sweep.reason)]
                ELSE SweepIdle
    /\ UNCHANGED <<row, session, lock, entry, socket, closing, abandon, timer, due, graceOver, up, budget>>

\* Mutant: the Boolean end_session returns is not looked at.
SweepCommitUnconditional ==
    /\ sweep.pc = "commit"
    /\ row' = EndSession(row, sweep.end)
    /\ sweep' = [sweep EXCEPT !.pc = "apply"]
    /\ UNCHANGED <<session, lock, entry, socket, closing, abandon, timer, due, graceOver, up, budget>>

SweepCommit ==
    /\ sweep.pc = "commit"
    /\ row' = EndSession(row, sweep.end)
    /\ sweep' = IF NotEnded(row) THEN [sweep EXCEPT !.pc = "apply"] ELSE SweepIdle
    /\ UNCHANGED <<session, lock, entry, socket, closing, abandon, timer, due, graceOver, up, budget>>

SweepError ==
    /\ sweep.pc = "commit"
    /\ StoreFails("sweep")
    /\ sweep' = SweepIdle
    /\ UNCHANGED <<row, session, lock, entry, socket, closing, abandon, timer, due, graceOver, up>>

SweepApply ==
    /\ sweep.pc = "apply"
    /\ EndInMemory(sweep.end)
    /\ sweep' = [sweep EXCEPT !.pc = "remove"]
    /\ UNCHANGED <<row, lock, entry, socket, closing, abandon, timer, due, graceOver, up, budget>>

SweepRemove ==
    /\ sweep.pc = "remove"
    /\ session' = NoSession
    /\ sweep' = SweepIdle
    /\ UNCHANGED <<row, lock, entry, socket, closing, abandon, timer, due, graceOver, up, budget>>

-----------------------------------------------------------------------------
(***************************************************************************)
(* Time, crashes and restart.                                              *)
(***************************************************************************)
Elapse(d) ==
    /\ session.live /\ d \notin due
    /\ d = "idle" => session.lifecycle = "running"
    /\ d = "voice" => session.voice
    /\ due' = due \cup {d}
    /\ UNCHANGED <<row, session, lock, entry, socket, closing, abandon, timer, sweep, graceOver, up, budget>>

GraceElapses(r) ==
    /\ r \in session.awaited \ graceOver
    /\ graceOver' = graceOver \cup {r}
    /\ UNCHANGED <<row, session, lock, entry, socket, closing, abandon, timer, sweep, due, up, budget>>

\* Every task and all of memory is lost; the row is not.
Crash ==
    /\ MayCrash /\ up
    /\ up' = FALSE
    /\ session' = NoSession
    /\ lock' = Free
    /\ entry' = [r \in Role |-> "failed"]
    /\ socket' = [r \in Role |-> Idle]
    /\ closing' = {}
    /\ abandon' = [l \in Leaver |-> Idle]
    /\ timer' = [r \in Role |-> Idle]
    /\ sweep' = SweepIdle
    /\ due' = {}
    /\ graceOver' = {}
    /\ UNCHANGED <<row, budget>>

\* finalize_interrupted_sessions, before the router serves a request.
Restart ==
    /\ ~up
    /\ up' = TRUE
    /\ row' = EndSession(row, SessionEnd("technical_failure",
                                         [r \in row.seats |-> "technical_failure"]))
    /\ UNCHANGED <<session, lock, entry, socket, closing, abandon, timer, sweep, due, graceOver, budget>>

\* No task is between two of its steps or waits for the Mutex: clients and
\* the process may stay like this forever.
AtRest ==
    /\ lock = Free /\ up
    /\ closing = {} /\ sweep.pc = "idle"
    /\ \A r \in Role : /\ entry[r] \in {"outside", "member", "failed"}
                      /\ socket[r].pc \in {"idle", "open"}
                      /\ timer[r].pc \in {"idle", "armed"}
    /\ \A l \in Leaver : abandon[l].pc = "idle"

Rest == AtRest /\ UNCHANGED vars

Next ==
    \/ CreateFails \/ CreateInsert \/ CreateInitialized \/ CreateInitializationError
    \/ CreateWithdraw \/ JoinFind \/ JoinAdd
    \/ \E r \in Role :
         \/ PersistSeat(r)
         \/ Connect(r) \/ Greet(r)
         \/ StartRead(r) \/ StartCommit(r) \/ StartError(r) \/ StartApply(r)
         \/ SubmitRead(r) \/ SubmitCommit(r) \/ SubmitError(r)
         \/ \E keepVoice \in BOOLEAN : SubmitApply(r, keepVoice)
         \/ ChatRead(r) \/ ChatCommit(r) \/ ChatTouch(r)
         \/ Drop(r) \/ Pause(r)
         \/ Leave(r)
         \/ TimerFires(r) \/ TimerRead(r) \/ TimerCommit(r) \/ TimerError(r) \/ TimerApply(r)
         \/ GraceElapses(r)
    \/ \E l \in Leaver : AbandonRead(l) \/ AbandonCommit(l) \/ AbandonError(l) \/ AbandonApply(l)
    \/ SweepPick \/ SweepRecheck \/ SweepRead \/ SweepCommit \/ SweepError
    \/ SweepApply \/ SweepRemove
    \/ \E d \in Deadline \cap Elapsing : Elapse(d)
    \/ Crash \/ Restart \/ Rest

Spec == Init /\ [][Next]_vars

(***************************************************************************)
(* Tokio polls every task that can run, an interval tick is never lost for *)
(* good, and a crashed process is restarted.  Clients owe nothing: no      *)
(* fairness on connecting, submitting, chatting or leaving.                *)
(***************************************************************************)
SocketStep(r) ==
    \/ Greet(r) \/ StartRead(r) \/ StartCommit(r) \/ StartApply(r)
    \/ SubmitCommit(r) \/ SubmitApply(r, FALSE) \/ ChatCommit(r) \/ ChatTouch(r)

SweepStep == SweepPick \/ SweepRecheck \/ SweepRead \/ SweepCommit \/ SweepApply \/ SweepRemove

Fairness ==
    /\ WF_vars(SweepStep)
    /\ WF_vars(Restart)
    /\ \A r \in Role : WF_vars(SocketStep(r))
    /\ \A l \in Leaver : WF_vars(AbandonCommit(l) \/ AbandonApply(l))

FairSpec == Spec /\ Fairness

-----------------------------------------------------------------------------
(***************************************************************************)
(* Properties.                                                             *)
(***************************************************************************)
Row == [lifecycle : Lifecycle, ready : BOOLEAN, cause : Cause \cup {NoCause},
        seats : SUBSET Role, results : Results, events : Seq(EventKind)]

Session == [live : BOOLEAN, lifecycle : Lifecycle, end : End \cup {NoEnd},
            moves : Nat, paused : BOOLEAN, seats : SUBSET Role,
            connected : SUBSET Role, awaited : SUBSET Role, voice : BOOLEAN]

SocketPc == {"idle", "greet", "start", "startCommit", "startApply", "open",
             "actCommit", "actApply", "chatCommit", "chatTouch"}
AbandonPc == {"idle", "read", "commit", "apply"}
TimerPc == {"idle", "armed", "read", "commit", "apply"}

Pending(pcs) == [pc : pcs, end : End \cup {NoEnd}]

Sweep == [pc : {"idle", "recheck", "read", "commit", "apply", "remove"},
          end : End \cup {NoEnd},
          reason : Reason \cup {"terminal_cleanup", "none"}, fresh : BOOLEAN]

TypeOK ==
    /\ row \in Row
    /\ session \in Session
    /\ lock \in {Free} \cup ({"socket"} \X Role) \cup Leaver
    /\ entry \in [Role -> {"outside", "build", "initialize", "withdraw", "add",
                           "persist", "member", "failed"}]
    /\ socket \in [Role -> Pending(SocketPc)]
    /\ closing \subseteq Role
    /\ abandon \in [Leaver -> Pending(AbandonPc)]
    /\ timer \in [Role -> Pending(TimerPc)]
    /\ sweep \in Sweep
    /\ due \subseteq Deadline /\ graceOver \subseteq Role /\ up \in BOOLEAN
    /\ budget \in [chats : 0..MaxChats, drops : 0..MaxDrops, faults : 0..MaxFaults]

Positions(kind) == {i \in DOMAIN row.events : row.events[i] = kind}

\* Two writers racing to end a session (a completing action, a leave, the
\* reconnect timers, the sweep, a restart) leave exactly one terminal event:
\* the one that belongs to the cause of the row.
OneTerminalEvent ==
    /\ \A i, j \in Positions("terminal") : i = j
    /\ row.lifecycle = "ended" <=> Positions("terminal") # {}

\* Nothing is shown to a client as started or ended before the row says so:
\* every task commits to the store before it writes to memory, whatever the
\* other tasks have done to either in between.
DurableBeforeVisible ==
    session.live => /\ session.lifecycle = "running" => row.lifecycle # "forming"
                    /\ Ended => row.lifecycle = "ended"

\* An end committed under the transition Mutex (a completed game or a leave)
\* is the end memory shows: no expiry that was already under way replaces it,
\* and the results that were stored are the ones clients are shown.
LockedEndWins ==
    session.live /\ Ended /\ row.cause \in {"game_completed", "participant_left"} =>
        /\ session.end.cause = row.cause
        /\ \A r \in DOMAIN row.results : /\ r \in DOMAIN session.end.results
                                        /\ row.results[r] = session.end.results[r]

ActionCommitted == \E r \in Role : socket[r].pc = "actApply"

\* Until a session ends the durable log holds one accepted action for each
\* move of the live game, plus the one whose memory update is still due; a
\* row that says the game was completed holds all of its actions.
MovesAreLogged ==
    LET logged == Cardinality(Positions("action"))
    IN  /\ session.live /\ NotEnded(row) =>
              logged = session.moves + (IF ActionCommitted THEN 1 ELSE 0)
        /\ row.cause = "game_completed" => logged = GameLength

\* The results a participant (and Prolific) is paid by never change once the
\* session has ended: not when a participant row is added late, not when a
\* second task ends the session, not at a restart.
OutcomeIsImmutable ==
    [][row.lifecycle = "ended" => /\ row'.lifecycle = "ended"
                                  /\ row'.cause = row.cause
                                  /\ row'.results = row.results]_vars

\* The durable row implements the abstract SessionOutcome.
Abstract == INSTANCE SessionOutcome
            WITH phase <- row.lifecycle, cause <- row.cause, results <- row.results

ImplementsSessionOutcome == Abstract!Spec

\* A session that outlives session_max_lifetime_seconds ends durably, even
\* when the process crashes and whoever else is ending it.
LifetimeEndsSession == ("lifetime" \in due) ~> (row.lifecycle = "ended")

\* Whoever holds the transition Mutex gives it back.
MutexIsReleased == \A l \in Leaver \cup ({"socket"} \X Role) : (lock = l) ~> (lock # l)

-----------------------------------------------------------------------------
(***************************************************************************)
(* Statements of the documentation that the code does not keep.            *)
(***************************************************************************)

\* "One immutable shared terminal value has been committed" (storage.rs, the
\* Ended variant): the end that memory shows is the end that was committed.
TerminalValueIsShared ==
    session.live /\ Ended => session.end.cause = row.cause

\* Ended is the session's "absorbing state" (storage.rs, is_ended).
EndedIsAbsorbing ==
    [][session.live /\ Ended /\ session'.live => session'.lifecycle = "ended"]_vars

\* "Persist SessionEnd and every human role's ParticipantResult atomically"
\* (technical-decisions.md): so does the participant who joined second.
EveryRoleHasResult ==
    row.lifecycle = "ended" /\ "B" \in row.seats => "B" \in DOMAIN row.results

\* "Exactly one terminal status wins and later input is rejected
\* consistently" (comprehensive-test-design.md): no accepted message is
\* logged behind the terminal event.
NoInputAfterEnd ==
    \A i \in Positions("terminal") : i = Len(row.events)

=============================================================================

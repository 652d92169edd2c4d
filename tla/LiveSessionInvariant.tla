------------------------ MODULE LiveSessionInvariant ------------------------
(***************************************************************************)
(* The inductive invariant behind the safety properties of LiveSession.    *)
(* The properties alone are not preserved by every step: they say nothing  *)
(* about the ends that tasks have planned from an earlier look at memory,  *)
(* nor about who may hold the Mutex while such a plan is pending.          *)
(***************************************************************************)
EXTENDS LiveSession

SweepHasReason ==
    /\ sweep.pc # "idle" => sweep.reason # "none"
    /\ sweep.pc \in {"read", "commit", "apply"} => sweep.reason \in Reason

MutexHeld ==
    /\ \A r \in Role : socket[r].pc \in {"startCommit", "startApply", "actCommit", "actApply"}
                         => lock = <<"socket", r>>
    /\ \A l \in Leaver : abandon[l].pc \in {"commit", "apply"} => lock = l

\* Until its creator inserts the session no other task knows of it.
NotYetVisible ==
    entry["A"] = "build" =>
        /\ up /\ ~session.live /\ row.lifecycle = "forming"
        /\ entry["B"] = "outside" /\ closing = {} /\ sweep.pc = "idle"
        /\ \A r \in Role : socket[r].pc = "idle" /\ timer[r].pc = "idle"
        /\ \A l \in Leaver : abandon[l].pc = "idle"

\* The ends that tasks have planned and not yet committed or applied.
Fits(end) == \A r \in DOMAIN end.results : end.results[r] \in Abstract!OutcomesOf(end.cause)

PlansFit ==
    /\ \A r \in Role : socket[r].end # NoEnd =>
           socket[r].end.cause = "game_completed" /\ Fits(socket[r].end)
    /\ \A r \in Role : timer[r].pc \in {"commit", "apply"} =>
           timer[r].end.cause = "reconnect_timed_out" /\ Fits(timer[r].end)
    /\ \A l \in Leaver : abandon[l].pc \in {"commit", "apply"} =>
           abandon[l].end.cause \in {"participant_left", "reconnect_timed_out"} /\ Fits(abandon[l].end)
    /\ sweep.pc \in {"commit", "apply"} =>
           sweep.end.cause = ExpiryCause(sweep.reason) /\ Fits(sweep.end)

\* What a task has read, or is about to write to memory, has happened to the
\* row before.
DurableFirst ==
    /\ DurableBeforeVisible
    /\ \A r \in Role :
           /\ socket[r].pc \in {"startApply", "actCommit", "actApply"} => row.lifecycle # "forming"
           /\ socket[r].pc = "actApply" /\ socket[r].end # NoEnd => row.lifecycle = "ended"
           /\ timer[r].pc = "apply" => row.lifecycle = "ended"
    /\ \A l \in Leaver : abandon[l].pc = "apply" => row.lifecycle = "ended"
    /\ sweep.pc = "apply" => row.lifecycle = "ended"

\* The end an expiry is about to write to memory is the one in the row.
RowAhead ==
    /\ row.lifecycle = "ended" <=> row.cause # NoCause
    /\ row.lifecycle # "ended" => row.results = << >>
    /\ \A r \in Role : timer[r].pc = "apply" => row.cause = "reconnect_timed_out"
    /\ sweep.pc = "apply" => row.cause = sweep.end.cause
    /\ sweep.pc # "idle" /\ sweep.reason = "idle_timeout" => row.lifecycle # "forming"

\* An end committed under the Mutex is in memory or about to be written
\* there by the holder of the Mutex.
LockedCause == {"game_completed", "participant_left"}

Agrees(end) ==
    /\ end.cause = row.cause
    /\ \A r \in DOMAIN row.results : r \in DOMAIN end.results /\ row.results[r] = end.results[r]

LockedEndPending ==
    /\ row.cause \in LockedCause /\ session.live =>
           IF Ended THEN Agrees(session.end)
           ELSE \/ \E r \in Role : socket[r].pc = "actApply"
                \/ \E l \in Leaver : abandon[l].pc = "apply"
    /\ \A r \in Role :
           /\ socket[r].pc \in {"startCommit", "startApply", "actCommit"} => row.cause \notin LockedCause
           /\ socket[r].pc = "actApply" /\ row.cause \in LockedCause =>
                  socket[r].end # NoEnd /\ Agrees(socket[r].end)
    /\ \A l \in Leaver :
           /\ abandon[l].pc = "commit" => row.cause \notin LockedCause
           /\ abandon[l].pc = "apply" => Agrees(abandon[l].end)

\* The log counts the moves of the game, and the action that is about to
\* complete the game is its last one.
MovesFit ==
    /\ MovesAreLogged
    /\ entry["A"] = "build" => row.events = << >>
    /\ \A r \in Role : socket[r].pc = "actCommit" /\ socket[r].end # NoEnd /\ session.live =>
           session.moves + 1 = GameLength

\* All of it: what the proofs of the safety properties carry along.
IInv ==
    /\ TypeOK /\ SweepHasReason /\ MutexHeld /\ NotYetVisible /\ PlansFit
    /\ DurableFirst /\ RowAhead /\ LockedEndPending /\ MovesFit /\ OneTerminalEvent

=============================================================================

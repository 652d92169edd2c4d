---------------------------- MODULE SessionStore ----------------------------
(***************************************************************************)
(* The durable record of one session: its row of the table sessions, the   *)
(* rows of session_participants that belong to it and the part of its      *)
(* session_events that carries meaning for the lifecycle.  Every operator  *)
(* is one transaction of SqliteExperimentStore; the connection pool has    *)
(* one connection, so transactions do not interleave.                      *)
(*                                                                         *)
(* A row is a record                                                       *)
(*   lifecycle  the column sessions.lifecycle                              *)
(*   ready      the column sessions.initialization_complete                *)
(*   cause      the cause inside session_end_json, NoCause while null      *)
(*   seats      the roles that have a row in session_participants          *)
(*   results    terminal_result_json of the roles for which it is not null *)
(*   events     the kinds of the events in order of event_index            *)
(***************************************************************************)
EXTENDS Sequences

Lifecycle == {"forming", "running", "ended"}

NoCause == "none"

(***************************************************************************)
(* Event kinds.  "terminal" stands for the event that accompanies the end  *)
(* of a session: session_completed, session_abandoned, session_ended or    *)
(* session_initialization_failed.                                          *)
(***************************************************************************)
EventKind == {"action", "message", "terminal"}

(***************************************************************************)
(* A SessionEnd: the shared cause and one result for each human role the   *)
(* writer of the end knew about.                                           *)
(***************************************************************************)
SessionEnd(cause, results) == [cause |-> cause, results |-> results]

NewRow == [lifecycle |-> "forming", ready |-> FALSE, cause |-> NoCause,
           seats |-> {}, results |-> << >>, events |-> << >>]

\* The WHERE clauses that decide whether an update affects the row.
InitializationOpen(row) == row.lifecycle = "forming" /\ ~row.ready
Startable(row)          == row.lifecycle = "forming" /\ row.ready
NotEnded(row)           == row.lifecycle # "ended"

CompleteInitialization(row) ==
    IF InitializationOpen(row) THEN [row EXCEPT !.ready = TRUE] ELSE row

AppendEvent(row, kind) == [row EXCEPT !.events = Append(@, kind)]

(***************************************************************************)
(* The event is inserted whatever the lifecycle is; the update has its own *)
(* WHERE clause.                                                           *)
(***************************************************************************)
FailInitialization(row, cause) ==
    LET logged == AppendEvent(row, "terminal")
    IN  IF row.lifecycle = "forming"
        THEN [logged EXCEPT !.lifecycle = "ended", !.ready = TRUE, !.cause = cause]
        ELSE logged

StartSession(row) ==
    IF Startable(row) THEN [row EXCEPT !.lifecycle = "running"] ELSE row

AddSeat(row, role) == [row EXCEPT !.seats = @ \cup {role}]

(***************************************************************************)
(* persist_terminal_value.  Results are written by UPDATE ... WHERE role,  *)
(* so a role whose session_participants row does not exist yet gets none.  *)
(***************************************************************************)
PersistTerminal(row, end) ==
    [row EXCEPT !.lifecycle = "ended",
                !.cause = end.cause,
                !.results = [r \in DOMAIN end.results \cap row.seats |-> end.results[r]]]

\* Mutant: end_session without its test of the lifecycle.
EndSessionUnchecked(row, end) == PersistTerminal(AppendEvent(row, "terminal"), end)

EndSession(row, end) ==
    IF NotEnded(row)
    THEN PersistTerminal(AppendEvent(row, "terminal"), end)
    ELSE row

\* A transition that does not complete the game, and one that does.
CommitAction(row) ==
    IF NotEnded(row) THEN AppendEvent(row, "action") ELSE row

\* Mutant: commit_session_transition without its test of the lifecycle.
CommitCompletionUnchecked(row, end) ==
    PersistTerminal([row EXCEPT !.events = @ \o <<"action", "terminal">>], end)

CommitCompletion(row, end) ==
    IF NotEnded(row)
    THEN PersistTerminal([row EXCEPT !.events = @ \o <<"action", "terminal">>], end)
    ELSE row

=============================================================================

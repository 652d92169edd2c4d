---------------------------- MODULE EventTimeline ---------------------------
(***************************************************************************)
(* The administrator's timeline of a session (app.rs                       *)
(* important_admin_events, admin_event_bundles): the durable events are    *)
(* grouped into rows, an action with its result, a participant's arrival   *)
(* with its readiness, a transcript with the message made of it.  The      *)
(* dashboard polls while the session writes, so the rows of a longer log   *)
(* replace the rows of a shorter one.                                      *)
(***************************************************************************)
EXTENDS Integers, Sequences, SequencesExt, FiniteSets

CONSTANTS Datum,      \* actions and texts, up to what the grouping compares
          MaxEvents,  \* bound: events of one session
          Alphabet    \* bound: the types of events one behaviour may have
ASSUME TimelineAssumption == MaxEvents \in Nat

Player == {"A", "B"}
ActionTypes == {"agent_action", "game_action_accepted", "game_action_rejected"}
PresenceTypes == {"participant_joined", "participant_connected", "participant_disconnected", "ready"}
\* voice_diagnostic by what its text has: a step of the setup, a start, a failure,
\* or nothing the timeline shows.
VoiceTypes == {"voice_setup", "voice_started", "voice_failed", "voice_detail"}
SpeechTypes == {"transcript_segment", "voice_message", "chat_message", "agent_message"}
OtherTypes == {"session_completed", "session_ended", "tts_published"}

Events == [type : ActionTypes \cup SpeechTypes \cup {"tts_published"}, role : Player, datum : Datum]
          \cup [type : PresenceTypes \cup VoiceTypes, role : Player, datum : {"none"}]
          \cup [type : {"session_completed", "session_ended"}, role : {"none"}, datum : {"none"}]

VARIABLES log,      \* the durable events, an event's place being its event_index
          Rows,     \* the rows the administrator's last poll has shown
          kinds     \* the types this behaviour has
timelineVars == <<log, Rows, kinds>>

-----------------------------------------------------------------------------
(* From the log to the rows. *)

\* is_important_admin_event and show_admin_event_in_timeline
shown(l, i) == l[i].type \notin {"session_ended", "tts_published", "voice_detail"}

\* important_admin_events: the agent's message whose speech was published.
synthesized(l, i) ==
    l[i].type = "agent_message" /\ \E j \in 1..Len(l) : l[j] = [l[i] EXCEPT !.type = "tts_published"]

admin_bundle_kind(e) ==
    CASE e.type \in ActionTypes -> "action"
      [] e.type \in PresenceTypes -> "participant"
      [] e.type \in VoiceTypes -> "voice"
      [] e.type \in {"transcript_segment", "voice_message"} -> "transcript"
      [] e.type \in {"chat_message", "agent_message"} -> "conversation"
      [] OTHER -> e.type

\* Two events with the same key may share a row.
MutKeyWithoutRole(l, i) ==
    LET e == l[i]
        kind == admin_bundle_kind(e) IN
    CASE kind \in {"action", "transcript"} -> <<kind, "any", e.datum, 0>>
      [] kind \in {"participant", "voice"} -> <<kind, "any", "none", 0>>
      [] OTHER -> <<kind, e.role, "none", i>>
admin_bundle_key(l, i) ==
    LET e == l[i]
        kind == admin_bundle_kind(e) IN
    CASE kind \in {"action", "transcript"} -> <<kind, e.role, e.datum, 0>>
      [] kind \in {"participant", "voice"} -> <<kind, e.role, "none", 0>>
      [] OTHER -> <<kind, e.role, "none", i>>

Has(l, row, types) == \E i \in 1..Len(row.events) : l[row.events[i]].type \in types
Results == {"game_action_accepted", "game_action_rejected"}

admin_bundle_is_closed(l, row) ==
    CASE row.kind = "action" -> Has(l, row, Results)
      [] row.kind = "participant" -> Has(l, row, {"ready", "participant_disconnected"})
      [] row.kind = "voice" -> Has(l, row, {"voice_started", "voice_failed"})
      [] OTHER -> FALSE

\* The rest of can_append_admin_bundle follows from the key.
MutResultsApart(l, row, i) == row.kind \in {"participant", "voice"}
can_append_admin_bundle(l, row, i) ==
    CASE row.kind = "action" ->
           ~admin_bundle_is_closed(l, row) /\ ~(Has(l, row, {"agent_action"}) /\ l[i].type = "agent_action")
      [] row.kind = "transcript" -> ~(l[i].type = "voice_message" /\ Has(l, row, {"voice_message"}))
      [] row.kind \in {"participant", "voice"} -> TRUE
      [] OTHER -> FALSE

Terminal(e) == e.type \in {"session_completed", "participant_disconnected"}

\* One turn of the loop of admin_event_bundles for event i: rows so far, which
\* of them is open for a key, whether the end has been seen.
NoRows == [rows |-> <<>>, open |-> {}, ended |-> FALSE]
MutNumbersRows(acc, l, i) ==
    [acc EXCEPT !.rows = Append(@, [kind |-> admin_bundle_kind(l[i]), key |-> admin_bundle_key(l, i),
                                    events |-> <<Len(acc.rows) + 1>>, after |-> acc.ended])]
Extend(acc, l, i) ==
    LET key == admin_bundle_key(l, i)
        old == {r \in acc.open : acc.rows[r].key = key}
        fit == {r \in old : can_append_admin_bundle(l, acc.rows[r], i)}
        at == IF fit # {} THEN CHOOSE r \in fit : TRUE ELSE Len(acc.rows) + 1
        row == IF fit # {}
               THEN [acc.rows[at] EXCEPT !.events = Append(@, i), !.after = @ \/ acc.ended]
               ELSE [kind |-> admin_bundle_kind(l[i]), key |-> key, events |-> <<i>>, after |-> acc.ended]
    IN [rows  |-> IF fit # {} THEN [acc.rows EXCEPT ![at] = row] ELSE Append(acc.rows, row),
        open  |-> IF admin_bundle_is_closed(l, row)
                  THEN IF fit # {} THEN acc.open \ {at} ELSE acc.open
                  ELSE (acc.open \ old) \cup {at},
        ended |-> acc.ended \/ Terminal(l[i])]

admin_event_bundles(l) ==
    FoldLeft(LAMBDA acc, i : IF shown(l, i) THEN Extend(acc, l, i) ELSE acc,
             NoRows, [i \in 1..Len(l) |-> i]).rows

\* admin_bundle_problem_reason
MutAlarmAfterEnd(l, row) ==
    Has(l, row, {"game_action_rejected", "voice_failed"}) \/ (row.kind = "action" /\ ~Has(l, row, Results))
problem(l, row) ==
    \/ Has(l, row, {"game_action_rejected", "voice_failed"})
    \/ /\ ~row.after
       /\ \/ row.kind = "action" /\ ~Has(l, row, Results)
          \/ row.kind = "voice" /\ ~Has(l, row, {"voice_started"})
          \/ row.kind = "participant" /\ Has(l, row, {"participant_disconnected"})

\* admin_bundle_json: how the row is marked.
MutSpokenNow(l, row) ==
    row.kind = "transcript" \/ (Last(l).type = "tts_published" /\ synthesized(l, Last(row.events)))
spoken(l, row) == row.kind = "transcript" \/ synthesized(l, Last(row.events))

TimelineInit == log = <<>> /\ Rows = <<>> /\ kinds \in Alphabet

\* A component of the server stores an event, and the dashboard polls
\* (admin_session_events computes the rows from the whole log every time).
WriteEvent(e) ==
    /\ Len(log) < MaxEvents /\ e.type \in kinds
    /\ log' = Append(log, e)
    /\ Rows' = admin_event_bundles(log')
    /\ UNCHANGED kinds

-----------------------------------------------------------------------------
(* Properties. *)

\* The rows partition the events that are shown: none is lost, none is in two
\* rows, and within a row they are in the order of the log
\* (admin_event_bundles).
EveryEventOnce ==
    LET pos == UNION {{<<r, i>> : i \in 1..Len(Rows[r].events)} : r \in 1..Len(Rows)}
        at(p) == Rows[p[1]].events[p[2]] IN
    /\ {at(p) : p \in pos} = {i \in 1..Len(log) : shown(log, i)}
    /\ \A p, q \in pos : at(p) = at(q) => p = q
    /\ \A p, q \in pos : p[1] = q[1] /\ p[2] < q[2] => at(p) < at(q)

\* A row is about one player, and an action's row about one action and one
\* attempt at it: at most one request and at most one result, the result last
\* (can_append_admin_bundle, admin_bundle_key).
OneAttemptPerRow ==
    \A r \in 1..Len(Rows) :
        LET mine == {Rows[r].events[i] : i \in 1..Len(Rows[r].events)}
            of(types) == {i \in mine : log[i].type \in types} IN
        /\ \A i, j \in mine : log[i].role = log[j].role
        /\ Rows[r].kind = "action" =>
             /\ Cardinality(of({"agent_action"})) <= 1 /\ Cardinality(of(Results)) <= 1
             /\ \A i \in of(Results), j \in mine : j <= i

\* A request that is answered is not reported as unanswered: when the same
\* player's same action is accepted and it was not requested again in between,
\* the request is in a row without a problem (admin_bundle_problem_reason).
AnsweredIsNoProblem ==
    \A i, j \in 1..Len(log) :
        (/\ i < j /\ log[i].type = "agent_action" /\ log[j].type = "game_action_accepted"
         /\ log[i].role = log[j].role /\ log[i].datum = log[j].datum
         /\ \A k \in (i + 1)..(j - 1) : log[k].type \in ActionTypes =>
                log[k].role # log[i].role \/ log[k].datum # log[i].datum) =>
        \A r \in 1..Len(Rows) : (\E n \in 1..Len(Rows[r].events) : Rows[r].events[n] = i) =>
                ~problem(log, Rows[r])

\* Once the session has completed no new row complains that a result or a start
\* is missing (after_terminal_event).
NoComplaintAfterEnd ==
    \A r \in 1..Len(Rows) :
        problem(log, Rows[r]) /\ (\E e \in 1..Head(Rows[r].events) - 1 : log[e].type = "session_completed") =>
            Has(log, Rows[r], {"game_action_rejected", "voice_failed"})

\* A poll adds to what an earlier poll showed: the rows keep their places and
\* their events, and a row marked as spoken stays so, although every poll
\* groups the whole log anew (admin_session_events).
TimelineGrows ==
    [][\A r \in 1..Len(Rows) :
          /\ r <= Len(Rows') /\ Rows'[r].key = Rows[r].key /\ IsPrefix(Rows[r].events, Rows'[r].events)
          /\ spoken(log, Rows[r]) => spoken(log', Rows'[r])]_timelineVars

\* The timeline shows every event once, keeps attempts apart, and complains only
\* where something is wrong (admin_event_bundles and its helpers).
TimelineIsFair ==
    EveryEventOnce /\ OneAttemptPerRow /\ AnsweredIsNoProblem /\ NoComplaintAfterEnd
=============================================================================

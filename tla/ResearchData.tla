---------------------------- MODULE ResearchData ----------------------------
(***************************************************************************)
(* What becomes of the rows of one experiment: they are written while      *)
(* sessions of two people run, deleted by an administrator for one         *)
(* participant (admin_delete_participant_data), and read table by table    *)
(* into a corpus (admin_export).  Every statement of the store is one step *)
(* (the pool has one connection); a transaction is one step.               *)
(*                                                                         *)
(* A session has a key, which create_session takes as the largest of the   *)
(* stored keys plus one, and a dialogue, here the number of its creation,  *)
(* which stands for the random readable identifier.  An event carries, for *)
(* the properties only, the dialogue it was written for.                   *)
(***************************************************************************)
EXTENDS Integers, FiniteSets, FiniteSetsExt

CONSTANTS Person,      \* people who arrive
          Recruits,    \* those among them who come from Prolific
          MaxDialogues, MaxEarly, \* bounds: sessions, and those of them before a deletion
          MaxWrites    \* bound: events and declarations together
ASSUME DataAssumption ==
    /\ Recruits \subseteq Person
    /\ MaxDialogues \in Nat /\ MaxEarly \in Nat /\ MaxWrites \in Nat

VARIABLES people,       \* rows of participants
          submissions,  \* people with a row in prolific_submissions
          arrived,      \* memory.participants
          sessions,     \* rows of sessions
          members,      \* rows of session_participants
          consents,     \* rows of consent_declarations, key 0 being null
          events,       \* rows of session_events
          live,         \* memory.sessions, by dialogue
          joining,      \* create_session requests between the seat and its row
          deletion,     \* the administrator's deletion
          export,       \* the administrator's export
          testers,      \* those who arrive while the experiment is being tested
          keyReused     \* history: a key has been given to two sessions
tables == <<people, submissions, sessions, members, consents, events>>
memory == <<arrived, live, joining, testers>>
dataVars == <<tables, memory, deletion, export, keyReused>>

Dialogue == 1..MaxDialogues
Purpose(p) == IF p \in testers THEN "testing" ELSE "research"
NoSession == [key |-> 0, seats |-> {}, phase |-> "none"]
NoDeletion == [step |-> "idle", who |-> {}, dialogues |-> {}]
NoExport == [step |-> "idle", sessions |-> {}, events |-> {}, people |-> {}, members |-> {}]

DataInit ==
    /\ people = {} /\ submissions = {} /\ arrived = {}
    /\ sessions = {} /\ members = {} /\ consents = {} /\ events = {}
    /\ live = [d \in Dialogue |-> NoSession] /\ joining = {}
    /\ testers \in {{}, Person}
    /\ deletion = NoDeletion /\ export = NoExport /\ keyReused = FALSE

Keys == {s.key : s \in sessions}
RowOf(key) == CHOOSE s \in sessions : s.key = key
Rewritten(key, row) == (sessions \ {RowOf(key)}) \cup {row}
Of(key, set) == {x \in set : x.key = key}

-----------------------------------------------------------------------------
(* Arrival, pairing and play; LiveSession and Admission have the detail.   *)

\* upsert_participant or, in one transaction with the submission,
\* admit_prolific_submission.
Arrive(p) ==
    /\ p \notin arrived
    /\ arrived' = arrived \cup {p} /\ people' = people \cup {p}
    /\ submissions' = submissions \cup ({p} \cap Recruits)
    /\ UNCHANGED <<sessions, members, consents, events, live, joining, testers, deletion, export, keyReused>>

\* Neither seated in a session in memory nor with a stored result.
MayEnter(p) ==
    /\ p \in arrived
    /\ \A d \in Dialogue : live[d].phase = "gone" \/ p \notin live[d].seats
    /\ \A m \in members : m.who = p => ~m.result
Open(d, p) == live[d].phase = "forming" /\ Cardinality(live[d].seats) = 1
              /\ \A q \in live[d].seats : Purpose(q) = Purpose(p)

\* create_live_session_locked
CreateSession(p) ==
    LET key == Max({0} \cup Keys) + 1
        fresh == {d \in Dialogue : live[d].phase = "none" /\ (d <= MaxEarly \/ deletion.step = "deleted")} IN
    /\ MayEnter(p) /\ fresh # {} /\ ~\E d \in Dialogue : Open(d, p)
    /\ live' = [live EXCEPT ![Min(fresh)] = [key |-> key, seats |-> {p}, phase |-> "forming"]]
    /\ sessions' = sessions \cup {[key |-> key, dialogue |-> Min(fresh), lifecycle |-> "forming",
                                   started |-> FALSE, purpose |-> Purpose(p)]}
    /\ joining' = joining \cup {<<Min(fresh), p>>}
    /\ keyReused' = (keyReused \/ \E d \in Dialogue : live[d].key = key)
    /\ UNCHANGED <<people, submissions, arrived, testers, members, consents, events, deletion, export>>

\* add_human_participant_to_session_locked
Pair(d, p) ==
    /\ MayEnter(p) /\ Open(d, p)
    /\ live' = [live EXCEPT ![d].seats = @ \cup {p}]
    /\ joining' = joining \cup {<<d, p>>}
    /\ UNCHANGED <<tables, arrived, testers, deletion, export, keyReused>>

\* The tables' foreign keys, and the unique participant_session_id.
MemberFits(key, p) == p \in people /\ key \in Keys /\ \A m \in members : m.who = p => m.key = key
MutAnyDeclarant(p) == TRUE
ConsentFits(p) == p \in people
EventFits(key, p) == p \in people /\ key \in Keys

\* persist_session_participant; when it fails the request fails, the seat stays.
PersistMember(d, p) ==
    /\ <<d, p>> \in joining
    /\ joining' = joining \ {<<d, p>>}
    /\ members' = IF live[d].phase # "gone" /\ MemberFits(live[d].key, p) /\ Of(live[d].key, {m \in members : m.who = p}) = {}
                  THEN members \cup {[key |-> live[d].key, who |-> p, result |-> FALSE]} ELSE members
    /\ UNCHANGED <<people, submissions, sessions, consents, events, arrived, live, testers, deletion, export, keyReused>>

\* start_session, and the memory after it.
Start(d) ==
    /\ live[d].phase = "forming" /\ Cardinality(live[d].seats) = 2
    /\ live[d].key \in Keys /\ RowOf(live[d].key).lifecycle = "forming"
    /\ sessions' = Rewritten(live[d].key, [RowOf(live[d].key) EXCEPT !.lifecycle = "running", !.started = TRUE])
    /\ live' = [live EXCEPT ![d].phase = "running"]
    /\ UNCHANGED <<people, submissions, members, consents, events, arrived, joining, testers, deletion, export, keyReused>>

\* append_session_event: a message while memory says running; a voice
\* diagnostic also afterwards, as long as the session is in memory.
WriteRow(d, p, kind) ==
    /\ Cardinality(events \cup consents) < MaxWrites /\ p \in live[d].seats
    /\ live[d].phase \in (IF kind = "message" THEN {"running"} ELSE {"running", "ended"})
    /\ EventFits(live[d].key, p)
    /\ events' = events \cup {[key |-> live[d].key, n |-> 1 + Max({0} \cup {e.n : e \in Of(live[d].key, events)}),
                               who |-> p, kind |-> kind, dialogue |-> d]}
    /\ UNCHANGED <<people, submissions, sessions, members, consents, memory, deletion, export, keyReused>>

\* end_session; the results go to the rows that exist.
EndInStore(d) ==
    /\ live[d].phase \in {"forming", "running"} /\ live[d].key \in Keys
    /\ RowOf(live[d].key).lifecycle # "ended"
    /\ sessions' = Rewritten(live[d].key, [RowOf(live[d].key) EXCEPT !.lifecycle = "ended"])
    /\ members' = {IF m.key = live[d].key THEN [m EXCEPT !.result = TRUE] ELSE m : m \in members}
    /\ UNCHANGED <<people, submissions, consents, events, memory, deletion, export, keyReused>>
EndInMemory(d) ==
    /\ live[d].phase \in {"forming", "running"}
    /\ \A s \in sessions : s.dialogue = d => s.lifecycle = "ended"
    /\ live' = [live EXCEPT ![d].phase = "ended"]
    /\ UNCHANGED <<tables, arrived, testers, joining, deletion, export, keyReused>>
Forget(d) ==
    /\ live[d].phase = "ended" /\ live' = [live EXCEPT ![d].phase = "gone"]
    /\ UNCHANGED <<tables, arrived, testers, joining, deletion, export, keyReused>>

\* consent: the request may name a session; one that is not in memory is none.
Consent(p, d) ==
    LET key == IF d # 0 /\ live[d].phase \notin {"none", "gone"} THEN live[d].key ELSE 0 IN
    /\ p \in arrived /\ Cardinality(events \cup consents) < MaxWrites
    /\ ConsentFits(p)
    /\ consents' = consents \cup {[key |-> key, who |-> p, n |-> Cardinality(consents)]}
    /\ UNCHANGED <<people, submissions, sessions, members, events, memory, deletion, export, keyReused>>

-----------------------------------------------------------------------------
(* Deletion. *)

KeysOf(p) == {m.key : m \in {x \in members : x.who = p}}
MutNothingLive(p) == FALSE
Unfinished(p) == \E s \in sessions : s.key \in KeysOf(p) /\ s.lifecycle # "ended"

\* participant_id_for_research_id finds the people who have been in a session
\* (others are answered as already absent), and the handler looks at a preview
\* of its own (a conflict while a session is unfinished).
RequestDeletion(p) ==
    /\ deletion.step = "idle" /\ KeysOf(p) # {} /\ ~Unfinished(p)
    /\ deletion' = [NoDeletion EXCEPT !.step = "preview", !.who = {p}]
    /\ UNCHANGED <<tables, memory, export, keyReused>>

\* delete_participant_data: sqlite_participant_data_preview, before the transaction.
PreviewDeletion(p) ==
    /\ deletion.step = "preview" /\ deletion.who = {p}
    /\ deletion' = IF Unfinished(p) THEN [deletion EXCEPT !.step = "blocked"]
                   ELSE [deletion EXCEPT !.step = "commit",
                            !.dialogues = {s.dialogue : s \in {x \in sessions : x.key \in KeysOf(p)}}]
    /\ UNCHANGED <<tables, memory, export, keyReused>>

\* The transaction.  The row of a submission, and an event in a session the
\* person never got a row in, still reference the participant, whose deletion
\* then fails and takes the transaction with it.
StillReferenced(p) == p \in submissions \/ \E e \in events : e.who = p /\ e.key \notin KeysOf(p)
CommitDeletion(p) ==
    /\ deletion.step = "commit" /\ deletion.who = {p}
    /\ \/ /\ Unfinished(p) /\ deletion' = [deletion EXCEPT !.step = "failed"] /\ UNCHANGED tables
       \/ /\ ~Unfinished(p) /\ StillReferenced(p)
          /\ deletion' = [deletion EXCEPT !.step = "failed"] /\ UNCHANGED tables
       \/ /\ ~Unfinished(p) /\ ~StillReferenced(p)
          /\ consents' = {c \in consents : c.who # p /\ c.key \notin KeysOf(p)}
          /\ events' = {e \in events : e.key \notin KeysOf(p)}
          /\ members' = {m \in members : m.key \notin KeysOf(p)}
          /\ sessions' = {s \in sessions : s.dialogue \notin deletion.dialogues}
          /\ people' = people \ {p}
          /\ deletion' = [deletion EXCEPT !.step = "deleted"]
          /\ UNCHANGED submissions
    /\ UNCHANGED <<memory, export, keyReused>>

-----------------------------------------------------------------------------
(* Export: export_rows reads one table after the other. *)

\* exclude_testing_sessions and exclude_unstarted_sessions, each followed by
\* the restriction of the other tables to the sessions that are left.
Published(s) == s.purpose # "testing" /\ s.started
Filtered(x) ==
    LET kept == {s \in x.sessions : Published(s)}
        keys == {s.key : s \in kept}
        seated == {m \in x.members : m.key \in keys} IN
    [x EXCEPT !.sessions = kept, !.members = seated,
              !.events = {e \in x.events : e.key \in keys /\ e.kind = "message"},
              !.people = {p \in x.people : \E m \in seated : m.who = p}]

\* corpus_experiment_export: what is no integrity error.
MutSound(x) == TRUE
Sound(x) ==
    /\ \A s \in x.sessions : Cardinality(Of(s.key, x.members)) = 2
    /\ \A m \in x.members : m.who \in x.people
    /\ \A e \in x.events : e.who \in x.people

\* admin_export hands the projection out after the last table.  An export that
\* begins before any session has started is empty; the model leaves it out.
ReadSessions ==
    /\ export.step = "idle" /\ \E s \in sessions : s.started
    /\ export' = [export EXCEPT !.step = "events", !.sessions = sessions]
    /\ UNCHANGED <<tables, memory, deletion, keyReused>>
ReadEvents ==
    /\ export.step = "events" /\ export' = [export EXCEPT !.step = "people", !.events = events]
    /\ UNCHANGED <<tables, memory, deletion, keyReused>>
ReadPeople ==
    /\ export.step = "people"
    /\ export' = [export EXCEPT !.step = "members", !.people = people \cap {m.who : m \in members}]
    /\ UNCHANGED <<tables, memory, deletion, keyReused>>
ReadMembers ==
    LET x == Filtered([export EXCEPT !.members = members]) IN
    /\ export.step = "members"
    /\ export' = IF Sound(x) THEN [x EXCEPT !.step = "done"] ELSE [NoExport EXCEPT !.step = "integrity_error"]
    /\ UNCHANGED <<tables, memory, deletion, keyReused>>

DataNext ==
    \/ \E p \in Person : \/ Arrive(p) \/ CreateSession(p)
                         \/ RequestDeletion(p) \/ PreviewDeletion(p) \/ CommitDeletion(p)
    \/ \E d \in Dialogue : \/ Start(d) \/ EndInStore(d) \/ EndInMemory(d) \/ Forget(d)
                           \/ \E p \in Person : \/ Pair(d, p) \/ PersistMember(d, p)
                                                \/ \E kind \in {"message", "diagnostic"} : WriteRow(d, p, kind)
    \/ \E p \in Person, d \in Dialogue \cup {0} : Consent(p, d)
    \/ ReadSessions \/ ReadEvents \/ ReadPeople \/ ReadMembers

DataSpec == DataInit /\ [][DataNext]_dataVars

-----------------------------------------------------------------------------
(* Properties. *)

\* Once a deletion has committed, no table has a row of that person and no row
\* of the sessions the preview named, whatever requests of theirs were under
\* way and come back later (delete_participant_data and the foreign keys that
\* refuse a straggler).  A key that has been given again is the exception.
DeletedIsGone ==
    deletion.step = "deleted" =>
        /\ \A p \in deletion.who :
              /\ p \notin people /\ \A x \in members \cup consents \cup events : x.who # p
        /\ \A s \in sessions : s.dialogue \notin deletion.dialogues
        /\ keyReused \/ \A e \in events : e.dialogue \notin deletion.dialogues

\* A deletion takes nothing from a session that has not ended, whatever happens
\* between the handler's look, the preview and the transaction
\* (delete_participant_data).
UnfinishedIsSpared ==
    [][\A s \in sessions : s.lifecycle # "ended" =>
          /\ \E t \in sessions' : t.dialogue = s.dialogue
          /\ Cardinality(Of(s.key, members)) <= Cardinality(Of(s.key, members'))
          /\ Of(s.key, events) \subseteq events']_dataVars

\* A corpus that is handed out describes what was played although its tables
\* were read at different moments: a published session was started and is no
\* test, its two players are those who sat in it, its messages were written in
\* it by one of them (export_rows, corpus_experiment_export).  Again a key
\* given twice is the exception.
CorpusIsFaithful ==
    export.step = "done" /\ ~keyReused =>
        \A s \in export.sessions :
            LET seats == live[s.dialogue].seats IN
            /\ s.started /\ seats \cap testers = {} /\ Cardinality(seats) = 2
            /\ {m.who : m \in Of(s.key, export.members)} = seats
            /\ \A e \in Of(s.key, export.events) : e.dialogue = s.dialogue /\ e.who \in seats

\* Stated by docs/data-and-monitoring.md: only live or unfinished sessions
\* block a deletion.
OnlyUnfinishedBlocks ==
    deletion.step = "failed" => \A p \in deletion.who : Unfinished(p)
=============================================================================

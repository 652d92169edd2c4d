------------------------------ MODULE Admission ------------------------------
(***************************************************************************)
(* Participant intake of one experiment runtime: create_participant,       *)
(* consent, create_session with matchmaking and the capacity limits, the   *)
(* agent that joins a reserved session, and the cleanup of participants    *)
(* who are in no room.  A participant may have several requests in flight  *)
(* (two tabs, a retry); every action is a step between two awaits.         *)
(***************************************************************************)
EXTENDS Naturals, FiniteSets

CONSTANTS
    Participant,      \* participant sessions
    Tabs,             \* how many requests each participant has in flight
    Session,          \* public session ids, each used once
    MaxUnattached, MaxWaiting, MaxActive, MaxStreams,   \* config.capacity
    FirstIntake,      \* intake when the runtime is built
    MaxSwitches,      \* bound: status changes by the administrator
    MaxSpare,         \* bound: agent entries that are in no room
    MaxCleanups       \* bound: entries of participants that are dropped

Purpose == {"testing", "research"}

ASSUME CapacityAssumption ==
    /\ MaxUnattached \in Nat /\ MaxWaiting \in Nat /\ MaxActive \in Nat
    /\ MaxStreams \in Nat /\ MaxSwitches \in Nat /\ MaxSpare \in Nat
    /\ MaxCleanups \in Nat
ASSUME FiniteAssumption ==
    /\ FirstIntake \in Purpose \cup {"closed"}
    /\ IsFiniteSet(Participant) /\ IsFiniteSet(Session)
    /\ Tabs \in [Participant -> Nat]

Nobody == "nobody"
Agent == "agent"
Role == {"A", "B"}

ASSUME NamesAssumption ==
    /\ Nobody \notin Participant /\ Agent \notin Participant /\ Nobody \notin Session

VARIABLES
    withAgent,   \* AgentsMode::HumanVsAgent
    intake,      \* the purpose of the open lifecycle, or "closed"
    switches,    \* status changes left
    known,       \* MemoryState.participants: purpose and consent of each
    fresh,       \* participants who have not been in a session yet
    spare,       \* entries of agents that are in no room
    cleanups,    \* cleanups left
    swept,       \* cleanup: somebody it saw in no room, or Nobody
    declared,    \* participants with a stored declaration of consent
    finished,    \* participants with a stored terminal result
    session,     \* MemoryState.sessions
    lock,        \* holder of session_admission
    request      \* progress of each request

people == <<known, fresh, spare, cleanups, swept, declared, finished>>
vars == <<withAgent, intake, switches, people, session, lock, request>>

Unknown == [in |-> FALSE, purpose |-> "research", consent |-> FALSE]
Free == [life |-> "free", purpose |-> "research", seat |-> [r \in Role |-> Nobody],
         agent |-> FALSE]
Gone == [Free EXCEPT !.life = "gone"]
Idle == [pc |-> "idle", answer |-> FALSE, purpose |-> "research", target |-> Nobody]
Request == UNION {{p} \X (1..Tabs[p]) : p \in Participant}

Init ==
    /\ withAgent \in BOOLEAN
    /\ intake = FirstIntake /\ switches = MaxSwitches
    /\ known = [p \in Participant |-> Unknown]
    /\ fresh = {} /\ finished = {} /\ spare = 0 /\ swept = Nobody /\ declared = {}
    /\ cleanups = MaxCleanups
    /\ session = [s \in Session |-> Free]
    /\ lock = << >>
    /\ request = [q \in Request |-> Idle]

Seated(s) == {session[s].seat[r] : r \in Role} \ {Nobody}
Attached == (UNION {Seated(s) : s \in Session}) \ {Agent}
KnownOnes == {p \in Participant : known[p].in}

\* What ensure_session_capacity counts: rooms that wait, rooms that run and the
\* transcription streams reserved for the humans of both.
Waiting == {s \in Session : session[s].life = "forming" /\ Cardinality(Seated(s)) < 2}
Active == {s \in Session : session[s].life = "running"}
Streams == {x \in Session \X Role : /\ session[x[1]].life \in {"forming", "running"}
                                    /\ session[x[1]].seat[x[2]] \in Participant}

\* Requests that hold the read guard of the experiment's lifecycle.
Guarded == {"record", "admit", "join", "insert", "complete", "persist"}
Entering == {q \in Request : request[q].pc \in Guarded}

SetPc(q, pc) == request' = [request EXCEPT ![q].pc = pc]
Return(q) == request' = [request EXCEPT ![q] = Idle]
\* The owned guard is dropped by whoever holds it.
Unlock(q) == lock' = IF lock = q THEN << >> ELSE lock

-----------------------------------------------------------------------------
(* The administrator opens and closes intake, under the write guard of the *)
(* lifecycle (admin_update_experiment_status; with no runtime cache the    *)
(* same AppState lives through it).                                        *)
SwitchIntake(to) ==
    /\ switches > 0 /\ Entering = {}
    /\ IF intake = "closed" THEN to \in Purpose ELSE to = "closed"
    /\ intake' = to /\ switches' = switches - 1
    /\ UNCHANGED <<withAgent, people, session, lock, request>>
-----------------------------------------------------------------------------
(* create_participant_inner: lifecycle guard, admission lock, count,       *)
(* durable identity, entry in memory.  Agents whose room is not there yet, *)
(* or no longer, count as well.  (Launching again while the entry is there *)
(* changes nothing, and is left out.)                                      *)

Unattached == Cardinality(KnownOnes \ Attached) + spare

\* Mutant: the admission lock is not held while the identity is stored.
ParticipantCountUnlocked(q) ==
    /\ request[q].pc = "idle" /\ ~known[q[1]].in /\ intake # "closed"
    /\ Unattached < MaxUnattached
    /\ request' = [request EXCEPT ![q].pc = "record", ![q].purpose = intake]
    /\ UNCHANGED <<withAgent, intake, switches, people, session, lock>>

ParticipantCount(q) ==
    /\ request[q].pc = "idle" /\ ~known[q[1]].in /\ intake # "closed" /\ lock = << >>
    /\ Unattached < MaxUnattached
    /\ lock' = q
    /\ request' = [request EXCEPT ![q].pc = "record", ![q].purpose = intake]
    /\ UNCHANGED <<withAgent, intake, switches, people, session>>

\* create_participant_with_id: a Prolific participant who launches again gets
\* the entry that is there.
ParticipantInsert(q) ==
    LET p == q[1] IN
    /\ request[q].pc = "record"
    /\ known' = IF known[p].in THEN known
                ELSE [known EXCEPT ![p] = [in |-> TRUE, purpose |-> request[q].purpose,
                                           consent |-> FALSE]]
    /\ fresh' = IF known[p].in \/ p \in Attached THEN fresh ELSE fresh \cup {p}
    /\ Unlock(q) /\ Return(q)
    /\ UNCHANGED <<withAgent, intake, switches, spare, cleanups, swept, declared, finished, session>>

\* The store refuses the identity.
ParticipantFails(q) ==
    /\ request[q].pc = "record" /\ Unlock(q) /\ Return(q)
    /\ UNCHANGED <<withAgent, intake, switches, people, session>>
-----------------------------------------------------------------------------
(* cleanup_expired_participants: who is in a room is read under one guard, *)
(* the stale entries of the others are dropped under the next.             *)

CleanupLook(p) ==
    /\ cleanups > 0 /\ cleanups' = cleanups - 1
    /\ swept = Nobody /\ known[p].in /\ p \notin Attached /\ swept' = p
    /\ UNCHANGED <<withAgent, intake, switches, known, fresh, spare, declared, finished,
                   session, lock, request>>

CleanupForget ==
    /\ swept # Nobody /\ swept' = Nobody
    /\ known' = [known EXCEPT ![swept] = Unknown]
    /\ fresh' = fresh \ {swept}
    /\ UNCHANGED <<withAgent, intake, switches, spare, cleanups, declared, finished, session,
                   lock, request>>

CleanupForgetAgent ==
    /\ spare > 0 /\ spare' = spare - 1
    /\ UNCHANGED <<withAgent, intake, switches, known, fresh, cleanups, swept, declared, finished, session,
                   lock, request>>
-----------------------------------------------------------------------------
(* consent: an answer that differs from memory is stored, then applied.    *)

\* Mutant: memory first.
ConsentReadApplies(q, answer) ==
    /\ request[q].pc = "idle" /\ known[q[1]].in /\ known[q[1]].consent # answer
    /\ known' = [known EXCEPT ![q[1]].consent = answer]
    /\ request' = [request EXCEPT ![q].pc = "declare", ![q].answer = answer]
    /\ UNCHANGED <<withAgent, intake, switches, fresh, spare, cleanups, swept, declared, finished,
                   session, lock>>

ConsentRead(q, answer) ==
    /\ request[q].pc = "idle" /\ known[q[1]].in /\ known[q[1]].consent # answer
    /\ request' = [request EXCEPT ![q].pc = "declare", ![q].answer = answer]
    /\ UNCHANGED <<withAgent, intake, switches, people, session, lock>>

ConsentRecord(q) ==
    /\ request[q].pc = "declare"
    /\ declared' = IF request[q].answer THEN declared \cup {q[1]} ELSE declared
    /\ SetPc(q, "apply")
    /\ UNCHANGED <<withAgent, intake, switches, known, fresh, spare, cleanups, swept, finished,
                   session, lock>>

ConsentFails(q) ==
    /\ request[q].pc = "declare" /\ Return(q)
    /\ UNCHANGED <<withAgent, intake, switches, people, session, lock>>

ConsentApply(q) ==
    /\ request[q].pc = "apply"
    /\ known' = IF known[q[1]].in THEN [known EXCEPT ![q[1]].consent = request[q].answer]
                ELSE known
    /\ Return(q)
    /\ UNCHANGED <<withAgent, intake, switches, fresh, spare, cleanups, swept, declared, finished,
                   session, lock>>
-----------------------------------------------------------------------------
(* create_session, before the admission lock.                              *)

\* A participant who is in a room gets the state of that room.
SessionLook(q) ==
    /\ request[q].pc = "idle" /\ known[q[1]].in /\ q[1] \notin Attached
    /\ SetPc(q, "terminal")
    /\ UNCHANGED <<withAgent, intake, switches, people, session, lock>>

\* terminal_participant_state: a stored result is the answer.
SessionTerminal(q) ==
    /\ request[q].pc = "terminal"
    /\ IF q[1] \in finished THEN Return(q) ELSE SetPc(q, "gate")
    /\ UNCHANGED <<withAgent, intake, switches, people, session, lock>>

\* require_open_experiment, require_consent
SessionGate(q) ==
    /\ request[q].pc = "gate"
    /\ intake # "closed" /\ known[q[1]].in /\ known[q[1]].consent
    /\ SetPc(q, "admit")
    /\ UNCHANGED <<withAgent, intake, switches, people, session, lock>>

\* One of them refuses, or require_session_storage_reserve does.
SessionRefused(q) ==
    /\ request[q].pc = "gate" /\ Return(q)
    /\ UNCHANGED <<withAgent, intake, switches, people, session, lock>>
-----------------------------------------------------------------------------
(* create_session, under the admission lock.                               *)

\* open_human_session_for_pairing
OpenFor(purpose) ==
    {s \in Session : /\ session[s].life = "forming" /\ session[s].purpose = purpose
                     /\ session[s].seat["A"] # Nobody /\ session[s].seat["B"] = Nobody}

\* Mutant: the stream that is asked for is not added.
StreamFreeOffByOne == Cardinality(Streams) <= MaxStreams

\* ensure_session_capacity
StreamFree == Cardinality(Streams) + 1 <= MaxStreams
WaitingFree == Cardinality(Waiting) < MaxWaiting /\ StreamFree
ActiveFree == Cardinality(Active) < MaxActive /\ StreamFree

\* A room that waits for a partner.
SessionPair(q) ==
    LET p == q[1] IN
    /\ request[q].pc = "admit" /\ lock = << >> /\ ~withAgent /\ known[p].in
    /\ \E s \in OpenFor(known[p].purpose) :
          request' = [request EXCEPT ![q].pc = "join", ![q].target = s]
    /\ lock' = q
    /\ UNCHANGED <<withAgent, intake, switches, people, session>>

\* Mutant: the capacity is checked before the lock is taken.
SessionReserveUnlocked(q) ==
    LET p == q[1] IN
    /\ request[q].pc = "admit" /\ known[p].in
    /\ IF withAgent THEN ActiveFree ELSE OpenFor(known[p].purpose) = {} /\ WaitingFree
    /\ request' = [request EXCEPT ![q].pc = "insert", ![q].purpose = known[p].purpose]
    /\ UNCHANGED <<withAgent, intake, switches, people, session, lock>>

\* None: capacity for a new one, waiting for a partner or with an agent.
SessionReserve(q) ==
    LET p == q[1] IN
    /\ request[q].pc = "admit" /\ lock = << >> /\ known[p].in
    /\ IF withAgent THEN ActiveFree ELSE OpenFor(known[p].purpose) = {} /\ WaitingFree
    /\ request' = [request EXCEPT ![q].pc = "insert", ![q].purpose = known[p].purpose]
    /\ lock' = q
    /\ UNCHANGED <<withAgent, intake, switches, people, session>>

\* No capacity, or the participant's entry is gone.
SessionFull(q) ==
    LET p == q[1] IN
    /\ request[q].pc = "admit" /\ lock = << >>
    /\ \/ ~known[p].in
       \/ withAgent /\ ~ActiveFree
       \/ ~withAgent /\ OpenFor(known[p].purpose) = {} /\ ~WaitingFree
    /\ Return(q)
    /\ UNCHANGED <<withAgent, intake, switches, people, session, lock>>

\* add_human_participant_to_session_locked, whose checks are not those of the
\* look: the room may have ended, and a participant who is in it keeps the seat.
Fits(p, s) ==
    /\ ActiveFree /\ known[p].in /\ session[s].life # "gone"
    /\ session[s].purpose = known[p].purpose
    /\ p \in Seated(s) \/ session[s].seat["B"] = Nobody

SessionJoin(q) ==
    LET p == q[1]
        s == request[q].target
    IN  /\ request[q].pc = "join" /\ Fits(p, s)
        /\ session' = IF p \in Seated(s) THEN session
                      ELSE [session EXCEPT ![s].seat["B"] = p]
        /\ fresh' = fresh \ {p}
        /\ SetPc(q, "persist") /\ Unlock(q)
        /\ UNCHANGED <<withAgent, intake, switches, known, spare, cleanups, swept, declared, finished>>

SessionJoinFails(q) ==
    /\ request[q].pc = "join" /\ ~Fits(q[1], request[q].target)
    /\ Unlock(q) /\ Return(q)
    /\ UNCHANGED <<withAgent, intake, switches, people, session>>

\* Mutant: the room gets the purpose of the experiment's current lifecycle.
SessionInsertCurrent(q, s) ==
    /\ request[q].pc = "insert" /\ session[s].life = "free"
    /\ session' = [session EXCEPT ![s] = [Free EXCEPT !.life = "forming", !.purpose = intake,
                                                      !.seat["A"] = q[1]]]
    /\ fresh' = fresh \ {q[1]}
    /\ request' = [request EXCEPT ![q] = [Idle EXCEPT !.pc = "complete", !.target = s]]
    /\ UNCHANGED <<withAgent, intake, switches, known, spare, cleanups, swept, declared, finished, lock>>

\* create_live_session_locked: the row is stored, the room put into memory ...
SessionInsert(q, s) ==
    /\ request[q].pc = "insert" /\ session[s].life = "free"
    /\ session' = [session EXCEPT ![s] = [Free EXCEPT !.life = "forming",
                                                      !.purpose = request[q].purpose,
                                                      !.seat["A"] = q[1]]]
    /\ fresh' = fresh \ {q[1]}
    /\ request' = [request EXCEPT ![q] = [Idle EXCEPT !.pc = "complete", !.target = s]]
    /\ UNCHANGED <<withAgent, intake, switches, known, spare, cleanups, swept, declared, finished, lock>>

\* ... or refused: by the store, the log, the game (fail_session_initialization).
SessionInsertFails(q) ==
    /\ request[q].pc = "insert" /\ Unlock(q) /\ Return(q)
    /\ UNCHANGED <<withAgent, intake, switches, people, session>>

\* complete_session_initialization: then the lock is released ...
SessionComplete(q) ==
    /\ request[q].pc = "complete"
    /\ SetPc(q, "persist") /\ Unlock(q)
    /\ UNCHANGED <<withAgent, intake, switches, people, session>>

\* ... or the row has been closed, or cannot be written: the room is removed.
SessionCompleteFails(q) ==
    /\ request[q].pc = "complete"
    /\ session' = [session EXCEPT ![request[q].target] = Gone]
    /\ Unlock(q) /\ Return(q)
    /\ UNCHANGED <<withAgent, intake, switches, people>>

\* persist_session_participant.  Then the agent, if there is to be one, gets its
\* entry in memory, unless its room has moved on (try_construct_and_join_agent).
SessionPersist(q) ==
    LET s == request[q].target
        enroll == withAgent /\ session[s].life = "forming"
    IN  /\ request[q].pc = "persist" /\ Return(q)
        /\ enroll => spare < MaxSpare
        /\ session' = IF enroll THEN [session EXCEPT ![s].agent = TRUE] ELSE session
        /\ spare' = IF enroll THEN spare + 1 ELSE spare
        /\ UNCHANGED <<withAgent, intake, switches, known, fresh, cleanups, swept, declared, finished, lock>>

SessionPersistFails(q) ==
    /\ request[q].pc = "persist" /\ Return(q)
    /\ UNCHANGED <<withAgent, intake, switches, people, session, lock>>
-----------------------------------------------------------------------------
(* try_construct_and_join_agent, once the agent is under construction.     *)

\* Mutant: the entry may have been cleaned up.
AgentJoinUnchecked(s) ==
    /\ session[s].agent /\ session[s].life = "forming" /\ session[s].seat["B"] = Nobody
    /\ session' = [session EXCEPT ![s].seat["B"] = Agent]
    /\ spare' = spare - 1
    /\ UNCHANGED <<withAgent, intake, switches, known, fresh, cleanups, swept, declared, finished,
                   lock, request>>

AgentJoin(s) ==
    /\ session[s].agent /\ session[s].life = "forming" /\ session[s].seat["B"] = Nobody
    /\ spare > 0
    /\ session' = [session EXCEPT ![s].seat["B"] = Agent]
    /\ spare' = spare - 1
    /\ UNCHANGED <<withAgent, intake, switches, known, fresh, cleanups, swept, declared, finished,
                   lock, request>>

\* persist_session_participant
AgentPersist(s) ==
    /\ session[s].agent /\ session[s].seat["B"] = Agent
    /\ session' = [session EXCEPT ![s].agent = FALSE]
    /\ UNCHANGED <<withAgent, intake, switches, people, lock, request>>

\* Participants whose row is stored get the result of an ended room.
Results(s) ==
    LET unstored == {q[1] : q \in {r \in Request : /\ request[r].target = s
                                                   /\ request[r].pc \in {"complete", "persist"}}}
    IN  Seated(s) \ ({Agent} \cup unstored)

\* The factory fails or is too slow, the room has moved on, or the row cannot be
\* stored: the agent leaves its seat, its entry stays, and construct_and_join_agent
\* expires the room, unless that fails too.
AgentFails(s, expires) ==
    LET seated == session[s].seat["B"] = Agent IN
    /\ session[s].agent
    /\ seated => spare < MaxSpare
    /\ expires => session[s].life = "forming"
    /\ spare' = IF seated THEN spare + 1 ELSE spare
    /\ session' = [session EXCEPT ![s].agent = FALSE, ![s].seat["B"] = Nobody,
                                  ![s].life = IF expires THEN "ended" ELSE @]
    /\ finished' = IF expires THEN finished \cup Results(s) ELSE finished
    /\ UNCHANGED <<withAgent, intake, switches, known, fresh, cleanups, swept, declared,
                   lock, request>>
-----------------------------------------------------------------------------
(* The life of a room, as far as admission sees it.                        *)

\* maybe_start_game
Start(s) ==
    /\ session[s].life = "forming" /\ ~session[s].agent
    /\ \A r \in Role : session[s].seat[r] # Nobody
    /\ session' = [session EXCEPT ![s].life = "running"]
    /\ UNCHANGED <<withAgent, intake, switches, people, lock, request>>

\* end_session
Finish(s) ==
    /\ session[s].life \in {"forming", "running"}
    /\ session' = [session EXCEPT ![s].life = "ended"]
    /\ finished' = finished \cup Results(s)
    /\ UNCHANGED <<withAgent, intake, switches, known, fresh, spare, cleanups, swept, declared,
                   lock, request>>

\* cleanup_transient_rooms: an agent that sat in the room is in none now, one that
\* is under construction will find no room.
Sweep(s) ==
    /\ session[s].life = "ended"
    /\ Agent \in Seated(s) => spare < MaxSpare
    /\ session' = [session EXCEPT ![s] = Gone]
    /\ spare' = IF Agent \in Seated(s) THEN spare + 1 ELSE spare
    /\ UNCHANGED <<withAgent, intake, switches, known, fresh, cleanups, swept, declared, finished,
                   lock, request>>

SessionStep(q) ==
    \/ SessionLook(q) \/ SessionTerminal(q) \/ SessionGate(q) \/ SessionRefused(q)
    \/ SessionPair(q) \/ SessionReserve(q) \/ SessionFull(q)
    \/ SessionJoin(q) \/ SessionJoinFails(q)
    \/ (\E s \in Session : SessionInsert(q, s)) \/ SessionInsertFails(q)
    \/ SessionComplete(q) \/ SessionCompleteFails(q)
    \/ SessionPersist(q) \/ SessionPersistFails(q)

\* Bound: the other tabs of a participant only ask for a session.
FirstTab == {q \in Request : q[2] = 1}
Unentered(q) == q[1] \in fresh   \* bound: answers are given before the first room

Next ==
    \/ \E q \in Request : SessionStep(q)
    \/ \E q \in FirstTab : \/ ParticipantCount(q) \/ ParticipantInsert(q) \/ ParticipantFails(q)
                           \/ \E answer \in BOOLEAN : Unentered(q) /\ ConsentRead(q, answer)
                           \/ ConsentRecord(q) \/ ConsentFails(q) \/ ConsentApply(q)
    \/ (\E p \in Participant : CleanupLook(p)) \/ CleanupForget \/ CleanupForgetAgent
    \/ \E s \in Session : \/ AgentJoin(s) \/ AgentPersist(s)
                          \/ \E expires \in BOOLEAN : AgentFails(s, expires)
                          \/ Start(s) \/ Finish(s) \/ Sweep(s)
    \/ \E to \in Purpose \cup {"closed"} : SwitchIntake(to)

Spec == Init /\ [][Next]_vars
-----------------------------------------------------------------------------
(* Properties *)

Pc == {"idle", "record", "declare", "apply", "terminal", "gate", "admit", "join", "insert",
       "complete", "persist"}

\* Every variable has its type: no agent takes a seat without an entry in memory,
\* participants without a room are among the known ones.
TypeOK ==
    /\ withAgent \in BOOLEAN
    /\ intake \in Purpose \cup {"closed"} /\ switches \in 0..MaxSwitches
    /\ known \in [Participant -> [in : BOOLEAN, purpose : Purpose, consent : BOOLEAN]]
    /\ fresh \subseteq KnownOnes /\ finished \subseteq Participant
    /\ spare \in 0..MaxSpare
    /\ cleanups \in 0..MaxCleanups /\ swept \in Participant \cup {Nobody} /\ declared \subseteq Participant
    /\ session \in [Session -> [life : {"free", "forming", "running", "ended", "gone"},
                                purpose : Purpose,
                                seat : [Role -> Participant \cup {Nobody, Agent}],
                                agent : BOOLEAN]]
    /\ request \in [Request -> [pc : Pc, answer : BOOLEAN, purpose : Purpose,
                                target : Session \cup {Nobody}]]
    /\ lock \in Request \cup {<< >>}

\* However create_session requests of several participants and tabs interleave,
\* human-human rooms that wait for a partner never exceed max_waiting_sessions
\* (ensure_session_capacity is read before the room exists).
WaitingWithinLimit == withAgent \/ Cardinality(Waiting) <= MaxWaiting

\* Reserved transcription streams never exceed max_transcription_streams, over
\* waiting and running rooms together.
StreamsWithinLimit == Cardinality(Streams) <= MaxStreams

\* Participants who have been created and were never in a room stay within
\* max_unattached_participants, though create_participant stores an identity
\* between the count and the entry.  (Those who come back from a room that was
\* cleaned up are counted but not limited.)
FreshWithinLimit == Cardinality(fresh) <= MaxUnattached

\* Somebody in a room has a stored declaration of consent: no order of consent
\* and create_session requests enters the game on an answer that was not stored.
ConsentBeforeEntry == Attached \subseteq declared

\* Nobody is put into a room of another purpose than their own, also when the
\* experiment is switched from testing to research between the participant's
\* creation and create_session.
PurposesNeverMix ==
    [][\A s \in Session, r \in Role :
          LET p == session'[s].seat[r] IN
          p \in Participant /\ p # session[s].seat[r] /\ known[p].in
             => session'[s].purpose = known[p].purpose]_vars

\* A participant is in at most one room that has not ended.  Refuted: two
\* create_session requests of one participant both pass the look before either
\* takes the admission lock, and the second one is not compared with the first.
SeatedOnce ==
    \A s, t \in Session : /\ session[s].life \in {"forming", "running"}
                          /\ session[t].life \in {"forming", "running"} /\ s # t
                          => Seated(s) \cap Seated(t) \subseteq {Agent}

\* Running rooms stay within max_active_sessions.  Refuted: a room that is
\* admitted as active is counted as neither waiting nor active until it starts.
ActiveWithinLimit == Cardinality(Active) <= MaxActive

\* Somebody who sits in a room keeps the entry in memory and with it the
\* credential.  Refuted: cleanup_expired_participants drops entries by a list of
\* rooms it read before somebody was seated.
SeatedIsKnown == \A p \in Attached : known[p].in

\* What create_participant, consent and create_session keep between them: every
\* limit at every moment, and nobody inside whose consent is not stored.
AdmissionIsSound ==
    /\ TypeOK
    /\ WaitingWithinLimit /\ StreamsWithinLimit /\ FreshWithinLimit
    /\ ConsentBeforeEntry
=============================================================================

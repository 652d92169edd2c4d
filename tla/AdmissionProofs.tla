-------------------------- MODULE AdmissionProofs ---------------------------
(***************************************************************************)
(* Proofs about Admission, for any participants, any number of tabs, any   *)
(* session ids and any limits.                                             *)
(***************************************************************************)
EXTENDS Admission, FiniteSetTheorems, TLAPS

Entry == [in : BOOLEAN, purpose : Purpose, consent : BOOLEAN]
Somebody == Participant \cup {Nobody, Agent}
Life == {"free", "forming", "running", "ended", "gone"}
Room == [life : Life, purpose : Purpose, seat : [Role -> Somebody], agent : BOOLEAN]
Task == [pc : Pc, answer : BOOLEAN, purpose : Purpose, target : Session \cup {Nobody}]

\* Requests that hold the admission lock.
Locked == {"record", "join", "insert", "complete"}

\* What a request has been promised: the lock while it is between a count and
\* the entry that was counted, and with it the place it counted; a declaration
\* of consent once it has passed the gate; a room to go to.
Promised(q) ==
    /\ request[q].pc \in Locked => lock = q
    /\ request[q].pc = "record" => Cardinality(fresh) < MaxUnattached
    /\ request[q].pc = "insert" => /\ StreamFree
                                   /\ withAgent \/ Cardinality(Waiting) < MaxWaiting
                                   /\ known[q[1]].in => request[q].purpose = known[q[1]].purpose
    /\ request[q].pc \in {"admit", "join", "insert"} => q[1] \in declared
    /\ request[q].pc = "apply" /\ request[q].answer => q[1] \in declared
    /\ request[q].pc \in {"join", "complete", "persist"} => request[q].target \in Session

\* Consent in memory is consent in the store.
ConsentIsStored == \A p \in Participant : known[p].consent => p \in declared

\* Somebody who is fresh is in no room.
FreshAreUnattached == fresh \cap Attached = {}

\* Without agents there is no agent to wait for.
NoAgents == withAgent \/ \A s \in Session : ~session[s].agent

IInv ==
    /\ TypeOK /\ (\A q \in Request : Promised(q))
    /\ WaitingWithinLimit /\ StreamsWithinLimit /\ FreshWithinLimit
    /\ ConsentBeforeEntry /\ ConsentIsStored
    /\ FreshAreUnattached /\ NoAgents
-----------------------------------------------------------------------------
(***************************************************************************)
(* Types.                                                                  *)
(***************************************************************************)

\* The steps of a request, and those of a room.
RequestStep(q) ==
    \/ SessionStep(q)
    \/ ParticipantCount(q) \/ ParticipantInsert(q) \/ ParticipantFails(q)
    \/ \E answer \in BOOLEAN : ConsentRead(q, answer)
    \/ ConsentRecord(q) \/ ConsentFails(q) \/ ConsentApply(q)

RoomStep(s) ==
    \/ AgentJoin(s) \/ AgentPersist(s) \/ (\E expires \in BOOLEAN : AgentFails(s, expires))
    \/ Start(s) \/ Finish(s) \/ Sweep(s)

Housekeeping ==
    \/ (\E p \in Participant : CleanupLook(p)) \/ CleanupForget \/ CleanupForgetAgent
    \/ \E to \in Purpose \cup {"closed"} : SwitchIntake(to)

\* Every step is one of these.
LEMMA StepKinds ==
    ASSUME [Next]_vars
    PROVE  \/ \E q \in Request : RequestStep(q)
           \/ \E s \in Session : RoomStep(s)
           \/ Housekeeping
           \/ UNCHANGED vars
BY DEF Next, RequestStep, RoomStep, Housekeeping, FirstTab

\* A request is one of its participant, and not the free lock.
LEMMA RequestPairs ==
    \A q \in Request : q[1] \in Participant /\ q # << >>
<1>1. \A q \in Request : \E p \in Participant : \E i \in 1..Tabs[p] : q = <<p, i>>
  BY DEF Request
<1>2. QED
  BY <1>1

\* TypeOK, with the types of its parts named.
LEMMA TypeParts ==
    /\ TypeOK <=> /\ withAgent \in BOOLEAN /\ intake \in Purpose \cup {"closed"} /\ switches \in 0..MaxSwitches
                  /\ known \in [Participant -> Entry] /\ fresh \subseteq KnownOnes
                  /\ finished \subseteq Participant /\ spare \in 0..MaxSpare /\ cleanups \in 0..MaxCleanups
                  /\ swept \in Participant \cup {Nobody} /\ declared \subseteq Participant
                  /\ session \in [Session -> Room] /\ request \in [Request -> Task]
                  /\ lock \in Request \cup {<< >>}
    /\ TypeOK' <=> /\ withAgent' \in BOOLEAN /\ intake' \in Purpose \cup {"closed"} /\ switches' \in 0..MaxSwitches
                   /\ known' \in [Participant -> Entry] /\ fresh' \subseteq KnownOnes'
                   /\ finished' \subseteq Participant /\ spare' \in 0..MaxSpare /\ cleanups' \in 0..MaxCleanups
                   /\ swept' \in Participant \cup {Nobody} /\ declared' \subseteq Participant
                   /\ session' \in [Session -> Room] /\ request' \in [Request -> Task]
                   /\ lock' \in Request \cup {<< >>}
BY DEF TypeOK, Entry, Room, Task, Life, Somebody

\* A request at rest, an entry that is not there, a room without anybody.
LEMMA RestTypes ==
    /\ Idle \in Task /\ Idle.pc = "idle" /\ Idle.answer = FALSE
    /\ \A s \in Session : [Idle EXCEPT !.pc = "complete", !.target = s] \in Task
    /\ Unknown \in Entry /\ Unknown.in = FALSE /\ Unknown.consent = FALSE
    /\ Free \in Room /\ Free.life = "free" /\ Free.agent = FALSE
    /\ Gone \in Room /\ Gone.life = "gone" /\ Gone.agent = FALSE
    /\ \A r \in Role : Free.seat[r] = Nobody /\ Gone.seat[r] = Nobody
<1>1. /\ Idle \in Task /\ Idle.pc = "idle" /\ Idle.answer = FALSE
      /\ \A s \in Session : [Idle EXCEPT !.pc = "complete", !.target = s] \in Task
  BY DEF Idle, Task, Pc, Purpose
<1>2. Unknown \in Entry /\ Unknown.in = FALSE /\ Unknown.consent = FALSE
  BY DEF Unknown, Entry, Purpose
<1>3. Free \in Room /\ Free.life = "free" /\ Free.agent = FALSE /\ \A r \in Role : Free.seat[r] = Nobody
  BY DEF Free, Room, Life, Purpose, Somebody
<1>4. Gone \in Room /\ Gone.life = "gone" /\ Gone.agent = FALSE /\ \A r \in Role : Gone.seat[r] = Nobody
  BY <1>3 DEF Gone, Room, Life
<1>5. QED
  BY <1>1, <1>2, <1>3, <1>4

\* The updates of a request.
LEMMA Fields ==
    ASSUME NEW t \in Task
    PROVE  /\ \A pc \in Pc : [t EXCEPT !.pc = pc] \in Task
           /\ \A pc \in Pc, purpose \in Purpose : [t EXCEPT !.pc = pc, !.purpose = purpose] \in Task
           /\ \A pc \in Pc, answer \in BOOLEAN : [t EXCEPT !.pc = pc, !.answer = answer] \in Task
           /\ \A pc \in Pc, s \in Session : [t EXCEPT !.pc = pc, !.target = s] \in Task
BY DEF Task

\* One request is replaced.
LEMMA Changed ==
    ASSUME TypeOK, NEW q \in Request, NEW t \in Task, request' = [request EXCEPT ![q] = t]
    PROVE  /\ request' \in [Request -> Task] /\ request'[q] = t
           /\ \A x \in Request : x # q => request'[x] = request[x]
BY TypeParts

\* Where a step leaves a request, and with what.
Moved(q, pc) ==
    /\ request'[q].pc = pc /\ request'[q].answer = request[q].answer
    /\ request'[q].purpose = request[q].purpose /\ request'[q].target = request[q].target

\* SetPc moves one request to another place.
LEMMA PcMoves ==
    ASSUME TypeOK, NEW q \in Request, NEW pc \in Pc, SetPc(q, pc)
    PROVE  /\ request' \in [Request -> Task] /\ Moved(q, pc)
           /\ \A x \in Request : x # q => request'[x] = request[x]
<1>1. request[q] \in Task
  BY TypeParts
<1>2. [request[q] EXCEPT !.pc = pc] \in Task
  BY <1>1, Fields
<1>3. request' = [request EXCEPT ![q] = [request[q] EXCEPT !.pc = pc]]
  BY DEF SetPc
<1>4. request'[q] = [request[q] EXCEPT !.pc = pc]
  BY <1>2, <1>3, Changed
<1>5. Moved(q, pc)
  BY <1>1, <1>4 DEF Moved, Task
<1>6. QED
  BY <1>2, <1>3, <1>5, Changed

\* Return leaves one request at rest.
LEMMA Returned ==
    ASSUME TypeOK, NEW q \in Request, Return(q)
    PROVE  /\ request' \in [Request -> Task] /\ request'[q] = Idle
           /\ \A x \in Request : x # q => request'[x] = request[x]
BY RestTypes, Changed DEF Return

\* A request that counts or answers writes down what it goes on with.
LEMMA Noted ==
    ASSUME TypeOK, NEW q \in Request
    PROVE  /\ \A pc \in Pc, purpose \in Purpose :
                request' = [request EXCEPT ![q].pc = pc, ![q].purpose = purpose] =>
                   /\ request' \in [Request -> Task] /\ request'[q].pc = pc /\ request'[q].purpose = purpose
                   /\ \A x \in Request : x # q => request'[x] = request[x]
           /\ \A pc \in Pc, answer \in BOOLEAN :
                request' = [request EXCEPT ![q].pc = pc, ![q].answer = answer] =>
                   /\ request' \in [Request -> Task] /\ request'[q].pc = pc /\ request'[q].answer = answer
                   /\ \A x \in Request : x # q => request'[x] = request[x]
           /\ \A pc \in Pc, s \in Session :
                request' = [request EXCEPT ![q].pc = pc, ![q].target = s] =>
                   /\ request' \in [Request -> Task] /\ request'[q].pc = pc /\ request'[q].target = s
                   /\ \A x \in Request : x # q => request'[x] = request[x]
           /\ \A s \in Session :
                request' = [request EXCEPT ![q] = [Idle EXCEPT !.pc = "complete", !.target = s]] =>
                   /\ request' \in [Request -> Task] /\ request'[q].pc = "complete" /\ request'[q].target = s
                   /\ \A x \in Request : x # q => request'[x] = request[x]
<1>1. request[q] \in Task
  BY TypeParts
<1>2. ASSUME NEW pc \in Pc, NEW purpose \in Purpose,
             request' = [request EXCEPT ![q].pc = pc, ![q].purpose = purpose]
      PROVE  /\ request' \in [Request -> Task] /\ request'[q].pc = pc /\ request'[q].purpose = purpose
             /\ \A x \in Request : x # q => request'[x] = request[x]
  <2>1. [request[q] EXCEPT !.pc = pc, !.purpose = purpose] \in Task
    BY <1>1, Fields
  <2>2. request' = [request EXCEPT ![q] = [request[q] EXCEPT !.pc = pc, !.purpose = purpose]]
    BY <1>2
  <2>3. /\ request' \in [Request -> Task] /\ request'[q] = [request[q] EXCEPT !.pc = pc, !.purpose = purpose]
        /\ \A x \in Request : x # q => request'[x] = request[x]
    BY <2>1, <2>2, Changed
  <2>4. QED
    BY <1>1, <2>3 DEF Task
<1>3. ASSUME NEW pc \in Pc, NEW answer \in BOOLEAN,
             request' = [request EXCEPT ![q].pc = pc, ![q].answer = answer]
      PROVE  /\ request' \in [Request -> Task] /\ request'[q].pc = pc /\ request'[q].answer = answer
             /\ \A x \in Request : x # q => request'[x] = request[x]
  <2>1. [request[q] EXCEPT !.pc = pc, !.answer = answer] \in Task
    BY <1>1, Fields
  <2>2. request' = [request EXCEPT ![q] = [request[q] EXCEPT !.pc = pc, !.answer = answer]]
    BY <1>3
  <2>3. /\ request' \in [Request -> Task] /\ request'[q] = [request[q] EXCEPT !.pc = pc, !.answer = answer]
        /\ \A x \in Request : x # q => request'[x] = request[x]
    BY <2>1, <2>2, Changed
  <2>4. QED
    BY <1>1, <2>3 DEF Task
<1>4. ASSUME NEW pc \in Pc, NEW s \in Session,
             request' = [request EXCEPT ![q].pc = pc, ![q].target = s]
      PROVE  /\ request' \in [Request -> Task] /\ request'[q].pc = pc /\ request'[q].target = s
             /\ \A x \in Request : x # q => request'[x] = request[x]
  <2>1. [request[q] EXCEPT !.pc = pc, !.target = s] \in Task
    BY <1>1, Fields
  <2>2. request' = [request EXCEPT ![q] = [request[q] EXCEPT !.pc = pc, !.target = s]]
    BY <1>4
  <2>3. /\ request' \in [Request -> Task] /\ request'[q] = [request[q] EXCEPT !.pc = pc, !.target = s]
        /\ \A x \in Request : x # q => request'[x] = request[x]
    BY <2>1, <2>2, Changed
  <2>4. QED
    BY <1>1, <2>3 DEF Task
<1>5. ASSUME NEW s \in Session,
             request' = [request EXCEPT ![q] = [Idle EXCEPT !.pc = "complete", !.target = s]]
      PROVE  /\ request' \in [Request -> Task] /\ request'[q].pc = "complete" /\ request'[q].target = s
             /\ \A x \in Request : x # q => request'[x] = request[x]
  <2>1. /\ request' \in [Request -> Task] /\ request'[q] = [Idle EXCEPT !.pc = "complete", !.target = s]
        /\ \A x \in Request : x # q => request'[x] = request[x]
    BY <1>5, RestTypes, Changed
  <2>2. QED
    BY <2>1 DEF Idle
<1>6. QED
  BY <1>2, <1>3, <1>4, <1>5

\* Where each step leaves its request.
Lands(q) ==
    \/ request'[q] = Idle
    \/ /\ request'[q].pc \in {"declare", "terminal", "gate"}
    \/ /\ ConsentRecord(q) /\ Moved(q, "apply")
    \/ /\ SessionGate(q) /\ Moved(q, "admit")
    \/ /\ ParticipantCount(q) /\ request'[q].pc = "record"
    \/ /\ SessionPair(q) /\ request'[q].pc = "join" /\ request'[q].target \in Session
    \/ /\ SessionReserve(q) /\ request'[q].pc = "insert" /\ request'[q].purpose = known[q[1]].purpose
    \/ /\ (\E s \in Session : SessionInsert(q, s))
       /\ request'[q].pc = "complete" /\ request'[q].target \in Session
    \/ /\ SessionJoin(q) \/ SessionComplete(q)
       /\ Moved(q, "persist")

\* A step of a request moves that request only, to one of these places.
LEMMA RequestMoves ==
    ASSUME TypeOK, NEW q \in Request, RequestStep(q)
    PROVE  /\ request' \in [Request -> Task] /\ Lands(q)
           /\ \A x \in Request : x # q => request'[x] = request[x]
<1>1. CASE Return(q)
  BY <1>1, Returned DEF Lands
<1>2. CASE ParticipantCount(q)
  <2>1. "record" \in Pc /\ intake \in Purpose
    BY <1>2, TypeParts DEF ParticipantCount, Pc
  <2>2. QED
    BY <1>2, <2>1, Noted DEF ParticipantCount, Lands
<1>3. ASSUME NEW answer \in BOOLEAN, ConsentRead(q, answer)
      PROVE  /\ request' \in [Request -> Task] /\ Lands(q)
             /\ \A x \in Request : x # q => request'[x] = request[x]
  <2>1. "declare" \in Pc
    BY DEF Pc
  <2>2. QED
    BY <1>3, <2>1, Noted DEF ConsentRead, Lands
<1>4. CASE SetPc(q, "apply") /\ ConsentRecord(q)
  BY <1>4, PcMoves DEF Pc, Lands
<1>5. CASE SetPc(q, "terminal") \/ SetPc(q, "gate")
  BY <1>5, PcMoves DEF Pc, Lands, Moved
<1>6. CASE SetPc(q, "admit") /\ SessionGate(q)
  BY <1>6, PcMoves DEF Pc, Lands
<1>7. CASE SessionPair(q)
  <2>1. PICK s \in Session : request' = [request EXCEPT ![q].pc = "join", ![q].target = s]
    BY <1>7 DEF SessionPair, OpenFor
  <2>2. "join" \in Pc
    BY DEF Pc
  <2>3. /\ request' \in [Request -> Task] /\ request'[q].pc = "join" /\ request'[q].target = s
        /\ \A x \in Request : x # q => request'[x] = request[x]
    BY <2>1, <2>2, Noted
  <2>4. QED
    BY <1>7, <2>3 DEF Lands
<1>8. CASE SessionReserve(q)
  <2>1. PICK purpose \in Purpose : purpose = known[q[1]].purpose
    BY RequestPairs, TypeParts DEF Entry
  <2>2. request' = [request EXCEPT ![q].pc = "insert", ![q].purpose = purpose] /\ "insert" \in Pc
    BY <1>8, <2>1 DEF SessionReserve, Pc
  <2>3. /\ request' \in [Request -> Task] /\ request'[q].pc = "insert" /\ request'[q].purpose = purpose
        /\ \A x \in Request : x # q => request'[x] = request[x]
    BY <2>2, Noted
  <2>4. QED
    BY <1>8, <2>1, <2>3 DEF Lands
<1>9. ASSUME NEW s \in Session, SessionInsert(q, s)
      PROVE  /\ request' \in [Request -> Task] /\ Lands(q)
             /\ \A x \in Request : x # q => request'[x] = request[x]
  <2>1. request' = [request EXCEPT ![q] = [Idle EXCEPT !.pc = "complete", !.target = s]]
    BY <1>9 DEF SessionInsert
  <2>2. /\ request' \in [Request -> Task] /\ request'[q].pc = "complete" /\ request'[q].target = s
        /\ \A x \in Request : x # q => request'[x] = request[x]
    BY <2>1, Noted
  <2>3. QED
    BY <1>9, <2>2 DEF Lands
<1>10. CASE SetPc(q, "persist") /\ (SessionJoin(q) \/ SessionComplete(q))
  BY <1>10, PcMoves DEF Pc, Lands
<1>11. QED
  BY <1>1, <1>2, <1>3, <1>4, <1>5, <1>6, <1>7, <1>8, <1>9, <1>10
  DEF RequestStep, SessionStep, ParticipantInsert, ParticipantFails, ConsentRecord, ConsentFails, ConsentApply,
      SessionLook, SessionTerminal, SessionGate, SessionRefused, SessionFull, SessionJoin, SessionJoinFails,
      SessionInsertFails, SessionComplete, SessionCompleteFails, SessionPersist, SessionPersistFails

-----------------------------------------------------------------------------
(***************************************************************************)
(* Rooms.  Apart from a room that is put into memory and a participant who *)
(* joins one, steps take seats and streams away or leave them.             *)
(***************************************************************************)

\* The updates of a room.
LEMMA RoomFields ==
    ASSUME NEW x \in Room
    PROVE  /\ \A life \in Life : [x EXCEPT !.life = life] \in Room
           /\ \A b \in BOOLEAN : [x EXCEPT !.agent = b] \in Room
           /\ \A p \in Somebody : [x EXCEPT !.seat["B"] = p] \in Room
           /\ \A p \in Somebody, life \in Life, purpose \in Purpose :
                [x EXCEPT !.life = life, !.purpose = purpose, !.seat["A"] = p] \in Room
           /\ \A p \in Somebody, life \in Life, b \in BOOLEAN :
                [x EXCEPT !.agent = b, !.seat["B"] = p, !.life = life] \in Room
<1>1. x.seat \in [Role -> Somebody]
  BY DEF Room
<1>2. \A r \in Role, p \in Somebody : [x.seat EXCEPT ![r] = p] \in [Role -> Somebody]
  BY <1>1
<1>3. "A" \in Role /\ "B" \in Role
  BY DEF Role
<1>4. QED
  BY <1>2, <1>3 DEF Room

\* What a step may do to a room without giving anybody a seat.
Alive == {"forming", "running"}
Shrinks(s) ==
    /\ \A r \in Role : session'[s].seat[r] \in {session[s].seat[r], Nobody, Agent}
    /\ session'[s].life \in Alive => session[s].life \in Alive
    /\ withAgent \/ /\ ~session'[s].agent
                    /\ session'[s].life = "forming" =>
                         session[s].life = "forming" /\ session'[s].seat = session[s].seat

\* One room is replaced by a smaller one, the others stay.
LEMMA OneShrinks ==
    ASSUME TypeOK, NoAgents, NEW s \in Session, NEW x \in Room, session' = [session EXCEPT ![s] = x],
           \A r \in Role : x.seat[r] \in {session[s].seat[r], Nobody, Agent},
           x.life \in Alive => session[s].life \in Alive,
           withAgent \/ /\ ~x.agent
                        /\ x.life = "forming" => session[s].life = "forming" /\ x.seat = session[s].seat
    PROVE  session' \in [Session -> Room] /\ \A t \in Session : Shrinks(t)
<1>1. session' \in [Session -> Room] /\ session'[s] = x /\ \A t \in Session : t # s => session'[t] = session[t]
  BY TypeParts
<1>2. Shrinks(s)
  BY <1>1 DEF Shrinks
<1>3. ASSUME NEW t \in Session, t # s PROVE Shrinks(t)
  BY <1>1, <1>3 DEF Shrinks, NoAgents
<1>4. QED
  BY <1>1, <1>2, <1>3

\* Nothing happens to the rooms.
LEMMA NoneMoves ==
    ASSUME TypeOK, NoAgents, session' = session
    PROVE  session' \in [Session -> Room] /\ \A t \in Session : Shrinks(t)
BY TypeParts DEF Shrinks, NoAgents

\* The room is put into memory with its first participant.
LEMMA InsertMoves ==
    ASSUME TypeOK, NEW q \in Request, NEW s \in Session, SessionInsert(q, s)
    PROVE  /\ session' \in [Session -> Room]
           /\ session'[s].life = "forming" /\ session'[s].purpose = request[q].purpose
           /\ session'[s].seat["A"] = q[1] /\ session'[s].seat["B"] = Nobody /\ session'[s].agent = FALSE
           /\ \A t \in Session : t # s => session'[t] = session[t]
<1> DEFINE x == [Free EXCEPT !.life = "forming", !.purpose = request[q].purpose, !.seat["A"] = q[1]]
<1>1. Free \in Room /\ Free.seat["B"] = Nobody /\ Free.agent = FALSE
  BY RestTypes DEF Role
<1>2. PICK purpose \in Purpose : purpose = request[q].purpose
  BY TypeParts DEF Task
<1>3. PICK p \in Somebody : p = q[1]
  BY RequestPairs DEF Somebody
<1>4. "forming" \in Life
  BY DEF Life
<1>5. x \in Room
  BY <1>1, <1>2, <1>3, <1>4, RoomFields
<1>6. /\ x.life = "forming" /\ x.purpose = request[q].purpose
      /\ x.seat["A"] = q[1] /\ x.seat["B"] = Nobody /\ x.agent = FALSE
  BY <1>1 DEF Room, Role
<1>7. session' = [session EXCEPT ![s] = x]
  BY DEF SessionInsert
<1>8. session' \in [Session -> Room] /\ session'[s] = x /\ \A t \in Session : t # s => session'[t] = session[t]
  BY <1>5, <1>7, TypeParts
<1>9. QED
  BY <1>6, <1>8

\* A participant joins a room whose second seat is free.
LEMMA JoinMoves ==
    ASSUME TypeOK, NEW q \in Request, Promised(q), SessionJoin(q), q[1] \notin Seated(request[q].target)
    PROVE  LET s == request[q].target
           IN  /\ session' \in [Session -> Room] /\ s \in Session
               /\ session[s].seat["B"] = Nobody /\ session'[s].seat["B"] = q[1]
               /\ session'[s].seat["A"] = session[s].seat["A"]
               /\ session'[s].life = session[s].life /\ session'[s].purpose = session[s].purpose
               /\ session'[s].agent = session[s].agent
               /\ \A t \in Session : t # s => session'[t] = session[t]
<1> DEFINE s == request[q].target
           x == [session[s] EXCEPT !.seat["B"] = q[1]]
<1>1. s \in Session /\ session[s] \in Room
  BY TypeParts DEF Promised, SessionJoin
<1>2. PICK p \in Somebody : p = q[1]
  BY RequestPairs DEF Somebody
<1>3. x \in Room
  BY <1>1, <1>2, RoomFields
<1>4. /\ x.life = session[s].life /\ x.purpose = session[s].purpose /\ x.agent = session[s].agent
      /\ x.seat["B"] = q[1] /\ x.seat["A"] = session[s].seat["A"]
  BY <1>1 DEF Room, Role
<1>5. session' = [session EXCEPT ![s] = x] /\ session[s].seat["B"] = Nobody
  BY DEF SessionJoin, Fits
<1>6. session' \in [Session -> Room] /\ session'[s] = x /\ \A t \in Session : t # s => session'[t] = session[t]
  BY <1>1, <1>3, <1>5, TypeParts
<1>7. QED
  BY <1>1, <1>4, <1>5, <1>6

\* The steps that give a participant a seat.
Seats(q) == \/ \E s \in Session : SessionInsert(q, s)
            \/ SessionJoin(q) /\ q[1] \notin Seated(request[q].target)

\* A step keeps the type of the rooms, and gives a seat or takes some away.
LEMMA RoomMoves ==
    ASSUME TypeOK, NoAgents, \A q \in Request : Promised(q), [Next]_vars
    PROVE  /\ session' \in [Session -> Room]
           /\ (\A t \in Session : Shrinks(t)) \/ \E q \in Request : Seats(q)
<1> DEFINE Goal == /\ session' \in [Session -> Room]
                   /\ (\A t \in Session : Shrinks(t)) \/ \E q \in Request : Seats(q)
<1>1. CASE session' = session
  BY <1>1, NoneMoves
<1>2. ASSUME NEW q \in Request, RequestStep(q) PROVE Goal
  <2>1. ASSUME NEW s \in Session, SessionInsert(q, s) PROVE Goal
    BY <2>1, InsertMoves DEF Seats
  <2>2. CASE SessionJoin(q)
    <3>1. CASE q[1] \in Seated(request[q].target)
      BY <1>1, <2>2, <3>1 DEF SessionJoin
    <3>2. CASE q[1] \notin Seated(request[q].target)
      BY <2>2, <3>2, JoinMoves DEF Seats
    <3>3. QED
      BY <3>1, <3>2
  <2>3. CASE SessionCompleteFails(q)
    <3>1. request[q].target \in Session /\ session' = [session EXCEPT ![request[q].target] = Gone]
      BY <2>3 DEF SessionCompleteFails, Promised
    <3>2. QED
      BY <3>1, RestTypes, OneShrinks DEF Alive
  <2>4. CASE SessionPersist(q)
    <3>1. PICK s \in Session : s = request[q].target
      BY <2>4 DEF SessionPersist, Promised
    <3>2. CASE withAgent /\ session[s].life = "forming"
      <4>1. session' = [session EXCEPT ![s] = [session[s] EXCEPT !.agent = TRUE]]
        BY <2>4, <3>1, <3>2 DEF SessionPersist
      <4>2. session[s] \in Room
        BY TypeParts
      <4>3. /\ [session[s] EXCEPT !.agent = TRUE] \in Room
            /\ [session[s] EXCEPT !.agent = TRUE].seat = session[s].seat
            /\ [session[s] EXCEPT !.agent = TRUE].life = session[s].life
        BY <4>2, RoomFields DEF Room
      <4>4. QED
        BY <3>2, <4>1, <4>3, OneShrinks
    <3>3. CASE ~(withAgent /\ session[s].life = "forming")
      BY <1>1, <2>4, <3>1, <3>3 DEF SessionPersist
    <3>4. QED
      BY <3>2, <3>3
  <2>5. QED
    BY <1>1, <1>2, <2>1, <2>2, <2>3, <2>4
    DEF RequestStep, SessionStep, ParticipantCount, ParticipantInsert, ParticipantFails, ConsentRead, ConsentRecord,
        ConsentFails, ConsentApply, SessionLook, SessionTerminal, SessionGate, SessionRefused, SessionPair,
        SessionReserve, SessionFull, SessionJoinFails, SessionInsertFails, SessionComplete, SessionPersistFails
<1>3. ASSUME NEW s \in Session, RoomStep(s) PROVE Goal
  <2>1. session[s] \in Room /\ Agent \in Somebody /\ Nobody \in Somebody
    BY TypeParts DEF Somebody
  <2>2. CASE AgentJoin(s)
    <3>1. PICK x \in Room : x = [session[s] EXCEPT !.seat["B"] = Agent]
      BY <2>1, RoomFields
    <3>2. session' = [session EXCEPT ![s] = x] /\ withAgent
      BY <2>2, <3>1 DEF AgentJoin, NoAgents
    <3>3. x.life = session[s].life /\ \A r \in Role : x.seat[r] \in {session[s].seat[r], Nobody, Agent}
      BY <2>1, <3>1 DEF Room, Role
    <3>4. QED
      BY <3>2, <3>3, OneShrinks
  <2>3. CASE AgentPersist(s)
    <3>1. session' = [session EXCEPT ![s] = [session[s] EXCEPT !.agent = FALSE]]
      BY <2>3 DEF AgentPersist
    <3>2. /\ [session[s] EXCEPT !.agent = FALSE] \in Room
          /\ [session[s] EXCEPT !.agent = FALSE].seat = session[s].seat
          /\ [session[s] EXCEPT !.agent = FALSE].life = session[s].life
          /\ [session[s] EXCEPT !.agent = FALSE].agent = FALSE
      BY <2>1, RoomFields DEF Room
    <3>3. QED
      BY <3>1, <3>2, OneShrinks
  <2>4. ASSUME NEW expires \in BOOLEAN, AgentFails(s, expires) PROVE Goal
    <3>1. withAgent
      BY <2>4 DEF AgentFails, NoAgents
    <3>2. PICK life \in Life : life = IF expires THEN "ended" ELSE session[s].life
      BY <2>1 DEF Room, Life
    <3>3. PICK x \in Room : x = [session[s] EXCEPT !.agent = FALSE, !.seat["B"] = Nobody, !.life = life]
      BY <2>1, RoomFields
    <3>4. session' = [session EXCEPT ![s] = x]
      BY <2>4, <3>2, <3>3 DEF AgentFails
    <3>5. x.life = life /\ \A r \in Role : x.seat[r] \in {session[s].seat[r], Nobody, Agent}
      BY <2>1, <3>3 DEF Room, Role
    <3>6. life \in Alive => session[s].life \in Alive
      BY <3>2 DEF Alive
    <3>7. QED
      BY <3>1, <3>4, <3>5, <3>6, OneShrinks
  <2>5. CASE Start(s) \/ Finish(s)
    <3>1. PICK life \in {"running", "ended"} : session' = [session EXCEPT ![s] = [session[s] EXCEPT !.life = life]]
      BY <2>5 DEF Start, Finish
    <3>2. PICK x \in Room : x = [session[s] EXCEPT !.life = life]
      BY <2>1, RoomFields DEF Life
    <3>3. x.seat = session[s].seat /\ x.life = life /\ x.agent = session[s].agent
      BY <2>1, <3>2 DEF Room
    <3>4. session[s].life \in Alive /\ (withAgent \/ ~session[s].agent)
      BY <2>5 DEF Start, Finish, Alive, NoAgents
    <3>5. QED
      BY <3>1, <3>2, <3>3, <3>4, OneShrinks
  <2>6. CASE Sweep(s)
    BY <2>6, RestTypes, OneShrinks DEF Sweep, Alive
  <2>7. QED
    BY <1>3, <2>2, <2>3, <2>4, <2>5, <2>6 DEF RoomStep
<1>4. CASE Housekeeping \/ UNCHANGED vars
  BY <1>1, <1>4 DEF Housekeeping, CleanupLook, CleanupForget, CleanupForgetAgent, SwitchIntake, vars
<1>5. QED
  BY <1>2, <1>3, <1>4, StepKinds

-----------------------------------------------------------------------------
(***************************************************************************)
(* Counting.                                                               *)
(***************************************************************************)

\* A set that loses members.
LEMMA CountDown ==
    ASSUME NEW S, IsFiniteSet(S), NEW T, T \subseteq S
    PROVE  IsFiniteSet(T) /\ Cardinality(S) \in Nat /\ Cardinality(T) \in Nat /\ Cardinality(T) <= Cardinality(S)
BY FS_Subset, FS_CardinalityType

\* A set that gains at most one member.
LEMMA CountUp ==
    ASSUME NEW S, IsFiniteSet(S), NEW T, NEW x, T \subseteq S \cup {x}
    PROVE  Cardinality(S) \in Nat /\ Cardinality(T) \in Nat /\ Cardinality(T) <= Cardinality(S) + 1
<1>1. IsFiniteSet(S \cup {x}) /\ Cardinality(S \cup {x}) \in Nat /\ Cardinality(S) \in Nat
  BY FS_AddElement, FS_CardinalityType
<1>2. Cardinality(S \cup {x}) <= Cardinality(S) + 1
  BY <1>1, FS_AddElement
<1>3. Cardinality(T) \in Nat /\ Cardinality(T) <= Cardinality(S \cup {x})
  BY <1>1, CountDown
<1>4. QED
  BY <1>1, <1>2, <1>3

\* Everything that is counted is finite.
LEMMA Counted ==
    /\ IsFiniteSet(Streams) /\ IsFiniteSet(Waiting)
    /\ \A s \in Session : IsFiniteSet(Seated(s)) /\ IsFiniteSet(Seated(s)')
<1>1. IsFiniteSet(Session) /\ IsFiniteSet(Role)
  <2>1. Role = ({} \cup {"A"}) \cup {"B"}
    BY DEF Role
  <2>2. IsFiniteSet({} \cup {"A"})
    BY FS_EmptySet, FS_AddElement
  <2>3. QED
    BY <2>1, <2>2, FS_AddElement, FiniteAssumption
<1>2. IsFiniteSet(Streams)
  <2>1. IsFiniteSet(Session \X Role)
    BY <1>1, FS_Product
  <2>2. Streams \subseteq Session \X Role
    BY DEF Streams
  <2>3. QED
    BY <2>1, <2>2, CountDown
<1>3. IsFiniteSet(Waiting)
  <2>1. Waiting \subseteq Session
    BY DEF Waiting
  <2>2. QED
    BY <1>1, <2>1, CountDown
<1>4. ASSUME NEW a, NEW b PROVE IsFiniteSet({a, b})
  <2>1. {a, b} = ({} \cup {a}) \cup {b}
    OBVIOUS
  <2>2. IsFiniteSet({} \cup {a})
    BY FS_EmptySet, FS_AddElement
  <2>3. QED
    BY <2>1, <2>2, FS_AddElement
<1>5. ASSUME NEW s \in Session PROVE IsFiniteSet(Seated(s)) /\ IsFiniteSet(Seated(s)')
  <2>1. Seated(s) \subseteq {session[s].seat["A"], session[s].seat["B"]}
    BY DEF Seated, Role
  <2>2. Seated(s)' \subseteq {session'[s].seat["A"], session'[s].seat["B"]}
    BY DEF Seated, Role
  <2>3. QED
    BY <1>4, <2>1, <2>2, CountDown
<1>6. QED
  BY <1>2, <1>3, <1>5

\* Who is in a room.
LEMMA AttachedMeans ==
    /\ \A p : p \in Attached <=> /\ p # Agent /\ p # Nobody
                                 /\ \E s \in Session, r \in Role : session[s].seat[r] = p
    /\ \A p : p \in Attached' <=> /\ p # Agent /\ p # Nobody
                                  /\ \E s \in Session, r \in Role : session'[s].seat[r] = p
<1>1. ASSUME NEW p
      PROVE  p \in Attached <=> /\ p # Agent /\ p # Nobody
                                /\ \E s \in Session, r \in Role : session[s].seat[r] = p
  <2>1. PICK rooms : rooms = UNION {Seated(s) : s \in Session}
    OBVIOUS
  <2>2. p \in rooms <=> \E s \in Session : p \in Seated(s)
    BY <2>1, Zenon
  <2>3. Attached = rooms \ {Agent}
    BY <2>1 DEF Attached
  <2>4. \A s \in Session : p \in Seated(s) <=> p # Nobody /\ \E r \in Role : session[s].seat[r] = p
    BY DEF Seated
  <2>5. QED
    BY <2>2, <2>3, <2>4
<1>2. ASSUME NEW p
      PROVE  p \in Attached' <=> /\ p # Agent /\ p # Nobody
                                 /\ \E s \in Session, r \in Role : session'[s].seat[r] = p
  <2>1. PICK rooms : rooms = UNION {Seated(s)' : s \in Session}
    OBVIOUS
  <2>2. p \in rooms <=> \E s \in Session : p \in Seated(s)'
    BY <2>1, Zenon
  <2>3. Attached' = rooms \ {Agent}
    BY <2>1 DEF Attached
  <2>4. \A s \in Session : p \in Seated(s)' <=> p # Nobody /\ \E r \in Role : session'[s].seat[r] = p
    BY DEF Seated
  <2>5. QED
    BY <2>2, <2>3, <2>4
<1>3. QED
  BY <1>1, <1>2

\* Rooms that shrink free seats and streams.
LEMMA ShrinkCounts ==
    ASSUME TypeOK, \A t \in Session : Shrinks(t)
    PROVE  /\ Streams' \subseteq Streams /\ Attached' \subseteq Attached
           /\ withAgent \/ Waiting' \subseteq Waiting
<1>1. Nobody \notin Participant /\ Agent \notin Participant
  BY NamesAssumption
<1>2. Streams' \subseteq Streams
  BY <1>1 DEF Streams, Shrinks, Alive
<1>3. Attached' \subseteq Attached
  BY AttachedMeans DEF Shrinks
<1>4. withAgent \/ Waiting' \subseteq Waiting
  BY DEF Waiting, Seated, Shrinks
<1>5. QED
  BY <1>2, <1>3, <1>4

\* A seat that is given takes one stream, and one waiting room at most.
LEMMA SeatCounts ==
    ASSUME TypeOK, NEW q \in Request, Promised(q), Seats(q)
    PROVE  /\ \E x : Streams' \subseteq Streams \cup {x}
           /\ Attached' \subseteq Attached \cup {q[1]}
           /\ SessionJoin(q) => Waiting' \subseteq Waiting
           /\ (\E s \in Session : SessionInsert(q, s)) => \E x : Waiting' \subseteq Waiting \cup {x}
<1>1. Nobody \notin Participant /\ Agent \notin Participant /\ q[1] \in Participant
  BY NamesAssumption, RequestPairs
<1>2. ASSUME NEW s \in Session, SessionInsert(q, s)
      PROVE  /\ Streams' \subseteq Streams \cup {<<s, "A">>} /\ Attached' \subseteq Attached \cup {q[1]}
             /\ Waiting' \subseteq Waiting \cup {s}
  <2>1. /\ session'[s].seat["A"] = q[1] /\ session'[s].seat["B"] = Nobody
        /\ \A t \in Session : t # s => session'[t] = session[t]
    BY <1>2, InsertMoves
  <2>2. Streams' \subseteq Streams \cup {<<s, "A">>}
    <3>1. SUFFICES ASSUME NEW t \in Session, NEW r \in Role, <<t, r>> \in Streams', <<t, r>> # <<s, "A">>
                   PROVE  <<t, r>> \in Streams
      BY DEF Streams
    <3>2. t # s
      BY <1>1, <2>1, <3>1 DEF Streams, Role
    <3>3. QED
      BY <2>1, <3>1, <3>2 DEF Streams
  <2>3. Attached' \subseteq Attached \cup {q[1]}
    BY <2>1, AttachedMeans DEF Role
  <2>4. Waiting' \subseteq Waiting \cup {s}
    BY <2>1 DEF Waiting, Seated
  <2>5. QED
    BY <2>2, <2>3, <2>4
<1>3. ASSUME SessionJoin(q), q[1] \notin Seated(request[q].target)
      PROVE  /\ \E x : Streams' \subseteq Streams \cup {x}
             /\ Attached' \subseteq Attached \cup {q[1]} /\ Waiting' \subseteq Waiting
  <2>1. PICK s \in Session : s = request[q].target
    BY <1>3, JoinMoves
  <2>2. /\ session[s].seat["B"] = Nobody /\ session'[s].seat["B"] = q[1]
        /\ session'[s].seat["A"] = session[s].seat["A"] /\ session'[s].life = session[s].life
        /\ \A t \in Session : t # s => session'[t] = session[t]
    BY <1>3, <2>1, JoinMoves
  <2>3. Streams' \subseteq Streams \cup {<<s, "B">>}
    <3>1. SUFFICES ASSUME NEW t \in Session, NEW r \in Role, <<t, r>> \in Streams', <<t, r>> # <<s, "B">>
                   PROVE  <<t, r>> \in Streams
      BY DEF Streams
    <3>2. session'[t].life = session[t].life /\ session'[t].seat[r] = session[t].seat[r]
      BY <2>2, <3>1 DEF Role
    <3>3. QED
      BY <3>1, <3>2 DEF Streams
  <2>4. Attached' \subseteq Attached \cup {q[1]}
    <3>1. SUFFICES ASSUME NEW t \in Session, NEW r \in Role, NEW p, p = session'[t].seat[r],
                          p # q[1], p # Agent, p # Nobody
                   PROVE  \E y \in Session, w \in Role : session[y].seat[w] = p
      BY AttachedMeans
    <3>2. session'[t].seat[r] = session[t].seat[r]
      BY <2>2, <3>1 DEF Role
    <3>3. QED
      BY <3>1, <3>2
  <2>5. Waiting' \subseteq Waiting
    <3>1. SUFFICES ASSUME NEW t \in Session, t \in Waiting' PROVE t \in Waiting
      BY DEF Waiting
    <3>2. CASE t # s
      BY <2>2, <3>1, <3>2 DEF Waiting, Seated
    <3>3. CASE t = s
      <4>1. Seated(s) \subseteq Seated(s)'
        BY <2>2 DEF Seated, Role
      <4>2. Cardinality(Seated(s)) \in Nat /\ Cardinality(Seated(s)') \in Nat
            /\ Cardinality(Seated(s)) <= Cardinality(Seated(s)')
        BY <4>1, Counted, CountDown
      <4>3. Cardinality(Seated(s)') < 2 /\ session[s].life = "forming"
        BY <2>2, <3>1, <3>3 DEF Waiting
      <4>4. QED
        BY <3>3, <4>2, <4>3 DEF Waiting
    <3>4. QED
      BY <3>2, <3>3
  <2>6. QED
    BY <2>3, <2>4, <2>5
<1>4. SessionJoin(q) => ~ \E s \in Session : SessionInsert(q, s)
  BY DEF SessionJoin, SessionInsert
<1>5. QED
  BY <1>2, <1>3, <1>4 DEF Seats

-----------------------------------------------------------------------------
(***************************************************************************)
(* Entries, declarations and the lock.                                     *)
(***************************************************************************)

\* What a step does to the entries in memory.  A participant becomes known,
\* and fresh, by ParticipantInsert only; the purpose of an entry never changes.
LEMMA PeopleMoves ==
    ASSUME TypeOK, [Next]_vars
    PROVE  /\ known' \in [Participant -> Entry] /\ fresh' \subseteq KnownOnes'
           /\ \A p \in Participant : known'[p].in =>
                \/ known[p].in /\ known'[p].purpose = known[p].purpose
                \/ \E q \in Request : ParticipantInsert(q)
           /\ fresh' \subseteq fresh
              \/ \E q \in Request : ParticipantInsert(q) /\ q[1] \notin Attached /\ fresh' \subseteq fresh \cup {q[1]}
           /\ \A p \in Participant : known'[p].consent =>
                \/ known[p].consent
                \/ \E q \in Request : request[q].pc = "apply" /\ request[q].answer /\ p = q[1]
<1>1. known \in [Participant -> Entry] /\ fresh \subseteq KnownOnes
  BY TypeParts
<1>2. \A p \in Participant : known[p] \in Entry
  BY <1>1
<1>3. CASE known' = known /\ fresh' \subseteq fresh
  BY <1>1, <1>3 DEF KnownOnes
<1>4. ASSUME NEW q \in Request, ParticipantInsert(q)
      PROVE  /\ known' \in [Participant -> Entry] /\ fresh' \subseteq KnownOnes'
             /\ fresh' \subseteq fresh \/ (q[1] \notin Attached /\ fresh' \subseteq fresh \cup {q[1]})
             /\ \A p \in Participant : known'[p].consent => known[p].consent
  <2>1. CASE known[q[1]].in
    BY <1>1, <1>4, <2>1 DEF ParticipantInsert, KnownOnes
  <2>2. CASE ~known[q[1]].in
    <3>1. PICK purpose \in Purpose : purpose = request[q].purpose
      BY TypeParts DEF Task
    <3>2. known' = [known EXCEPT ![q[1]] = [in |-> TRUE, purpose |-> purpose, consent |-> FALSE]]
      BY <1>4, <2>2, <3>1 DEF ParticipantInsert
    <3>3. [in |-> TRUE, purpose |-> purpose, consent |-> FALSE] \in Entry
      BY DEF Entry
    <3>4. known' \in [Participant -> Entry] /\ \A p \in Participant : known[p].in => known'[p].in
      BY <1>1, <2>2, <3>2, <3>3
    <3>5. known'[q[1]].in /\ \A p \in Participant : known'[p].consent => known[p].consent
      BY <1>1, <3>2, RequestPairs
    <3>6. fresh' \subseteq fresh \cup {q[1]} /\ (fresh' \subseteq fresh \/ q[1] \notin Attached)
      BY <1>4 DEF ParticipantInsert
    <3>7. QED
      BY <1>1, <3>4, <3>5, <3>6, RequestPairs DEF KnownOnes
  <2>3. QED
    BY <2>1, <2>2
<1>5. ASSUME NEW q \in Request, ConsentApply(q)
      PROVE  /\ known' \in [Participant -> Entry] /\ fresh' = fresh
             /\ \A p \in Participant : known'[p].in = known[p].in /\ known'[p].purpose = known[p].purpose
             /\ \A p \in Participant : known'[p].consent =>
                   known[p].consent \/ (request[q].pc = "apply" /\ request[q].answer /\ p = q[1])
  <2>1. CASE ~known[q[1]].in
    BY <1>1, <1>5, <2>1 DEF ConsentApply
  <2>2. CASE known[q[1]].in
    <3>1. PICK answer \in BOOLEAN : answer = request[q].answer
      BY TypeParts DEF Task
    <3>2. known' = [known EXCEPT ![q[1]] = [known[q[1]] EXCEPT !.consent = answer]]
      BY <1>5, <2>2, <3>1 DEF ConsentApply
    <3>3. PICK e \in Entry : e = [known[q[1]] EXCEPT !.consent = answer]
      BY <1>2, RequestPairs DEF Entry
    <3>4. e.in = known[q[1]].in /\ e.purpose = known[q[1]].purpose /\ e.consent = answer
      BY <1>2, <3>3, RequestPairs DEF Entry
    <3>5. known' = [known EXCEPT ![q[1]] = e]
      BY <3>2, <3>3
    <3>6. QED
      BY <1>1, <1>5, <3>1, <3>4, <3>5 DEF ConsentApply
  <2>3. QED
    BY <2>1, <2>2
<1>6. CASE CleanupForget
  <2>1. swept \in Participant
    BY <1>6, TypeParts DEF CleanupForget
  <2>2. known' = [known EXCEPT ![swept] = Unknown] /\ fresh' = fresh \ {swept}
    BY <1>6 DEF CleanupForget
  <2>3. known' \in [Participant -> Entry] /\ \A p \in Participant : p # swept => known'[p] = known[p]
    BY <1>1, <2>2, RestTypes
  <2>4. known'[swept].in = FALSE /\ known'[swept].consent = FALSE
    BY <1>1, <2>1, <2>2, RestTypes
  <2>5. QED
    BY <1>1, <2>2, <2>3, <2>4 DEF KnownOnes
<1>7. ASSUME NEW q \in Request, RequestStep(q), ~ParticipantInsert(q), ~ConsentApply(q)
      PROVE  known' = known /\ fresh' \subseteq fresh
  BY <1>7 DEF RequestStep, SessionStep, ParticipantCount, ParticipantFails, ConsentRead, ConsentRecord,
       ConsentFails, SessionLook, SessionTerminal, SessionGate, SessionRefused, SessionPair,
       SessionReserve, SessionFull, SessionJoin, SessionJoinFails, SessionInsert, SessionInsertFails,
       SessionComplete, SessionCompleteFails, SessionPersist, SessionPersistFails, people
<1>8. ASSUME NEW s \in Session, RoomStep(s) PROVE known' = known /\ fresh' \subseteq fresh
  BY <1>8 DEF RoomStep, AgentJoin, AgentPersist, AgentFails, Start, Finish, Sweep, people
<1>9. ASSUME Housekeeping \/ UNCHANGED vars, ~CleanupForget PROVE known' = known /\ fresh' \subseteq fresh
  BY <1>9 DEF Housekeeping, CleanupLook, CleanupForgetAgent, SwitchIntake, people, vars
<1>10. CASE \E q \in Request : ParticipantInsert(q)
  BY <1>4, <1>10
<1>11. CASE \E q \in Request : ConsentApply(q)
  BY <1>1, <1>5, <1>11 DEF KnownOnes
<1>12. QED
  BY <1>3, <1>6, <1>7, <1>8, <1>9, <1>10, <1>11, StepKinds

\* Declarations are only added, and the mode of the experiment stays.
LEMMA DeclaredGrows ==
    ASSUME TypeOK, [Next]_vars
    PROVE  declared \subseteq declared' /\ declared' \subseteq Participant /\ withAgent' = withAgent
<1>1. declared \subseteq Participant
  BY TypeParts
<1>2. ASSUME NEW q \in Request, ConsentRecord(q)
      PROVE  declared \subseteq declared' /\ declared' \subseteq declared \cup {q[1]} /\ withAgent' = withAgent
  BY <1>2 DEF ConsentRecord
<1>3. ASSUME NEW q \in Request, RequestStep(q), ~ConsentRecord(q)
      PROVE  UNCHANGED <<declared, withAgent>>
  BY <1>3 DEF RequestStep, SessionStep, ParticipantCount, ParticipantInsert, ParticipantFails, ConsentRead,
       ConsentFails, ConsentApply, SessionLook, SessionTerminal, SessionGate, SessionRefused, SessionPair,
       SessionReserve, SessionFull, SessionJoin, SessionJoinFails, SessionInsert, SessionInsertFails,
       SessionComplete, SessionCompleteFails, SessionPersist, SessionPersistFails, people
<1>4. ASSUME NEW s \in Session, RoomStep(s) PROVE UNCHANGED <<declared, withAgent>>
  BY <1>4 DEF RoomStep, AgentJoin, AgentPersist, AgentFails, Start, Finish, Sweep, people
<1>5. ASSUME Housekeeping \/ UNCHANGED vars PROVE UNCHANGED <<declared, withAgent>>
  BY <1>5 DEF Housekeeping, CleanupLook, CleanupForget, CleanupForgetAgent, SwitchIntake, people, vars
<1>6. QED
  BY <1>1, <1>2, <1>3, <1>4, <1>5, StepKinds, RequestPairs

\* The admission lock is taken when it is free and given back by its holder.
LEMMA LockMoves ==
    ASSUME TypeOK, [Next]_vars
    PROVE  /\ lock' \in Request \cup {<< >>}
           /\ \/ lock' = lock
              \/ \E q \in Request : RequestStep(q) /\ ((lock = << >> /\ lock' = q) \/ (lock = q /\ lock' = << >>))
<1>1. lock \in Request \cup {<< >>}
  BY TypeParts
<1>2. ASSUME NEW q \in Request, RequestStep(q)
      PROVE  lock' = lock \/ (lock = << >> /\ lock' = q) \/ (lock = q /\ lock' = << >>)
  BY <1>2 DEF RequestStep, SessionStep, ParticipantCount, ParticipantInsert, ParticipantFails, ConsentRead,
       ConsentRecord, ConsentFails, ConsentApply, SessionLook, SessionTerminal, SessionGate, SessionRefused,
       SessionPair, SessionReserve, SessionFull, SessionJoin, SessionJoinFails, SessionInsert,
       SessionInsertFails, SessionComplete, SessionCompleteFails, SessionPersist, SessionPersistFails, Unlock
<1>3. ASSUME NEW s \in Session, RoomStep(s) PROVE lock' = lock
  BY <1>3 DEF RoomStep, AgentJoin, AgentPersist, AgentFails, Start, Finish, Sweep
<1>4. ASSUME Housekeeping \/ UNCHANGED vars PROVE lock' = lock
  BY <1>4 DEF Housekeeping, CleanupLook, CleanupForget, CleanupForgetAgent, SwitchIntake, vars
<1>5. \/ lock' = lock
      \/ \E q \in Request : RequestStep(q) /\ ((lock = << >> /\ lock' = q) \/ (lock = q /\ lock' = << >>))
  <2>1. CASE \E q \in Request : RequestStep(q)
    BY <1>2, <2>1
  <2>2. CASE \E s \in Session : RoomStep(s)
    BY <1>3, <2>2
  <2>3. QED
    BY <1>4, <2>1, <2>2, StepKinds
<1>6. QED
  BY <1>1, <1>5

-----------------------------------------------------------------------------
(***************************************************************************)
(* Each part of the invariant is kept by every step.                       *)
(***************************************************************************)

\* The result of a room is that of its participants.
LEMMA ResultsAreParticipants ==
    ASSUME TypeOK, NEW s \in Session
    PROVE  Results(s) \subseteq Participant
<1>1. \A r \in Role : session[s].seat[r] \in Participant \cup {Nobody, Agent}
  BY TypeParts DEF Room, Somebody
<1>2. Seated(s) \subseteq Participant \cup {Agent}
  BY <1>1 DEF Seated
<1>3. QED
  BY <1>2 DEF Results

\* The variables a step changes by a number or a name.
LEMMA SmallTypes ==
    ASSUME TypeOK, [Next]_vars
    PROVE  /\ intake' \in Purpose \cup {"closed"} /\ switches' \in 0..MaxSwitches
           /\ finished' \subseteq Participant /\ spare' \in 0..MaxSpare /\ cleanups' \in 0..MaxCleanups
           /\ swept' \in Participant \cup {Nobody}
<1>1. /\ intake \in Purpose \cup {"closed"} /\ switches \in 0..MaxSwitches
      /\ finished \subseteq Participant /\ spare \in 0..MaxSpare /\ cleanups \in 0..MaxCleanups
      /\ swept \in Participant \cup {Nobody}
      /\ MaxSwitches \in Nat /\ MaxSpare \in Nat /\ MaxCleanups \in Nat
  BY TypeParts, CapacityAssumption
<1>2. ASSUME NEW q \in Request, RequestStep(q)
      PROVE  UNCHANGED <<intake, switches, finished, cleanups, swept>> /\ spare' \in 0..MaxSpare
  <2>1. CASE SessionPersist(q)
    BY <1>1, <2>1 DEF SessionPersist
  <2>2. CASE ~SessionPersist(q)
    <3>1. UNCHANGED <<intake, switches, finished, cleanups, swept, spare>>
      BY <1>2, <2>2 DEF RequestStep, SessionStep, ParticipantCount, ParticipantInsert, ParticipantFails, ConsentRead,
         ConsentRecord, ConsentFails, ConsentApply, SessionLook, SessionTerminal, SessionGate, SessionRefused,
         SessionPair, SessionReserve, SessionFull, SessionJoin, SessionJoinFails, SessionInsert,
         SessionInsertFails, SessionComplete, SessionCompleteFails, SessionPersistFails, people
    <3>2. QED
      BY <1>1, <3>1
  <2>3. QED
    BY <2>1, <2>2
<1>3. ASSUME NEW s \in Session, RoomStep(s)
      PROVE  /\ UNCHANGED <<intake, switches, cleanups, swept>> /\ spare' \in 0..MaxSpare
             /\ finished' \subseteq finished \cup Results(s)
  <2>1. UNCHANGED <<intake, switches, cleanups, swept>> /\ finished' \subseteq finished \cup Results(s)
    BY <1>3 DEF RoomStep, AgentJoin, AgentPersist, AgentFails, Start, Finish, Sweep, people
  <2>2. spare' = spare \/ (spare > 0 /\ spare' = spare - 1) \/ (spare < MaxSpare /\ spare' = spare + 1)
    BY <1>3 DEF RoomStep, AgentJoin, AgentPersist, AgentFails, Start, Finish, Sweep, people
  <2>3. QED
    BY <1>1, <2>1, <2>2
<1>4. ASSUME Housekeeping \/ UNCHANGED vars
      PROVE  /\ intake' \in Purpose \cup {"closed"} /\ switches' \in 0..MaxSwitches
             /\ finished' = finished /\ spare' \in 0..MaxSpare /\ cleanups' \in 0..MaxCleanups
             /\ swept' \in Participant \cup {Nobody}
  <2>1. ASSUME NEW p \in Participant, CleanupLook(p)
        PROVE  /\ UNCHANGED <<intake, switches, finished, spare>>
               /\ cleanups > 0 /\ cleanups' = cleanups - 1 /\ swept' = p
    BY <2>1 DEF CleanupLook
  <2>2. CASE CleanupForget
    BY <1>1, <2>2 DEF CleanupForget
  <2>3. CASE CleanupForgetAgent
    BY <1>1, <2>3 DEF CleanupForgetAgent
  <2>4. ASSUME NEW to \in Purpose \cup {"closed"}, SwitchIntake(to)
        PROVE  /\ UNCHANGED <<finished, spare, cleanups, swept>>
               /\ switches > 0 /\ switches' = switches - 1 /\ intake' = to
    BY <2>4 DEF SwitchIntake, people
  <2>5. CASE UNCHANGED vars
    BY <1>1, <2>5 DEF vars, people
  <2>6. CASE \E p \in Participant : CleanupLook(p)
    BY <1>1, <2>1, <2>6
  <2>7. CASE \E to \in Purpose \cup {"closed"} : SwitchIntake(to)
    BY <1>1, <2>4, <2>7
  <2>8. QED
    BY <1>4, <2>2, <2>3, <2>5, <2>6, <2>7 DEF Housekeeping
<1>5. CASE \E q \in Request : RequestStep(q)
  BY <1>1, <1>2, <1>5
<1>6. CASE \E s \in Session : RoomStep(s)
  BY <1>1, <1>3, <1>6, ResultsAreParticipants
<1>7. QED
  BY <1>1, <1>4, <1>5, <1>6, StepKinds

\* A step moves at most one request.
LEMMA RequestTypes ==
    ASSUME TypeOK, [Next]_vars
    PROVE  /\ request' \in [Request -> Task]
           /\ \A x \in Request : request'[x] = request[x] \/ (RequestStep(x) /\ Lands(x))
<1>1. CASE \E q \in Request : RequestStep(q)
  BY <1>1, RequestMoves
<1>2. CASE ~ \E q \in Request : RequestStep(q)
  <2>1. request' = request
    BY <1>2, StepKinds DEF RoomStep, AgentJoin, AgentPersist, AgentFails, Start, Finish, Sweep, Housekeeping,
       CleanupLook, CleanupForget, CleanupForgetAgent, SwitchIntake, vars
  <2>2. QED
    BY <2>1, TypeParts
<1>3. QED
  BY <1>1, <1>2

\* Types are kept.
LEMMA TypeStep ==
    ASSUME TypeOK, NoAgents, \A q \in Request : Promised(q), [Next]_vars
    PROVE  TypeOK'
BY SmallTypes, RequestTypes, RoomMoves, PeopleMoves, DeclaredGrows, LockMoves, TypeParts

\* A request that is not moved keeps what it was promised: nobody else has the
\* lock, and only its holder adds entries or seats.
LEMMA OthersKeepPromises ==
    ASSUME IInv, [Next]_vars, NEW x \in Request, request'[x] = request[x]
    PROVE  Promised(x)'
<1>1. TypeOK /\ NoAgents /\ (\A q \in Request : Promised(q)) /\ Promised(x) /\ x # << >>
  BY RequestPairs DEF IInv
<1>2. declared \subseteq declared' /\ withAgent' = withAgent
  BY <1>1, DeclaredGrows
<1>3. request[x].pc \in Locked => lock = x /\ lock' = x
  <2>1. ASSUME request[x].pc \in Locked, NEW q \in Request, RequestStep(q), lock = q, lock' = << >>
        PROVE  FALSE
    <3>1. q = x
      BY <1>1, <2>1 DEF Promised
    <3>2. \/ ParticipantInsert(x) \/ ParticipantFails(x) \/ SessionJoin(x) \/ SessionJoinFails(x)
          \/ SessionInsertFails(x) \/ SessionComplete(x) \/ SessionCompleteFails(x)
      BY <1>1, <2>1, <3>1
      DEF RequestStep, SessionStep, ParticipantCount, ConsentRead, ConsentRecord, ConsentFails, ConsentApply,
          SessionLook, SessionTerminal, SessionGate, SessionRefused, SessionPair, SessionReserve, SessionFull,
          SessionInsert, SessionPersist, SessionPersistFails
    <3>3. Return(x) \/ SetPc(x, "persist")
      BY <3>2 DEF ParticipantInsert, ParticipantFails, SessionJoin, SessionJoinFails, SessionInsertFails,
         SessionComplete, SessionCompleteFails
    <3>4. request'[x].pc \in {"idle", "persist"}
      BY <1>1, <3>3, Returned, PcMoves, RestTypes DEF Moved, Pc
    <3>5. QED
      BY <2>1, <3>4 DEF Locked
  <2>2. SUFFICES ASSUME request[x].pc \in Locked PROVE lock = x /\ lock' = x
    OBVIOUS
  <2>3. lock = x
    BY <1>1, <2>2 DEF Promised
  <2>4. CASE lock' = lock
    BY <2>3, <2>4
  <2>5. CASE lock' # lock
    <3>1. PICK q \in Request : RequestStep(q) /\ lock = q /\ lock' = << >>
      BY <1>1, <2>3, <2>5, LockMoves
    <3>2. QED
      BY <2>1, <2>2, <3>1
  <2>6. QED
    BY <2>4, <2>5
<1>4. ASSUME request[x].pc \in {"record", "insert"}, NEW q \in Request, ParticipantInsert(q)
      PROVE  FALSE
  <2>1. request[q].pc = "record" /\ Return(q)
    BY <1>4 DEF ParticipantInsert
  <2>2. q = x
    BY <1>1, <1>4, <2>1 DEF Promised, Locked
  <2>3. request'[x].pc = "idle"
    BY <1>1, <2>1, <2>2, Returned, RestTypes
  <2>4. QED
    BY <1>4, <2>3
<1>5. ASSUME request[x].pc \in {"record", "insert"}, NEW q \in Request, Seats(q)
      PROVE  FALSE
  <2>1. request[q].pc \in {"insert", "join"}
    BY <1>5 DEF Seats, SessionInsert, SessionJoin
  <2>2. q = x
    BY <1>1, <1>5, <2>1 DEF Promised, Locked
  <2>3. PICK s \in Session : SessionInsert(x, s)
    BY <1>5, <2>2 DEF Seats, SessionJoin
  <2>4. request'[x].pc = "complete"
    BY <1>1, <2>3, Noted DEF SessionInsert
  <2>5. QED
    BY <1>5, <2>4
<1>6. ASSUME request[x].pc = "record" PROVE Cardinality(fresh') < MaxUnattached
  <2>1. fresh' \subseteq fresh
    BY <1>1, <1>4, <1>6, PeopleMoves
  <2>2. IsFiniteSet(fresh)
    <3>1. fresh \subseteq Participant
      BY <1>1, TypeParts DEF KnownOnes
    <3>2. QED
      BY <3>1, FiniteAssumption, CountDown
  <2>3. /\ Cardinality(fresh') \in Nat /\ Cardinality(fresh) \in Nat
        /\ Cardinality(fresh') <= Cardinality(fresh) /\ Cardinality(fresh) < MaxUnattached
    BY <1>1, <1>6, <2>1, <2>2, CountDown DEF Promised
  <2>4. QED
    BY <2>3, CapacityAssumption
<1>7. ASSUME request[x].pc = "insert"
      PROVE  /\ StreamFree' /\ (withAgent \/ Cardinality(Waiting') < MaxWaiting)
             /\ known'[x[1]].in => request[x].purpose = known'[x[1]].purpose
  <2>1. Streams' \subseteq Streams /\ (withAgent \/ Waiting' \subseteq Waiting)
    BY <1>1, <1>5, <1>7, RoomMoves, ShrinkCounts
  <2>2. StreamFree /\ (withAgent \/ Cardinality(Waiting) < MaxWaiting)
    BY <1>1, <1>7 DEF Promised
  <2>3. /\ Cardinality(Streams') \in Nat /\ Cardinality(Streams) \in Nat
        /\ Cardinality(Streams') <= Cardinality(Streams)
    BY <2>1, Counted, CountDown
  <2>4. StreamFree'
    BY <2>2, <2>3, CapacityAssumption DEF StreamFree
  <2>5. withAgent \/ Cardinality(Waiting') < MaxWaiting
    <3>1. CASE withAgent
      BY <3>1
    <3>2. CASE ~withAgent
      <4>1. /\ Cardinality(Waiting') \in Nat /\ Cardinality(Waiting) \in Nat
            /\ Cardinality(Waiting') <= Cardinality(Waiting) /\ Cardinality(Waiting) < MaxWaiting
        BY <2>1, <2>2, <3>2, Counted, CountDown
      <4>2. QED
        BY <4>1, CapacityAssumption
    <3>3. QED
      BY <3>1, <3>2
  <2>6. known'[x[1]].in => request[x].purpose = known'[x[1]].purpose
    BY <1>1, <1>4, <1>7, PeopleMoves, RequestPairs DEF Promised
  <2>7. QED
    BY <2>4, <2>5, <2>6
<1>8. QED
  BY <1>1, <1>2, <1>3, <1>6, <1>7 DEF Promised

\* A request is promised what its step has checked.
LEMMA StepsPromise ==
    ASSUME IInv, [Next]_vars, NEW q \in Request, RequestStep(q), Lands(q)
    PROVE  Promised(q)'
<1>1. TypeOK /\ NoAgents /\ (\A y \in Request : Promised(y)) /\ Promised(q) /\ q[1] \in Participant
  BY RequestPairs DEF IInv
<1>2. declared \subseteq declared' /\ withAgent' = withAgent
  BY <1>1, DeclaredGrows
<1>3. CASE request'[q] = Idle \/ request'[q].pc \in {"declare", "terminal", "gate"}
  BY <1>3, RestTypes DEF Promised, Locked
<1>4. CASE ConsentRecord(q) /\ Moved(q, "apply")
  BY <1>4 DEF ConsentRecord, Moved, Promised, Locked
<1>5. CASE SessionGate(q) /\ Moved(q, "admit")
  <2>1. q[1] \in declared
    BY <1>1, <1>5 DEF SessionGate, IInv, ConsentIsStored
  <2>2. QED
    BY <1>2, <1>5, <2>1 DEF Moved, Promised, Locked
<1>6. CASE ParticipantCount(q) /\ request'[q].pc = "record"
  <2>1. fresh' = fresh /\ lock' = q /\ Unattached < MaxUnattached
    BY <1>6 DEF ParticipantCount, people
  <2>2. IsFiniteSet(KnownOnes \ Attached) /\ fresh \subseteq KnownOnes \ Attached
    <3>1. KnownOnes \ Attached \subseteq Participant
      BY DEF KnownOnes
    <3>2. fresh \subseteq KnownOnes \ Attached
      BY <1>1, TypeParts DEF IInv, FreshAreUnattached
    <3>3. QED
      BY <3>1, <3>2, FiniteAssumption, CountDown
  <2>3. /\ Cardinality(fresh) \in Nat /\ Cardinality(KnownOnes \ Attached) \in Nat
        /\ Cardinality(fresh) <= Cardinality(KnownOnes \ Attached) /\ spare \in 0..MaxSpare
    BY <1>1, <2>2, CountDown, TypeParts
  <2>4. Cardinality(fresh) < MaxUnattached
    BY <2>1, <2>3, CapacityAssumption DEF Unattached
  <2>5. QED
    BY <1>6, <2>1, <2>4 DEF Promised
<1>7. CASE SessionPair(q) /\ request'[q].pc = "join" /\ request'[q].target \in Session
  BY <1>1, <1>2, <1>7 DEF SessionPair, Promised
<1>8. CASE SessionReserve(q) /\ request'[q].pc = "insert" /\ request'[q].purpose = known[q[1]].purpose
  <2>1. lock' = q /\ known' = known /\ session' = session /\ q[1] \in declared
    BY <1>1, <1>8 DEF SessionReserve, people, Promised
  <2>2. StreamFree /\ (withAgent \/ Cardinality(Waiting) < MaxWaiting)
    BY <1>8 DEF SessionReserve, ActiveFree, WaitingFree
  <2>3. Streams' = Streams /\ Waiting' = Waiting
    BY <2>1 DEF Streams, Waiting, Seated
  <2>4. StreamFree' /\ (withAgent' \/ Cardinality(Waiting') < MaxWaiting)
    BY <1>2, <2>2, <2>3 DEF StreamFree
  <2>5. QED
    BY <1>2, <1>8, <2>1, <2>4 DEF Promised
<1>9. CASE /\ (\E s \in Session : SessionInsert(q, s))
           /\ request'[q].pc = "complete" /\ request'[q].target \in Session
  BY <1>1, <1>9 DEF SessionInsert, Promised, Locked
<1>10. CASE (SessionJoin(q) \/ SessionComplete(q)) /\ Moved(q, "persist")
  BY <1>1, <1>10 DEF SessionJoin, SessionComplete, Moved, Promised, Locked
<1>11. QED
  BY <1>3, <1>4, <1>5, <1>6, <1>7, <1>8, <1>9, <1>10 DEF Lands

\* Every request keeps its promises.
LEMMA PromisesStep ==
    ASSUME IInv, [Next]_vars
    PROVE  \A q \in Request : Promised(q)'
<1>1. TypeOK
  BY DEF IInv
<1>2. \A x \in Request : request'[x] = request[x] \/ (RequestStep(x) /\ Lands(x))
  BY <1>1, RequestTypes
<1>3. QED
  BY <1>2, OthersKeepPromises, StepsPromise

\* Who is given a seat had the lock, a stored declaration of consent and a
\* stream; a new room had a place among those that wait.
LEMMA SeatsArePromised ==
    ASSUME IInv, NEW q \in Request, Seats(q)
    PROVE  /\ q[1] \in declared /\ Cardinality(Streams) + 1 <= MaxStreams
           /\ (\E s \in Session : SessionInsert(q, s)) => withAgent \/ Cardinality(Waiting) < MaxWaiting
<1>1. Promised(q)
  BY DEF IInv
<1>2. CASE \E s \in Session : SessionInsert(q, s)
  BY <1>1, <1>2 DEF SessionInsert, Promised, StreamFree
<1>3. CASE SessionJoin(q)
  <2>1. ActiveFree /\ request[q].pc = "join"
    BY <1>3 DEF SessionJoin, Fits
  <2>2. QED
    BY <1>1, <2>1 DEF Promised, ActiveFree, StreamFree, SessionInsert
<1>4. QED
  BY <1>2, <1>3 DEF Seats

\* The limits on rooms that wait and on transcription streams.
LEMMA LimitsStep ==
    ASSUME IInv, [Next]_vars
    PROVE  WaitingWithinLimit' /\ StreamsWithinLimit'
<1>1. TypeOK /\ NoAgents /\ (\A q \in Request : Promised(q)) /\ WaitingWithinLimit /\ StreamsWithinLimit
  BY DEF IInv
<1>2. withAgent' = withAgent /\ MaxWaiting \in Nat /\ MaxStreams \in Nat
  BY <1>1, DeclaredGrows, CapacityAssumption
<1>3. CASE \A t \in Session : Shrinks(t)
  <2>1. Streams' \subseteq Streams /\ (withAgent \/ Waiting' \subseteq Waiting)
    BY <1>1, <1>3, ShrinkCounts
  <2>2. /\ Cardinality(Streams') \in Nat /\ Cardinality(Streams) \in Nat
        /\ Cardinality(Streams') <= Cardinality(Streams)
    BY <2>1, Counted, CountDown
  <2>3. StreamsWithinLimit'
    BY <1>1, <1>2, <2>2 DEF StreamsWithinLimit
  <2>4. WaitingWithinLimit'
    <3>1. CASE withAgent
      BY <1>2, <3>1 DEF WaitingWithinLimit
    <3>2. CASE ~withAgent
      <4>1. /\ Cardinality(Waiting') \in Nat /\ Cardinality(Waiting) \in Nat
            /\ Cardinality(Waiting') <= Cardinality(Waiting)
        BY <2>1, <3>2, Counted, CountDown
      <4>2. QED
        BY <1>1, <1>2, <3>2, <4>1 DEF WaitingWithinLimit
    <3>3. QED
      BY <3>1, <3>2
  <2>5. QED
    BY <2>3, <2>4
<1>4. ASSUME NEW q \in Request, Seats(q) PROVE WaitingWithinLimit' /\ StreamsWithinLimit'
  <2>1. /\ \E x : Streams' \subseteq Streams \cup {x}
        /\ SessionJoin(q) => Waiting' \subseteq Waiting
        /\ (\E s \in Session : SessionInsert(q, s)) => \E x : Waiting' \subseteq Waiting \cup {x}
    BY <1>1, <1>4, SeatCounts
  <2>2. PICK x : Streams' \subseteq Streams \cup {x}
    BY <2>1
  <2>3. /\ Cardinality(Streams') \in Nat /\ Cardinality(Streams) \in Nat
        /\ Cardinality(Streams') <= Cardinality(Streams) + 1
    BY <2>2, Counted, CountUp
  <2>4. StreamsWithinLimit'
    BY <1>2, <1>4, <2>3, SeatsArePromised DEF StreamsWithinLimit
  <2>5. CASE withAgent
    BY <1>2, <2>4, <2>5 DEF WaitingWithinLimit
  <2>6. CASE ~withAgent /\ SessionJoin(q)
    <3>1. /\ Cardinality(Waiting') \in Nat /\ Cardinality(Waiting) \in Nat
          /\ Cardinality(Waiting') <= Cardinality(Waiting)
      BY <2>1, <2>6, Counted, CountDown
    <3>2. QED
      BY <1>1, <1>2, <2>4, <2>6, <3>1 DEF WaitingWithinLimit
  <2>7. CASE ~withAgent /\ \E s \in Session : SessionInsert(q, s)
    <3>1. PICK y : Waiting' \subseteq Waiting \cup {y}
      BY <2>1, <2>7
    <3>2. /\ Cardinality(Waiting') \in Nat /\ Cardinality(Waiting) \in Nat
          /\ Cardinality(Waiting') <= Cardinality(Waiting) + 1
      BY <3>1, Counted, CountUp
    <3>3. Cardinality(Waiting) < MaxWaiting
      BY <1>4, <2>7, SeatsArePromised
    <3>4. QED
      BY <1>2, <2>4, <3>2, <3>3 DEF WaitingWithinLimit
  <2>8. QED
    BY <1>4, <2>5, <2>6, <2>7 DEF Seats
<1>5. QED
  BY <1>1, <1>3, <1>4, RoomMoves

\* The limit on participants without a room.
LEMMA FreshStep ==
    ASSUME IInv, [Next]_vars
    PROVE  FreshWithinLimit'
<1>1. TypeOK /\ (\A q \in Request : Promised(q)) /\ FreshWithinLimit
  BY DEF IInv
<1>2. IsFiniteSet(fresh)
  <2>1. fresh \subseteq Participant
    BY <1>1, TypeParts DEF KnownOnes
  <2>2. QED
    BY <2>1, FiniteAssumption, CountDown
<1>3. CASE fresh' \subseteq fresh
  <2>1. /\ Cardinality(fresh') \in Nat /\ Cardinality(fresh) \in Nat /\ Cardinality(fresh') <= Cardinality(fresh)
    BY <1>2, <1>3, CountDown
  <2>2. QED
    BY <1>1, <2>1, CapacityAssumption DEF FreshWithinLimit
<1>4. ASSUME NEW q \in Request, ParticipantInsert(q), fresh' \subseteq fresh \cup {q[1]} PROVE FreshWithinLimit'
  <2>1. Cardinality(fresh) < MaxUnattached
    BY <1>1, <1>4 DEF ParticipantInsert, Promised
  <2>2. /\ Cardinality(fresh') \in Nat /\ Cardinality(fresh) \in Nat
        /\ Cardinality(fresh') <= Cardinality(fresh) + 1
    BY <1>2, <1>4, CountUp
  <2>3. QED
    BY <2>1, <2>2, CapacityAssumption DEF FreshWithinLimit
<1>5. QED
  BY <1>1, <1>3, <1>4, PeopleMoves

\* Consent in memory and in rooms, people without a room, agents.
LEMMA PeopleStep ==
    ASSUME IInv, [Next]_vars
    PROVE  ConsentIsStored' /\ ConsentBeforeEntry' /\ FreshAreUnattached' /\ NoAgents'
<1>1. /\ TypeOK /\ NoAgents /\ (\A q \in Request : Promised(q))
      /\ ConsentIsStored /\ ConsentBeforeEntry /\ FreshAreUnattached
  BY DEF IInv
<1>2. declared \subseteq declared' /\ withAgent' = withAgent
  BY <1>1, DeclaredGrows
<1>3. ConsentIsStored'
  <2>1. \A q \in Request : request[q].pc = "apply" /\ request[q].answer => q[1] \in declared
    BY <1>1 DEF Promised
  <2>2. \A p \in Participant : known'[p].consent =>
           known[p].consent \/ \E q \in Request : request[q].pc = "apply" /\ request[q].answer /\ p = q[1]
    BY <1>1, PeopleMoves
  <2>3. QED
    BY <1>1, <1>2, <2>1, <2>2 DEF ConsentIsStored
<1>4. CASE \A t \in Session : Shrinks(t)
  <2>1. Attached' \subseteq Attached
    BY <1>1, <1>4, ShrinkCounts
  <2>2. FreshAreUnattached'
    BY <1>1, <2>1, PeopleMoves DEF FreshAreUnattached
  <2>3. NoAgents'
    BY <1>2, <1>4 DEF NoAgents, Shrinks
  <2>4. QED
    BY <1>1, <1>2, <1>3, <2>1, <2>2, <2>3 DEF ConsentBeforeEntry
<1>5. ASSUME NEW q \in Request, Seats(q)
      PROVE  ConsentBeforeEntry' /\ FreshAreUnattached' /\ NoAgents'
  <2>1. Attached' \subseteq Attached \cup {q[1]} /\ q[1] \in declared
    BY <1>1, <1>5, SeatCounts, SeatsArePromised
  <2>2. fresh' = fresh \ {q[1]}
    BY <1>5 DEF Seats, SessionInsert, SessionJoin
  <2>3. NoAgents'
    <3>1. ASSUME NEW s \in Session, SessionInsert(q, s) PROVE NoAgents'
      BY <1>1, <1>2, <3>1, InsertMoves DEF NoAgents
    <3>2. ASSUME SessionJoin(q), q[1] \notin Seated(request[q].target) PROVE NoAgents'
      BY <1>1, <1>2, <3>2, JoinMoves DEF NoAgents
    <3>3. QED
      BY <1>5, <3>1, <3>2 DEF Seats
  <2>4. QED
    BY <1>1, <1>2, <2>1, <2>2, <2>3 DEF ConsentBeforeEntry, FreshAreUnattached
<1>6. QED
  BY <1>1, <1>3, <1>4, <1>5, RoomMoves
-----------------------------------------------------------------------------
(***************************************************************************)
(* The theorems.                                                           *)
(***************************************************************************)

\* An experiment starts with nobody in it.
LEMMA InitHolds ==
    ASSUME Init
    PROVE  IInv
<1>1. /\ known = [p \in Participant |-> Unknown] /\ session = [s \in Session |-> Free]
      /\ request = [q \in Request |-> Idle] /\ lock = << >> /\ fresh = {}
  BY DEF Init
<1>2. TypeOK
  <2>1. /\ known \in [Participant -> Entry] /\ session \in [Session -> Room] /\ request \in [Request -> Task]
    BY <1>1, RestTypes
  <2>2. /\ withAgent \in BOOLEAN /\ intake \in Purpose \cup {"closed"} /\ switches \in 0..MaxSwitches
        /\ fresh \subseteq KnownOnes /\ finished \subseteq Participant /\ spare \in 0..MaxSpare
        /\ cleanups \in 0..MaxCleanups
        /\ swept \in Participant \cup {Nobody} /\ declared \subseteq Participant /\ lock \in Request \cup {<< >>}
    BY CapacityAssumption, FiniteAssumption DEF Init
  <2>3. QED
    BY <2>1, <2>2, TypeParts
<1>3. \A q \in Request : Promised(q)
  BY <1>1, RestTypes DEF Promised, Locked
<1>4. Streams = {} /\ Waiting = {}
  BY <1>1, RestTypes DEF Streams, Waiting
<1>5. Cardinality({}) = 0
  BY FS_EmptySet
<1>6. WaitingWithinLimit /\ StreamsWithinLimit /\ FreshWithinLimit
  BY <1>1, <1>4, <1>5, CapacityAssumption DEF WaitingWithinLimit, StreamsWithinLimit, FreshWithinLimit
<1>7. Attached = {}
  <2>1. \A p : p \notin Attached
    BY <1>1, RestTypes, AttachedMeans
  <2>2. QED
    BY <2>1
<1>8. ConsentBeforeEntry /\ ConsentIsStored /\ FreshAreUnattached /\ NoAgents
  BY <1>1, <1>7, RestTypes DEF ConsentBeforeEntry, ConsentIsStored, FreshAreUnattached, NoAgents
<1>9. QED
  BY <1>2, <1>3, <1>6, <1>8 DEF IInv

\* A step keeps the invariant.
LEMMA StepHolds ==
    ASSUME IInv, [Next]_vars
    PROVE  IInv'
<1>1. TypeOK'
  BY TypeStep DEF IInv
<1>2. (\A q \in Request : Promised(q))'
  BY PromisesStep
<1>3. QED
  BY <1>1, <1>2, LimitsStep, FreshStep, PeopleStep DEF IInv

\* However the requests of any number of participants and tabs interleave with
\* agents, cleanups and the administrator, create_participant, consent and
\* create_session keep every limit and let nobody in without stored consent.
THEOREM AdmissionStaysSound == Spec => []AdmissionIsSound
<1>1. Init => IInv
  BY InitHolds
<1>2. IInv /\ [Next]_vars => IInv'
  BY StepHolds
<1>3. IInv => AdmissionIsSound
  BY DEF IInv, AdmissionIsSound
<1>4. QED
  BY <1>1, <1>2, <1>3, PTL DEF Spec

\* One step that gives a seat gives it in a room of the participant's purpose.
LEMMA SeatsFitPurpose ==
    ASSUME IInv, [Next]_vars, NEW s \in Session, NEW r \in Role,
           session'[s].seat[r] \in Participant, session'[s].seat[r] # session[s].seat[r],
           known[session'[s].seat[r]].in
    PROVE  session'[s].purpose = known[session'[s].seat[r]].purpose
<1>1. TypeOK /\ NoAgents /\ (\A q \in Request : Promised(q))
  BY DEF IInv
<1>2. Nobody \notin Participant /\ Agent \notin Participant
  BY NamesAssumption
<1>3. PICK q \in Request : Seats(q)
  BY <1>1, <1>2, RoomMoves DEF Shrinks
<1>4. ASSUME NEW t \in Session, SessionInsert(q, t)
      PROVE  session'[s].purpose = known[session'[s].seat[r]].purpose
  <2>1. s = t /\ session'[s].seat[r] = q[1] /\ session'[s].purpose = request[q].purpose
    <3>1. /\ session'[t].purpose = request[q].purpose
          /\ session'[t].seat["A"] = q[1] /\ session'[t].seat["B"] = Nobody
          /\ \A y \in Session : y # t => session'[y] = session[y]
      BY <1>1, <1>4, InsertMoves
    <3>2. s = t
      BY <3>1
    <3>3. r = "A"
      BY <1>2, <3>1, <3>2 DEF Role
    <3>4. QED
      BY <3>1, <3>2, <3>3
  <2>2. request[q].pc = "insert"
    BY <1>4 DEF SessionInsert
  <2>3. QED
    BY <1>1, <2>1, <2>2 DEF Promised
<1>5. ASSUME SessionJoin(q), q[1] \notin Seated(request[q].target)
      PROVE  session'[s].purpose = known[session'[s].seat[r]].purpose
  <2>1. PICK t \in Session : t = request[q].target
    BY <1>1, <1>5, JoinMoves
  <2>2. /\ session'[t].seat["B"] = q[1] /\ session'[t].seat["A"] = session[t].seat["A"]
        /\ session'[t].purpose = session[t].purpose
        /\ \A y \in Session : y # t => session'[y] = session[y]
    BY <1>1, <1>5, <2>1, JoinMoves
  <2>3. s = t /\ session'[s].seat[r] = q[1]
    BY <2>2 DEF Role
  <2>4. session[t].purpose = known[q[1]].purpose
    BY <1>5, <2>1 DEF SessionJoin, Fits
  <2>5. QED
    BY <2>2, <2>3, <2>4
<1>6. QED
  BY <1>3, <1>4, <1>5 DEF Seats

\* Testing and research never meet in a room, though the administrator may
\* switch the experiment between a participant's creation and create_session:
\* the purpose of a new room is that of the entry its request has read under
\* the lock, and a partner is compared with the room.
THEOREM PurposesStayApart == Spec => PurposesNeverMix
<1>1. Init => IInv
  BY InitHolds
<1>2. IInv /\ [Next]_vars => IInv'
  BY StepHolds
<1>3. IInv /\ [Next]_vars =>
        [\A s \in Session, r \in Role :
            LET p == session'[s].seat[r] IN
            p \in Participant /\ p # session[s].seat[r] /\ known[p].in
               => session'[s].purpose = known[p].purpose]_vars
  BY SeatsFitPurpose
<1>4. QED
  BY <1>1, <1>2, <1>3, PTL DEF Spec, PurposesNeverMix

=============================================================================

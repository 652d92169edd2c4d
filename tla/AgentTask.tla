------------------------------ MODULE AgentTask ------------------------------
(***************************************************************************)
(* The task of a software agent in a human-versus-agent session, its       *)
(* bounded inbox, and what the human's sockets, a leave, the reconnect     *)
(* timer and the sweeper do to both.  All sessions of a runtime share the  *)
(* registry agent_inboxes (a fair RwLock whose read guard is held across   *)
(* the blocking send into an inbox) and the memory RwLock (held by a       *)
(* starting agent while it waits for the registry).                        *)
(***************************************************************************)
EXTENDS Naturals, Sequences

CONSTANTS
    Session,         \* sessions of one runtime
    InboxSize,       \* mpsc::channel(64)
    ActionLimit,     \* the action that completes the game
    MaxMessages,     \* bound: messages per session
    InvalidLimit,    \* invalid_action_limit
    MaxPauses        \* bound: disconnections of the human

ASSUME BoundsAssumption ==
    /\ InboxSize \in Nat \ {0} /\ ActionLimit \in Nat \ {0} /\ InvalidLimit \in Nat \ {0}
    /\ MaxMessages \in Nat /\ MaxPauses \in Nat

\* The agent's task, the human's game socket and transcript stream, a leave
\* request and the sweeper.
Process == {"agent", "game", "voice", "leave", "sweep"}
Nobody == "nobody"

ASSUME NamesAssumption == Nobody \notin Session \cup Process

VARIABLES
    life,        \* lifecycle in memory; "gone" when the room is removed
    paused,      \* the human is disconnected, and a running game paused
    pauses,      \* disconnections left
    messages,    \* messages left
    accepted,    \* accepted actions
    seen,        \* actions the agent has observed
    mutex,       \* holder of the session's transition lock
    inbox,       \* what is queued for the agent
    listed,      \* the sender is in agent_inboxes
    ready,       \* the agent participant is ready
    errors,      \* invalid_actions of the task
    pc,          \* progress of the processes of each session
    readers,     \* processes that hold the read guard of agent_inboxes
    writers,     \* processes that wait for its write guard
    memory       \* session whose starting agent holds memory for writing

sessionVars == <<life, paused, pauses, messages, accepted, seen>>
lockVars == <<mutex, readers, writers, memory>>
taskVars == <<inbox, listed, ready, errors>>
vars == <<sessionVars, lockVars, taskVars, pc>>

Init ==
    /\ life = [s \in Session |-> "forming"]
    /\ paused = [s \in Session |-> FALSE]
    /\ pauses = [s \in Session |-> MaxPauses]
    /\ messages = [s \in Session |-> MaxMessages]
    /\ accepted = [s \in Session |-> 0] /\ seen = [s \in Session |-> 0]
    /\ mutex = [s \in Session |-> Nobody]
    /\ inbox = [s \in Session |-> << >>]
    /\ listed = [s \in Session |-> FALSE] /\ ready = [s \in Session |-> FALSE]
    /\ errors = [s \in Session |-> 0]
    /\ pc = [s \in Session |-> [w \in Process |-> IF w = "agent" THEN "new" ELSE "idle"]]
    /\ readers = {} /\ writers = {} /\ memory = Nobody

Goto(s, w, to) == pc' = [pc EXCEPT ![s][w] = to]
At(s, w, here) == pc[s][w] = here

\* Where a process goes on after a start, an action or a message.
Home(w) == IF w = "agent" THEN "recv" ELSE "idle"

\* AgentObservation: an action is known by its number.
Activated == [kind |-> "activated", n |-> 0]
Message == [kind |-> "message", n |-> 0]
Action(n) == [kind |-> "action", n |-> n]

MemoryFree == memory = Nobody
Ended == {"completed", "left", "expired", "gone"}
\* The task has dropped its receiver.
Deaf(s) == pc[s]["agent"] \in {"dispose", "remove", "gone"}

Acquire(s, w) == mutex[s] = Nobody /\ mutex' = [mutex EXCEPT ![s] = w]
Unlock(s) == mutex' = [mutex EXCEPT ![s] = Nobody]
\* The RwLock is fair: a reader queues behind a writer that waits.
ReadGuard(s, w) == writers = {} /\ readers' = readers \cup {<<s, w>>}
ReadDrop(s, w) == readers' = readers \ {<<s, w>>}
WriteQueue(s, w) == writers' = writers \cup {<<s, w>>}
WriteGuard(s, w) == readers = {} /\ writers' = writers \ {<<s, w>>}

\* sender.send(...).await: waits for room, fails at once when the receiver is gone.
Send(s, item) ==
    \/ /\ listed[s] /\ ~Deaf(s) /\ Len(inbox[s]) < InboxSize
       /\ inbox' = [inbox EXCEPT ![s] = Append(@, item)]
    \/ /\ ~listed[s] \/ Deaf(s)
       /\ UNCHANGED inbox
-----------------------------------------------------------------------------
(* start_agent_task, up to the first decision.                             *)

\* The initial observation and agent.start, only while the room is forming.
AgentStart(s) ==
    /\ At(s, "agent", "new") /\ MemoryFree
    /\ Goto(s, "agent", IF life[s] = "forming" THEN "lock" ELSE "dispose")
    /\ UNCHANGED <<sessionVars, lockVars, taskVars>>

\* agent.start fails or is too slow: expire_live_session.
AgentStartFails(s) ==
    /\ At(s, "agent", "new") /\ MemoryFree
    /\ life' = [life EXCEPT ![s] = IF @ = "forming" THEN "expired" ELSE @]
    /\ Goto(s, "agent", "dispose")
    /\ UNCHANGED <<paused, pauses, messages, accepted, seen, lockVars, taskVars>>

AgentLock(s) ==
    /\ At(s, "agent", "lock") /\ Acquire(s, "agent") /\ Goto(s, "agent", "enter")
    /\ UNCHANGED <<sessionVars, taskVars, readers, writers, memory>>

\* Memory is locked for writing, and stays so until the registry is.
AgentEnter(s) ==
    /\ At(s, "agent", "enter") /\ MemoryFree
    /\ IF life[s] = "forming"
       THEN /\ memory' = s /\ WriteQueue(s, "agent") /\ Goto(s, "agent", "list")
            /\ UNCHANGED mutex
       ELSE /\ Unlock(s) /\ Goto(s, "agent", "dispose") /\ UNCHANGED <<memory, writers>>
    /\ UNCHANGED <<sessionVars, taskVars, readers>>

AgentList(s) ==
    /\ At(s, "agent", "list") /\ WriteGuard(s, "agent")
    /\ listed' = [listed EXCEPT ![s] = TRUE] /\ ready' = [ready EXCEPT ![s] = TRUE]
    /\ memory' = Nobody /\ Unlock(s)
    /\ Goto(s, "agent", "start")
    /\ UNCHANGED <<sessionVars, inbox, errors, readers>>

\* receiver.recv() for the activation: anything else, or a closed inbox, is the
\* end of the task.
AgentAwait(s) ==
    /\ At(s, "agent", "await")
    /\ \/ /\ inbox[s] # << >> /\ inbox' = [inbox EXCEPT ![s] = Tail(@)]
          /\ Goto(s, "agent", IF Head(inbox[s]) = Activated THEN "settle" ELSE "dispose")
       \/ inbox[s] = << >> /\ ~listed[s] /\ Goto(s, "agent", "dispose") /\ UNCHANGED inbox
    /\ UNCHANGED <<sessionVars, lockVars, listed, ready, errors>>

\* The transition lock is taken and dropped: the activation is published.
AgentSettle(s) ==
    /\ At(s, "agent", "settle") /\ mutex[s] = Nobody /\ Goto(s, "agent", "decide")
    /\ UNCHANGED <<sessionVars, lockVars, taskVars>>
-----------------------------------------------------------------------------
(* maybe_start_game, called by the agent's task and by the human's socket. *)

Started(w) == IF w = "agent" THEN "await" ELSE "idle"

GameReady(s) ==
    /\ At(s, "game", "idle") /\ life[s] = "forming" /\ ready[s] /\ ~paused[s]
    /\ Goto(s, "game", "start")
    /\ UNCHANGED <<sessionVars, lockVars, taskVars>>

\* Mutant: the lifecycle is not looked at again under the lock.
StartLockUnchecked(s, w) ==
    /\ At(s, w, "start") /\ MemoryFree /\ mutex[s] = Nobody
    /\ \/ life[s] # "gone" /\ ready[s] /\ ~paused[s] /\ Acquire(s, w) /\ Goto(s, w, "commit")
       \/ Goto(s, w, Started(w)) /\ UNCHANGED mutex
    /\ UNCHANGED <<sessionVars, taskVars, readers, writers, memory>>

\* Whether the human is ready is the human's choice.
StartLock(s, w) ==
    /\ At(s, w, "start") /\ MemoryFree /\ mutex[s] = Nobody
    /\ \/ life[s] = "forming" /\ ready[s] /\ ~paused[s] /\ Acquire(s, w) /\ Goto(s, w, "commit")
       \/ Goto(s, w, Started(w)) /\ UNCHANGED mutex
    /\ UNCHANGED <<sessionVars, taskVars, readers, writers, memory>>

\* The row was startable and memory follows it, whatever memory says by now.
StartApply(s, w) ==
    /\ At(s, w, "commit") /\ MemoryFree /\ life[s] # "gone"
    /\ life' = [life EXCEPT ![s] = "running"]
    /\ Goto(s, w, "wake")
    /\ UNCHANGED <<paused, pauses, messages, accepted, seen, lockVars, taskVars>>

\* The row was not startable, or the room is gone.
StartRefused(s, w) ==
    /\ At(s, w, "commit") /\ MemoryFree /\ (life[s] \in Ended)
    /\ Unlock(s) /\ Goto(s, w, Started(w))
    /\ UNCHANGED <<sessionVars, taskVars, readers, writers, memory>>

StartGuard(s, w) ==
    /\ At(s, w, "wake") /\ ReadGuard(s, w) /\ Goto(s, w, "waking")
    /\ UNCHANGED <<sessionVars, taskVars, mutex, writers, memory>>

StartSend(s, w) ==
    /\ At(s, w, "waking") /\ Send(s, Activated)
    /\ ReadDrop(s, w) /\ Unlock(s) /\ Goto(s, w, Started(w))
    /\ UNCHANGED <<sessionVars, listed, ready, errors, writers, memory>>
-----------------------------------------------------------------------------
(* submit_action, called by the human's socket and by the agent's task.    *)

GameAct(s) ==
    /\ At(s, "game", "idle") /\ Goto(s, "game", "submit")
    /\ UNCHANGED <<sessionVars, lockVars, taskVars>>

\* Mutant: a completed game is still played.
PlayableWhenCompleted(s) == life[s] \in {"running", "completed"} /\ ~paused[s]

Playable(s) == life[s] = "running" /\ ~paused[s]

SubmitLock(s, w) ==
    /\ At(s, w, "submit") /\ MemoryFree /\ Playable(s)
    /\ Acquire(s, w) /\ Goto(s, w, "apply")
    /\ UNCHANGED <<sessionVars, taskVars, readers, writers, memory>>

\* Ended, paused or gone (SubmissionRejection): the agent's task stops.
SubmitRefused(s, w) ==
    /\ At(s, w, "submit") /\ MemoryFree /\ mutex[s] = Nobody /\ ~Playable(s)
    /\ Goto(s, w, IF w = "agent" THEN "dispose" ELSE "idle")
    /\ UNCHANGED <<sessionVars, lockVars, taskVars>>

\* The game rejects the action: the agent may try again, up to the limit.
SubmitInvalid(s, w) ==
    /\ At(s, w, "submit") /\ MemoryFree /\ mutex[s] = Nobody /\ Playable(s)
    /\ IF w = "agent"
       THEN /\ errors' = [errors EXCEPT ![s] = @ + 1]
            /\ Goto(s, w, IF errors[s] + 1 < InvalidLimit THEN "decide" ELSE "dispose")
       ELSE UNCHANGED errors /\ Goto(s, w, "idle")
    /\ UNCHANGED <<sessionVars, lockVars, inbox, listed, ready>>

\* Mutant: the transition lock is dropped before the agents are told.
SubmitApplyUnlocks(s, w) ==
    /\ At(s, w, "apply") /\ MemoryFree
    /\ IF life[s] = "gone"
       THEN /\ Goto(s, w, IF w = "agent" THEN "dispose" ELSE "idle")
            /\ UNCHANGED <<accepted, life>>
       ELSE /\ accepted' = [accepted EXCEPT ![s] = @ + 1]
            /\ life' = [life EXCEPT ![s] = IF accepted[s] + 1 = ActionLimit THEN "completed" ELSE @]
            /\ Goto(s, w, "tell")
    /\ Unlock(s)
    /\ UNCHANGED <<paused, pauses, messages, seen, taskVars, readers, writers, memory>>

\* Committed, then applied to memory if the room is still there.
SubmitApply(s, w) ==
    /\ At(s, w, "apply") /\ MemoryFree
    /\ IF life[s] = "gone"
       THEN /\ Unlock(s) /\ Goto(s, w, IF w = "agent" THEN "dispose" ELSE "idle")
            /\ UNCHANGED <<accepted, life>>
       ELSE /\ accepted' = [accepted EXCEPT ![s] = @ + 1]
            /\ life' = [life EXCEPT ![s] = IF accepted[s] + 1 = ActionLimit THEN "completed" ELSE @]
            /\ Goto(s, w, "tell") /\ UNCHANGED mutex
    /\ UNCHANGED <<paused, pauses, messages, seen, taskVars, readers, writers, memory>>

\* notify_agents_of_action: the agent is told of its own actions as well.
TellGuard(s, w) ==
    /\ At(s, w, "tell") /\ MemoryFree /\ life[s] # "gone" /\ ReadGuard(s, w) /\ Goto(s, w, "telling")
    /\ UNCHANGED <<sessionVars, taskVars, mutex, writers, memory>>

\* The last action carries the completion.  An agent whose own action completed
\* the game only listens from now on.
AfterTell(s, w) ==
    IF w # "agent" THEN {"idle"}
    ELSE IF accepted[s] = ActionLimit THEN {"drain"} ELSE {"recv", "say"}

TellNobody(s, w) ==
    /\ At(s, w, "tell") /\ MemoryFree /\ life[s] = "gone"
    /\ Unlock(s) /\ Goto(s, w, Home(w))
    /\ UNCHANGED <<sessionVars, taskVars, readers, writers, memory>>

TellSend(s, w) ==
    /\ At(s, w, "telling") /\ Send(s, Action(accepted[s]))
    /\ ReadDrop(s, w) /\ Unlock(s)
    /\ \E to \in AfterTell(s, w) : Goto(s, w, to)
    /\ UNCHANGED <<sessionVars, listed, ready, errors, writers, memory>>
-----------------------------------------------------------------------------
(* commit_conversation_message, which takes no transition lock.            *)

HumanSay(s, w) ==
    /\ w \in {"game", "voice"} /\ At(s, w, "idle") /\ messages[s] > 0
    /\ messages' = [messages EXCEPT ![s] = @ - 1]
    /\ Goto(s, w, "say")
    /\ UNCHANGED <<life, paused, pauses, accepted, seen, lockVars, taskVars>>

SayCommit(s, w) ==
    /\ At(s, w, "say") /\ MemoryFree
    /\ Goto(s, w, IF Playable(s) THEN "note" ELSE Home(w))
    /\ UNCHANGED <<sessionVars, lockVars, taskVars>>

\* notify_agents_of_message: not told to the speaker.
NoteGuard(s, w) ==
    /\ At(s, w, "note") /\ MemoryFree /\ life[s] # "gone" /\ ReadGuard(s, w) /\ Goto(s, w, "noting")
    /\ UNCHANGED <<sessionVars, taskVars, mutex, writers, memory>>

NoteNobody(s, w) ==
    /\ At(s, w, "note") /\ MemoryFree /\ life[s] = "gone" /\ Goto(s, w, Home(w))
    /\ UNCHANGED <<sessionVars, lockVars, taskVars>>

NoteSend(s, w) ==
    /\ At(s, w, "noting")
    /\ IF w = "agent" THEN UNCHANGED inbox ELSE Send(s, Message)
    /\ ReadDrop(s, w) /\ Goto(s, w, Home(w))
    /\ UNCHANGED <<sessionVars, listed, ready, errors, mutex, writers, memory>>
-----------------------------------------------------------------------------
(* The loop of the agent's task.                                           *)

\* request_agent_decision: an action, a message, nothing.
AgentDecide(s) ==
    /\ At(s, "agent", "decide") /\ MemoryFree /\ life[s] # "gone"
    /\ \E to \in {"submit", "say", "recv"} : Goto(s, "agent", to)
    /\ UNCHANGED <<sessionVars, lockVars, taskVars>>

\* No room, an error or a timeout of the agent: the task stops.
AgentDecideFails(s) ==
    /\ At(s, "agent", "decide") /\ MemoryFree /\ Goto(s, "agent", "dispose")
    /\ UNCHANGED <<sessionVars, lockVars, taskVars>>

\* An observation, which may fail or time out.
AgentRecv(s) ==
    LET item == Head(inbox[s]) IN
    \E here \in {"recv", "drain"}, fails \in BOOLEAN :
        /\ At(s, "agent", here) /\ inbox[s] # << >>
        /\ inbox' = [inbox EXCEPT ![s] = Tail(@)]
        /\ seen' = [seen EXCEPT ![s] = IF item.kind = "action" THEN item.n ELSE @]
        /\ errors' = [errors EXCEPT ![s] = IF fails THEN @ + 1 ELSE @]
        /\ Goto(s, "agent", IF item = Action(ActionLimit) \/ errors'[s] >= InvalidLimit THEN "dispose"
                            ELSE IF here = "drain" THEN "drain" ELSE "decide")
        /\ UNCHANGED <<life, paused, pauses, messages, accepted, lockVars, listed, ready>>

\* The inbox is closed and empty.
AgentClosed(s) ==
    /\ pc[s]["agent"] \in {"recv", "drain"} /\ inbox[s] = << >> /\ ~listed[s]
    /\ Goto(s, "agent", "dispose")
    /\ UNCHANGED <<sessionVars, lockVars, taskVars>>

\* The receiver is dropped; the sender is taken out of the registry.
AgentDispose(s) ==
    /\ At(s, "agent", "dispose") /\ WriteQueue(s, "agent") /\ Goto(s, "agent", "remove")
    /\ inbox' = [inbox EXCEPT ![s] = << >>]
    /\ UNCHANGED <<sessionVars, listed, ready, errors, mutex, readers, memory>>

AgentRemove(s) ==
    /\ At(s, "agent", "remove") /\ WriteGuard(s, "agent")
    /\ listed' = [listed EXCEPT ![s] = FALSE] /\ Goto(s, "agent", "gone")
    /\ UNCHANGED <<sessionVars, inbox, ready, errors, mutex, readers, memory>>
-----------------------------------------------------------------------------
(* What else ends a session.                                               *)

\* abandon_session, under the transition lock until the inbox is closed.
LeaveLock(s) ==
    /\ At(s, "leave", "idle") /\ MemoryFree /\ life[s] \in {"forming", "running"}
    /\ Acquire(s, "leave") /\ Goto(s, "leave", "leave")
    /\ UNCHANGED <<sessionVars, taskVars, readers, writers, memory>>

LeaveApply(s) ==
    /\ At(s, "leave", "leave") /\ MemoryFree
    /\ IF life[s] \in {"forming", "running"}
       THEN /\ life' = [life EXCEPT ![s] = "left"] /\ paused' = [paused EXCEPT ![s] = FALSE]
            /\ WriteQueue(s, "leave") /\ Goto(s, "leave", "close")
            /\ UNCHANGED mutex
       ELSE Unlock(s) /\ Goto(s, "leave", "idle") /\ UNCHANGED <<life, paused, writers>>
    /\ UNCHANGED <<pauses, messages, accepted, seen, taskVars, readers, memory>>

\* Mutant: the inbox stays in the registry.
LeaveCloseKeepsInbox(s) ==
    /\ At(s, "leave", "close") /\ WriteGuard(s, "leave")
    /\ Unlock(s) /\ Goto(s, "leave", "done")
    /\ UNCHANGED <<sessionVars, inbox, listed, ready, errors, readers, memory>>

LeaveClose(s) ==
    /\ At(s, "leave", "close") /\ WriteGuard(s, "leave")
    /\ listed' = [listed EXCEPT ![s] = FALSE]
    /\ Unlock(s) /\ Goto(s, "leave", "done")
    /\ UNCHANGED <<sessionVars, inbox, ready, errors, readers, memory>>

\* The human's connection: a pause, a resumption, or the end of the grace period.
Disconnect(s) ==
    /\ MemoryFree /\ pauses[s] > 0 /\ ~paused[s] /\ life[s] \in {"forming", "running"}
    /\ paused' = [paused EXCEPT ![s] = TRUE] /\ pauses' = [pauses EXCEPT ![s] = @ - 1]
    /\ UNCHANGED <<life, messages, accepted, seen, lockVars, taskVars, pc>>

Reconnect(s) ==
    /\ MemoryFree /\ paused[s] /\ life[s] \in {"forming", "running"} /\ paused' = [paused EXCEPT ![s] = FALSE]
    /\ UNCHANGED <<life, pauses, messages, accepted, seen, lockVars, taskVars, pc>>

\* The reconnect timer expires the session and leaves the inbox alone.
ReconnectTimeout(s) ==
    /\ MemoryFree /\ paused[s] /\ life[s] \in {"forming", "running"}
    /\ life' = [life EXCEPT ![s] = "expired"] /\ paused' = [paused EXCEPT ![s] = FALSE]
    /\ UNCHANGED <<pauses, messages, accepted, seen, lockVars, taskVars, pc>>

\* The sweeper expires a room and removes it, then its inbox.  An ended room with
\* an agent is never removed: the agent counts as connected.
SweepExpire(s) ==
    /\ At(s, "sweep", "idle") /\ MemoryFree /\ life[s] \in {"forming", "running"}
    /\ life' = [life EXCEPT ![s] = "expired"] /\ Goto(s, "sweep", "room")
    /\ UNCHANGED <<paused, pauses, messages, accepted, seen, lockVars, taskVars>>

SweepRoom(s) ==
    /\ At(s, "sweep", "room") /\ MemoryFree
    /\ life' = [life EXCEPT ![s] = "gone"] /\ paused' = [paused EXCEPT ![s] = FALSE]
    /\ WriteQueue(s, "sweep") /\ Goto(s, "sweep", "inbox")
    /\ UNCHANGED <<pauses, messages, accepted, seen, taskVars, mutex, readers, memory>>

SweepInbox(s) ==
    /\ At(s, "sweep", "inbox") /\ WriteGuard(s, "sweep")
    /\ listed' = [listed EXCEPT ![s] = FALSE] /\ Goto(s, "sweep", "done")
    /\ UNCHANGED <<sessionVars, inbox, ready, errors, mutex, readers, memory>>
-----------------------------------------------------------------------------
Player == {"agent", "game"}
Speaker == {"agent", "game", "voice"}

AgentStep(s) ==
    \/ AgentStart(s) \/ AgentStartFails(s) \/ AgentLock(s) \/ AgentEnter(s) \/ AgentList(s)
    \/ AgentAwait(s) \/ AgentSettle(s) \/ AgentDecide(s) \/ AgentDecideFails(s)
    \/ AgentRecv(s) \/ AgentClosed(s) \/ AgentDispose(s) \/ AgentRemove(s)

PlayStep(s, w) ==
    \/ StartLock(s, w) \/ StartApply(s, w) \/ StartRefused(s, w) \/ StartGuard(s, w)
    \/ StartSend(s, w)
    \/ SubmitLock(s, w) \/ SubmitRefused(s, w) \/ SubmitInvalid(s, w) \/ SubmitApply(s, w)
    \/ TellGuard(s, w) \/ TellNobody(s, w) \/ TellSend(s, w)

SpeakStep(s, w) ==
    SayCommit(s, w) \/ NoteGuard(s, w) \/ NoteNobody(s, w) \/ NoteSend(s, w)

\* What each process does once it has been asked.
Turn(s, w) ==
    \/ w = "agent" /\ AgentStep(s)
    \/ w \in Player /\ PlayStep(s, w)
    \/ w \in Speaker /\ SpeakStep(s, w)
    \/ w = "leave" /\ (LeaveApply(s) \/ LeaveClose(s))
    \/ w = "sweep" /\ (SweepRoom(s) \/ SweepInbox(s))

HumanStep(s) ==
    \/ GameReady(s) \/ GameAct(s) \/ (\E w \in Speaker : HumanSay(s, w)) \/ LeaveLock(s)
    \/ Disconnect(s) \/ Reconnect(s) \/ ReconnectTimeout(s) \/ SweepExpire(s)

Next == \E s \in Session : (\E w \in Process : Turn(s, w)) \/ HumanStep(s)

Spec == Init /\ [][Next]_vars
\* Tasks are scheduled, and every await of the agent is timed.
FairSpec == Spec /\ \A s \in Session, w \in Process : WF_vars(Turn(s, w))
-----------------------------------------------------------------------------
(* Properties *)

Pc == {"new", "lock", "enter", "list", "await", "settle", "decide", "recv", "drain", "dispose",
       "remove", "gone", "idle", "start", "commit", "wake", "waking", "submit", "apply", "tell",
       "telling", "say", "note", "noting", "leave", "close", "done", "room", "inbox"}

\* Every variable has its type: an inbox holds no more than its capacity, and
\* memory is held by the one agent that is being listed.
TypeOK ==
    /\ life \in [Session -> {"forming", "running"} \cup Ended]
    /\ paused \in [Session -> BOOLEAN]
    /\ pauses \in [Session -> 0..MaxPauses] /\ messages \in [Session -> 0..MaxMessages]
    /\ accepted \in [Session -> 0..ActionLimit] /\ seen \in [Session -> 0..ActionLimit]
    /\ mutex \in [Session -> {Nobody, "agent", "game", "leave"}]
    /\ \A s \in Session : /\ Len(inbox[s]) <= InboxSize
                          /\ \A i \in DOMAIN inbox[s] :
                                inbox[s][i] \in {Activated, Message} \cup {Action(n) : n \in 1..ActionLimit}
    /\ listed \in [Session -> BOOLEAN] /\ ready \in [Session -> BOOLEAN]
    /\ errors \in [Session -> 0..InvalidLimit]
    /\ pc \in [Session -> [Process -> Pc]]
    /\ readers \subseteq Session \X Process /\ writers \subseteq Session \X Process
    /\ memory \in Session \cup {Nobody}

\* unreachable!("a session activates only once"): a task that has been activated
\* never takes another activation from its inbox, although both the agent and the
\* human's socket call maybe_start_game.
ActivatesOnce ==
    \A s \in Session : pc[s]["agent"] \in {"settle", "decide", "submit", "apply", "tell", "telling",
                                           "say", "note", "noting", "recv", "drain"}
        => \A i \in DOMAIN inbox[s] : inbox[s][i] # Activated

\* Where the inbox of s holds actions.
Queued(s) == {i \in DOMAIN inbox[s] : inbox[s][i].kind = "action"}

\* The accepted actions, but for one the agent is still to be told of.
Told(s) == accepted[s] - (IF \E w \in Player : pc[s][w] \in {"tell", "telling"} THEN 1 ELSE 0)

\* The agent observes the accepted actions in the order in which they were
\* committed, none twice and none left out, whoever made them and however they
\* interleave with messages, as long as its task, its inbox and the room are there.
ObservesInOrder ==
    \A s \in Session : ~Deaf(s) /\ listed[s] /\ life[s] # "gone" =>
        /\ seen[s] <= Told(s)
        /\ {inbox[s][i].n : i \in Queued(s)} = (seen[s] + 1)..Told(s)
        /\ \A i, j \in Queued(s) : i < j => inbox[s][i].n < inbox[s][j].n

\* A session that was completed, left or swept away gets rid of its agent: the task
\* ends and its inbox leaves the registry.
AgentIsDisposed ==
    \A s \in Session : (life[s] \in {"completed", "left", "gone"}) ~> At(s, "agent", "gone")

\* "registry read locks must not be held across a blocking send, and cleanup/shutdown
\* must still acquire write access": whoever waits for agent_inboxes gets it.
RegistryIsReleased == writers # {} ~> writers = {}

\* "Activation is queued before public input can arrive": a task that waits for its
\* activation finds nothing else.  Refuted: a message is accepted as soon as memory
\* says running, before maybe_start_game sends the activation; the task then stops.
ActivationComesFirst ==
    \A s \in Session : At(s, "agent", "await") /\ inbox[s] # << >> => Head(inbox[s]) = Activated

\* Only the end of a session turns an agent's action away.  Refuted: so does a pause
\* while the human reconnects, and the task does not survive the rejection.
PauseKeepsAgent ==
    [][\A s \in Session : SubmitRefused(s, "agent") => life[s] \in Ended]_vars

\* The agent's task is in step with its session: one activation, then every
\* accepted action in its order (start_agent_task, notify_agents_of_action).
AgentIsInStep == TypeOK /\ ActivatesOnce /\ ObservesInOrder
=============================================================================

-------------------------- MODULE HeadlessSession --------------------------
(***************************************************************************)
(* One headless session (agent_experiment.rs, SessionRunner::run and       *)
(* drive_session): a game and two agents are made, the agents are asked    *)
(* for decisions in the order of a schedule until the game is complete, a  *)
(* limit is reached or a callback fails, and they are shut down.  Every    *)
(* call of an agent is a step of its own and may succeed or fail; a time   *)
(* out is a failure.  The game is a parameter.                             *)
(***************************************************************************)
EXTENDS Integers, FiniteSets, Sequences, SequencesExt

CONSTANTS
    InitialStates,          \* states Game::initial_state may return
    Actions(_),             \* actions an agent may answer in a state
    Accepts(_, _, _),       \* apply_action succeeds: state, action, actor
    ApplyAction(_, _),      \* and its next state
    Observation(_, _),      \* observation of a state by a role
    Completion(_),          \* Game::completion: empty, or the completion of a final state
    Schedules,              \* activation schedules selected by the file
    Trainings,              \* {TRUE}: a training set, its learner in seat A
    MaxDecisions, MaxActions, MaxMessages, MaxRejections    \* SessionLimits

\* SessionLimits::validate.
ASSUME LimitsAssumption ==
    {MaxDecisions, MaxActions, MaxMessages, MaxRejections} \subseteq Nat \ {0}

\* The two variants of ActivationSchedule, and whether the file has a learner.
ASSUME SchedulesAssumption ==
    /\ Schedules \subseteq {"alternate_every_response", "alternate_after_action"}
    /\ Trainings \subseteq BOOLEAN

Role == {"A", "B"}
other_role(r) == IF r = "A" THEN "B" ELSE "A"
Nobody == "nobody"
IsComplete(s) == Completion(s) # {}

VARIABLES
    pc,         \* where the runner is
    turn,       \* the role a callback, or the next decision, is for
    kind,       \* the activation schedule
    training,   \* the learner in seat A is captured
    state,      \* the game's state
    next,       \* the state an accepted action leads to, while it is observed
    response,   \* the kind of the response being executed
    rejected,   \* its action was rejected
    previousYield,  \* the schedule's memory
    agent,      \* per role: the stages its agent has been through
    view,       \* per role: the last observation delivered, as a singleton
    result,     \* SessionResult: status, counts
    trajectory, \* learner transitions
    yielded     \* roles that have yielded since the last output (history)

playVars == <<pc, turn, kind, training, state, next, response, rejected, previousYield,
          agent, view, result, trajectory, yielded>>

\* None, Action, Message and ActionAndMessage of AgentResponse.
Yield == [type |-> "yield"]
Responses(s) ==
    {Yield, [type |-> "message"]}
        \cup {[type |-> t, action |-> a] : t \in {"action", "both"}, a \in Actions(s)}

HasAction(type) == type \in {"action", "both"}
HasMessage(type) == type \in {"message", "both"}

Limits == {"decision_limit", "action_limit", "message_limit", "rejection_limit", "deadline"}

PlayInit ==
    /\ pc = "game" /\ turn = "A"
    /\ kind \in Schedules /\ training \in Trainings
    /\ state \in InitialStates /\ next = state
    /\ response = "yield" /\ rejected = FALSE /\ previousYield = Nobody
    /\ agent = [r \in Role |-> {}]
    /\ view = [r \in Role |-> {}]
    /\ result = [status |-> "failed", decisions |-> 0, accepted |-> 0,
                 rejected |-> 0, messages |-> 0]
    /\ trajectory = <<>> /\ yielded = {}

-----------------------------------------------------------------------------
(* SessionRunner::run: construction and cleanup *)

\* Mutant: a failure returns without shutting anybody down.
MutForgetAgents(how) ==
    /\ result' = [result EXCEPT !.status = how]
    /\ pc' = IF how = "failed" THEN "done" ELSE "shutdown"
    /\ turn' = "A"

\* drive_session returns, or a constructor fails: the result is decided and
\* the agents that exist are shut down.
Leave(how) ==
    /\ result' = [result EXCEPT !.status = how]
    /\ pc' = "shutdown" /\ turn' = "A"

CreateGame(ok) ==
    /\ pc = "game"
    /\ IF ok THEN pc' = "create" /\ UNCHANGED <<turn, result>> ELSE Leave("failed")
    /\ UNCHANGED <<kind, training, state, next, response, rejected, previousYield,
                   agent, view, trajectory, yielded>>

\* create_agent, for A and then for B.
CreateAgent(ok) ==
    /\ pc = "create"
    /\ IF ok
       THEN /\ agent' = [agent EXCEPT ![turn] = @ \cup {"made"}]
            /\ turn' = other_role(turn)
            /\ pc' = IF turn = "A" THEN "create" ELSE "state"
            /\ UNCHANGED result
       ELSE Leave("failed") /\ UNCHANGED agent
    /\ UNCHANGED <<kind, training, state, next, response, rejected, previousYield,
                   view, trajectory, yielded>>

InitialState(ok) ==
    /\ pc = "state"
    /\ IF ok THEN pc' = "start" /\ UNCHANGED <<turn, result>> ELSE Leave("failed")
    /\ UNCHANGED <<kind, training, state, next, response, rejected, previousYield,
                   agent, view, trajectory, yielded>>

\* Mutant: shutdown is tried again and again.
MutRetryShutDown ==
    /\ pc = "shutdown"
    /\ agent' = [agent EXCEPT ![turn] = IF @ = {} THEN @ ELSE @ \cup {"down"}]
    /\ turn' = other_role(turn)
    /\ UNCHANGED <<pc, kind, training, state, next, response, rejected, previousYield,
                   view, result, trajectory, yielded>>

\* shutdown_agent: whatever the agent answers, in time or not, is a diagnostic.
ShutDown ==
    /\ pc = "shutdown"
    /\ agent' = [agent EXCEPT ![turn] = IF @ = {} THEN @ ELSE @ \cup {"down"}]
    /\ turn' = other_role(turn)
    /\ pc' = IF turn = "A" THEN "shutdown" ELSE "done"
    /\ UNCHANGED <<kind, training, state, next, response, rejected, previousYield,
                   view, result, trajectory, yielded>>

-----------------------------------------------------------------------------
(* drive_session *)

\* start, for A and then for B; a game that begins complete is finished.
StartAgent(ok) ==
    /\ pc = "start"
    /\ IF ok
       THEN /\ agent' = [agent EXCEPT ![turn] = @ \cup {"started"}]
            /\ view' = [view EXCEPT ![turn] = {Observation(state, turn)}]
            /\ turn' = other_role(turn)
            /\ pc' = CASE turn = "A" -> "start"
                       [] turn = "B" /\ IsComplete(state) -> "finish"
                       [] OTHER -> "loop"
            /\ UNCHANGED result
       ELSE Leave("failed") /\ UNCHANGED <<agent, view>>
    /\ UNCHANGED <<kind, training, state, next, response, rejected, previousYield,
                   trajectory, yielded>>

\* The head of the loop: the deadline has passed, or the decisions are spent.
StopBefore(limit) ==
    /\ pc = "loop"
    /\ \/ limit = "deadline"
       \/ limit = "decision_limit" /\ result.decisions >= MaxDecisions
    /\ Leave(limit)
    /\ UNCHANGED <<kind, training, state, next, response, rejected, previousYield,
                   agent, view, trajectory, yielded>>

Captured == training /\ turn = "A"

\* Mutants: a step is terminal when the state before it is, has no decision,
\* is terminal whenever it is accepted.
MutTerminalBefore(accepted, terminal) ==
    [decision |-> result.decisions, accepted |-> accepted, terminal |-> IsComplete(state)]

MutNoDecision(accepted, terminal) ==
    [decision |-> 0, accepted |-> accepted, terminal |-> terminal]

MutAlwaysTerminal(accepted, terminal) ==
    [decision |-> result.decisions, accepted |-> accepted, terminal |-> accepted]

\* The step record_trajectory appends.
Transition(accepted, terminal) ==
    [decision |-> result.decisions, accepted |-> accepted, terminal |-> terminal]

(***************************************************************************)
(* respond: a failure, or a response.  A learner that is captured answers  *)
(* with an action and nothing else.  An action the game rejects is counted *)
(* and captured, and its message is dropped; an accepted one is counted    *)
(* and shown to both agents before anything else happens.                  *)
(***************************************************************************)
RespondFails ==
    /\ pc = "loop" /\ result.decisions < MaxDecisions
    /\ result' = [result EXCEPT !.decisions = @ + 1, !.status = "failed"]
    /\ pc' = "shutdown" /\ turn' = "A"
    /\ UNCHANGED <<kind, training, state, next, response, rejected, previousYield,
                   agent, view, trajectory, yielded>>

Respond(r) ==
    /\ pc = "loop" /\ result.decisions < MaxDecisions
    /\ ~ Captured \/ r.type = "action"
    /\ response' = r.type
    /\ yielded' = IF r = Yield THEN yielded \cup {turn} ELSE {}
    /\ LET counted == [result EXCEPT !.decisions = @ + 1]
           accepts == HasAction(r.type) /\ Accepts(state, r.action, turn)
       IN  \/ /\ ~ HasAction(r.type)
              /\ pc' = IF HasMessage(r.type) THEN "message" ELSE "after"
              /\ result' = counted /\ rejected' = FALSE
              /\ UNCHANGED <<next, trajectory>>
           \/ /\ HasAction(r.type) /\ ~ accepts
              /\ pc' = "after"
              /\ result' = [counted EXCEPT !.rejected = @ + 1] /\ rejected' = TRUE
              /\ trajectory' = IF Captured
                               THEN Append(trajectory, [Transition(FALSE, FALSE) EXCEPT !.decision = @ + 1])
                               ELSE trajectory
              /\ UNCHANGED next
           \/ /\ accepts
              /\ pc' = "observeA"
              /\ result' = [counted EXCEPT !.accepted = @ + 1] /\ rejected' = FALSE
              /\ next' = ApplyAction(state, r.action)
              /\ UNCHANGED trajectory
    /\ UNCHANGED <<turn, kind, training, state, previousYield, agent, view>>

\* The learner answered with a message or not at all.
WrongLearnerResponse ==
    /\ pc = "loop" /\ result.decisions < MaxDecisions
    /\ Captured
    /\ result' = [result EXCEPT !.decisions = @ + 1, !.status = "failed"]
    /\ pc' = "shutdown" /\ turn' = "A"
    /\ UNCHANGED <<kind, training, state, next, response, rejected, previousYield,
                   agent, view, trajectory, yielded>>

\* Mutant: only the partner is told of an action.
MutObserveActor(r, ok) ==
    /\ pc = IF r = "A" THEN "observeA" ELSE "observeB"
    /\ IF ~ ok
       THEN Leave("failed") /\ UNCHANGED <<view, state, trajectory>>
       ELSE /\ view' = IF r = turn THEN view ELSE [view EXCEPT ![r] = {Observation(next, r)}]
            /\ UNCHANGED <<turn, result>>
            /\ IF r = "A"
               THEN pc' = "observeB" /\ UNCHANGED <<state, trajectory>>
               ELSE /\ state' = next
                    /\ trajectory' = IF Captured
                                     THEN Append(trajectory, Transition(TRUE, IsComplete(next)))
                                     ELSE trajectory
                    /\ pc' = IF HasMessage(response) /\ ~ IsComplete(next)
                             THEN "message" ELSE "after"
    /\ UNCHANGED <<kind, training, next, response, rejected, previousYield, agent, yielded>>

\* observe_transition, for A and then for B; then the transition is captured,
\* the state replaced, and the message of a game that goes on delivered.
Observe(r, ok) ==
    /\ pc = IF r = "A" THEN "observeA" ELSE "observeB"
    /\ IF ~ ok
       THEN Leave("failed") /\ UNCHANGED <<view, state, trajectory>>
       ELSE /\ view' = [view EXCEPT ![r] = {Observation(next, r)}]
            /\ UNCHANGED <<turn, result>>
            /\ IF r = "A"
               THEN pc' = "observeB" /\ UNCHANGED <<state, trajectory>>
               ELSE /\ state' = next
                    /\ trajectory' = IF Captured
                                     THEN Append(trajectory, Transition(TRUE, IsComplete(next)))
                                     ELSE trajectory
                    /\ pc' = IF HasMessage(response) /\ ~ IsComplete(next)
                             THEN "message" ELSE "after"
    /\ UNCHANGED <<kind, training, next, response, rejected, previousYield, agent, yielded>>

\* deliver_message: to the other agent only.
DeliverMessage(ok) ==
    /\ pc = "message"
    /\ IF ok
       THEN /\ result' = [result EXCEPT !.messages = @ + 1]
            /\ pc' = "after" /\ UNCHANGED turn
       ELSE Leave("failed")
    /\ UNCHANGED <<kind, training, state, next, response, rejected, previousYield,
                   agent, view, trajectory, yielded>>

-----------------------------------------------------------------------------
(* AgentSchedule: who is asked next *)

\* Two yields in a row, one of each role, end the session.
BothYield == response = "yield" /\ previousYield = other_role(turn)

\* Mutant: output in between does not break a row of yields.
MutStickyYield == IF response = "yield" THEN turn ELSE previousYield

\* The schedule's memory after a response.
NextMemory == IF response = "yield" THEN turn ELSE Nobody

\* AlternateEveryResponse hands over after every response.
\* AlternateAfterAction keeps the turn after a message and after a rejection.
NextTurn ==
    CASE kind = "alternate_every_response" -> other_role(turn)
      [] kind = "alternate_after_action" ->
            IF response = "message" \/ (HasAction(response) /\ rejected)
            THEN turn ELSE other_role(turn)

\* Mutant: the limits are looked at only when the turn is handed over.
MutLateLimits ==
    IF IsComplete(state) THEN "completed"
    ELSE IF NextTurn = turn THEN "continue"
    ELSE IF result.accepted >= MaxActions THEN "action_limit"
    ELSE IF result.messages >= MaxMessages THEN "message_limit"
    ELSE IF result.rejected >= MaxRejections THEN "rejection_limit"
    ELSE IF BothYield THEN "quiescent" ELSE "continue"

\* The end of an iteration: completion first, then the limits in this order,
\* then the schedule.
Verdict ==
    IF IsComplete(state) THEN "completed"
    ELSE IF result.accepted >= MaxActions THEN "action_limit"
    ELSE IF result.messages >= MaxMessages THEN "message_limit"
    ELSE IF result.rejected >= MaxRejections THEN "rejection_limit"
    ELSE IF BothYield THEN "quiescent" ELSE "continue"

After ==
    /\ pc = "after"
    /\ \/ /\ Verdict = "completed"
          /\ pc' = "finish" /\ turn' = "A"
          /\ UNCHANGED <<previousYield, result>>
       \/ /\ Verdict = "continue"
          /\ pc' = "loop"
          /\ turn' = NextTurn /\ previousYield' = NextMemory
          /\ UNCHANGED result
       \/ /\ Verdict \notin {"completed", "continue"}
          /\ Leave(Verdict)
          /\ UNCHANGED previousYield
    /\ UNCHANGED <<kind, training, state, next, response, rejected,
                   agent, view, trajectory, yielded>>

\* Mutant: the first agent's completion is enough.
MutFinishOne(ok) ==
    /\ pc = "finish"
    /\ IF ok
       THEN agent' = [agent EXCEPT ![turn] = @ \cup {"finished"}] /\ Leave("completed")
       ELSE Leave("failed") /\ UNCHANGED agent
    /\ UNCHANGED <<kind, training, state, next, response, rejected, previousYield,
                   view, trajectory, yielded>>

\* finish_agents, for A and then for B.
FinishAgent(ok) ==
    /\ pc = "finish"
    /\ IF ok
       THEN /\ agent' = [agent EXCEPT ![turn] = @ \cup {"finished"}]
            /\ IF turn = "A"
               THEN turn' = "B" /\ UNCHANGED <<pc, result>>
               ELSE Leave("completed")
       ELSE Leave("failed") /\ UNCHANGED agent
    /\ UNCHANGED <<kind, training, state, next, response, rejected, previousYield,
                   view, trajectory, yielded>>

-----------------------------------------------------------------------------
PlayNext ==
    \/ \E ok \in BOOLEAN : CreateGame(ok)
    \/ \E ok \in BOOLEAN : CreateAgent(ok)
    \/ \E ok \in BOOLEAN : InitialState(ok)
    \/ \E ok \in BOOLEAN : StartAgent(ok)
    \/ \E limit \in Limits : StopBefore(limit)
    \/ RespondFails
    \/ \E r \in Responses(state) : Respond(r)
    \/ WrongLearnerResponse
    \/ \E r \in Role, ok \in BOOLEAN : Observe(r, ok)
    \/ \E ok \in BOOLEAN : DeliverMessage(ok)
    \/ After
    \/ \E ok \in BOOLEAN : FinishAgent(ok)
    \/ ShutDown
PlaySpec == PlayInit /\ [][PlayNext]_playVars

-----------------------------------------------------------------------------
(* Properties *)

Stage == {"made", "started", "finished", "down"}
SessionStatus == {"failed", "completed", "quiescent"} \cup Limits

\* Every variable has its type.
PlayTypeOK ==
    /\ pc \in {"game", "create", "state", "start", "loop", "observeA", "observeB",
               "message", "after", "finish", "shutdown", "done"}
    /\ turn \in Role /\ kind \in Schedules /\ training \in Trainings
    /\ rejected \in BOOLEAN /\ previousYield \in Role \cup {Nobody}
    /\ agent \in [Role -> SUBSET Stage]
    /\ result \in [status : SessionStatus, decisions : Nat, accepted : Nat, rejected : Nat, messages : Nat]
    /\ trajectory \in Seq([decision : 1 .. MaxDecisions, accepted : BOOLEAN, terminal : BOOLEAN])
    /\ yielded \subseteq Role

\* Whatever went wrong, a session that is over has shut down every agent it
\* had made, the one whose partner could not be made included.
NobodyIsLeftRunning ==
    pc = "done" => \A r \in Role : agent[r] # {} => "down" \in agent[r]

\* An agent is asked for a decision only when both agents have seen the state
\* the game is in, each from its own side.
BothSeeTheGame ==
    pc = "loop" => \A r \in Role : view[r] = {Observation(state, r)}

\* The result says completed exactly when both agents were told of the
\* completion, and nobody is told of one the game has not reached.
CompletionIsShared ==
    pc = "done" =>
        /\ (result.status = "completed") = (\A r \in Role : "finished" \in agent[r])
        /\ (\E r \in Role : "finished" \in agent[r]) => IsComplete(state)

\* No limit is passed, and the status names a limit that was met; a message
\* may come with the action that meets another limit.
LimitsHold ==
    /\ result.decisions <= MaxDecisions /\ result.accepted <= MaxActions
    /\ result.rejected <= MaxRejections /\ result.messages <= MaxMessages
    /\ result.status = "action_limit" => result.accepted = MaxActions
    /\ result.status = "message_limit" => result.messages = MaxMessages
    /\ result.status = "rejection_limit" => result.rejected = MaxRejections
    /\ result.status = "decision_limit" => result.decisions = MaxDecisions

\* A session is quiescent when both agents have yielded with no output in
\* between, and is never continued past that.
QuiescenceIsMutual ==
    /\ pc = "loop" => yielded # Role
    /\ result.status = "quiescent" => yielded = Role

\* The learner's steps are those of distinct decisions in order, and one is
\* terminal only if it is the last and the game has ended with it.
TrajectoryIsOrdered ==
    \A i \in DOMAIN trajectory :
        /\ i > 1 => trajectory[i - 1].decision < trajectory[i].decision
        /\ trajectory[i].terminal =>
              i = Len(trajectory) /\ trajectory[i].accepted /\ IsComplete(state)

\* A session ends, by completion, silence, a limit or a failure, and the
\* runner goes on to the next.
SessionEnds == pc # "game" ~> pc = "done"

\* What drive_session and run keep for both agents whatever they answer and
\* wherever they fail: both see the game and its end, nobody is left running,
\* limits and quiescence are judged rightly, the learner's steps are in order.
SessionIsEven ==
    /\ PlayTypeOK
    /\ NobodyIsLeftRunning /\ BothSeeTheGame /\ CompletionIsShared
    /\ LimitsHold /\ QuiescenceIsMutual /\ TrajectoryIsOrdered
=============================================================================

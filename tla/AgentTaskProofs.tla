---------------------------- MODULE AgentTaskProofs --------------------------
(***************************************************************************)
(* AgentIsInStep holds for any sessions, any size of the inbox and any     *)
(* limits.  Why: what starts the game and what commits an action works     *)
(* under the transition lock until the agent has been told; the game is    *)
(* started once, since its start finds the room forming under that lock    *)
(* and nothing makes a room forming again.                                 *)
(***************************************************************************)
EXTENDS AgentTask, TLAPS

Item == {Activated, Message} \cup {Action(n) : n \in 1..ActionLimit}

Typed == TypeOK /\ inbox \in [Session -> Seq(Item)]

\* Where each process of a session can be.
Play == {"start", "commit", "wake", "waking", "submit", "apply", "tell", "telling"}
Talk == {"say", "note", "noting"}
Placed(s) ==
    /\ pc[s]["agent"] \in Play \cup Talk
           \cup {"new", "lock", "enter", "list", "await", "settle", "decide", "recv", "drain",
                 "dispose", "remove", "gone"}
    /\ pc[s]["game"] \in Play \cup Talk \cup {"idle"}
    /\ pc[s]["voice"] \in Talk \cup {"idle"}
    /\ pc[s]["leave"] \in {"idle", "leave", "close", "done"}
    /\ pc[s]["sweep"] \in {"idle", "room", "inbox", "done"}

\* The places at which a process holds the transition lock.
Starting == {"commit", "wake", "waking"}
Acting == {"apply", "tell", "telling"}
Holding == Starting \cup Acting \cup {"enter", "list", "leave", "close"}

MutexHeld(s) == \A w \in Process : pc[s][w] \in Holding => mutex[s] = w

\* Nothing reaches an agent that is not listed yet: its room is not running.
Prepared(s) ==
    /\ pc[s]["agent"] \in {"new", "lock", "enter", "list"} => ~ready[s]
    /\ ~ready[s] =>
        /\ life[s] # "running" /\ ~listed[s] /\ inbox[s] = << >> /\ accepted[s] = 0 /\ seen[s] = 0
        /\ \A w \in Process : pc[s][w] \notin Starting \cup Acting \cup {"note", "noting"}

\* While the room is forming, and until the one who starts the game has told the
\* agent, there is nothing to hear but messages.
Active == {"settle", "decide", "submit", "apply", "tell", "telling", "say", "note", "noting",
           "recv", "drain"}
Inactive(s) == pc[s]["agent"] \notin Active /\ \A i \in DOMAIN inbox[s] : inbox[s][i] = Message
Fresh(s) ==
    /\ accepted[s] = 0 /\ seen[s] = 0
    /\ \A w \in Process : pc[s][w] \notin Acting

StartsOnce(s) ==
    /\ life[s] = "forming" \/ (\E w \in Process : pc[s][w] \in Starting) => Inactive(s) /\ Fresh(s)
    /\ life[s] = "forming" => \A w \in Process : pc[s][w] \notin {"wake", "waking"}

\* One activation at most.
OneActivation(s) ==
    /\ \A i, j \in DOMAIN inbox[s] : inbox[s][i] = Activated /\ inbox[s][j] = Activated => i = j
    /\ pc[s]["agent"] \in Active => \A i \in DOMAIN inbox[s] : inbox[s][i] # Activated

\* The counts of a session: the game is over with its last action, and the task
\* with its last tolerated error.
Counts(s) ==
    /\ \A w \in Process : /\ pc[s][w] = "apply" => accepted[s] < ActionLimit
                          /\ pc[s][w] \in {"tell", "telling"} => accepted[s] > 0
    /\ accepted[s] = ActionLimit => life[s] # "running"
    /\ ~Deaf(s) => errors[s] < InvalidLimit

\* The numbers of the actions in a queue q, and that they come in their order.
Acts(q) == {i \in DOMAIN q : q[i].kind = "action"}
Nums(q) == {q[i].n : i \in Acts(q)}
Sorted(q) == \A i, j \in Acts(q) : i < j => q[i].n < q[j].n

\* ObservesInOrder, for one session.
InOrder(s) ==
    ~Deaf(s) /\ listed[s] /\ life[s] # "gone" =>
        seen[s] <= Told(s) /\ Nums(inbox[s]) = (seen[s] + 1)..Told(s) /\ Sorted(inbox[s])

Sound(s) ==
    /\ Placed(s) /\ MutexHeld(s) /\ Prepared(s) /\ StartsOnce(s) /\ OneActivation(s)
    /\ Counts(s) /\ InOrder(s)

IInv == Typed /\ \A s \in Session : Sound(s)
-----------------------------------------------------------------------------
\* A process that moves leaves the places of all others alone.
LEMMA Going ==
    ASSUME Typed, NEW s \in Session, NEW w \in Process, NEW to, Goto(s, w, to)
    PROVE  /\ pc'[s][w] = to
           /\ \A v \in Process \ {w} : pc'[s][v] = pc[s][v]
           /\ to \in Pc => pc' \in [Session -> [Process -> Pc]]
BY DEF Typed, TypeOK, Goto

\* The transition lock, as its holder sees it.
LEMMA Locking ==
    ASSUME Typed, NEW s \in Session
    PROVE  /\ \A w \in Process : Acquire(s, w) => mutex[s] = Nobody /\ mutex'[s] = w
           /\ Unlock(s) => mutex'[s] = Nobody
BY DEF Typed, TypeOK, Acquire, Unlock

\* The steps of a session, by who takes them.
StartStep(s, w) ==
    StartLock(s, w) \/ StartApply(s, w) \/ StartRefused(s, w) \/ StartGuard(s, w) \/ StartSend(s, w)
SubmitStep(s, w) ==
    \/ SubmitLock(s, w) \/ SubmitRefused(s, w) \/ SubmitInvalid(s, w) \/ SubmitApply(s, w)
    \/ TellGuard(s, w) \/ TellNobody(s, w) \/ TellSend(s, w)
EntryStep(s) ==
    AgentStart(s) \/ AgentStartFails(s) \/ AgentLock(s) \/ AgentEnter(s) \/ AgentList(s)
LoopStep(s) ==
    \/ AgentAwait(s) \/ AgentSettle(s) \/ AgentDecide(s) \/ AgentDecideFails(s)
    \/ AgentRecv(s) \/ AgentClosed(s) \/ AgentDispose(s) \/ AgentRemove(s)
EndStep(s) ==
    \/ LeaveLock(s) \/ LeaveApply(s) \/ LeaveClose(s)
    \/ SweepExpire(s) \/ SweepRoom(s) \/ SweepInbox(s)
LinkStep(s) == Disconnect(s) \/ Reconnect(s) \/ ReconnectTimeout(s)
AskStep(s) == GameReady(s) \/ GameAct(s) \/ \E w \in Speaker : HumanSay(s, w)
Step(s) ==
    \/ EntryStep(s) \/ LoopStep(s) \/ EndStep(s) \/ LinkStep(s) \/ AskStep(s)
    \/ \E w \in Player : StartStep(s, w) \/ SubmitStep(s, w)
    \/ \E w \in Speaker : SpeakStep(s, w)

\* Every step is one of these.
LEMMA Steps ==
    ASSUME Next
    PROVE  \E s \in Session : Step(s)
BY DEF Next, Turn, HumanStep, AgentStep, PlayStep, Step, StartStep, SubmitStep, EntryStep, LoopStep,
       EndStep, LinkStep, AskStep

Rests(t) ==
    /\ life'[t] = life[t] /\ accepted'[t] = accepted[t] /\ seen'[t] = seen[t]
    /\ mutex'[t] = mutex[t] /\ inbox'[t] = inbox[t] /\ listed'[t] = listed[t]
    /\ ready'[t] = ready[t] /\ errors'[t] = errors[t] /\ pc'[t] = pc[t]

\* Sessions share nothing but the registry and memory.
LEMMA OthersRest ==
    ASSUME Typed, NEW s \in Session, Step(s), NEW t \in Session \ {s}
    PROVE  Rests(t)
<1>1. CASE EntryStep(s)
  BY <1>1 DEF EntryStep, AgentStart, AgentStartFails, AgentLock, AgentEnter, AgentList, Goto, Acquire, Unlock,
     sessionVars, lockVars, taskVars, Typed, TypeOK, Rests
<1>2. CASE LoopStep(s)
  BY <1>2 DEF LoopStep, AgentAwait, AgentSettle, AgentDecide, AgentDecideFails, AgentRecv, AgentClosed,
     AgentDispose, AgentRemove, Goto, sessionVars, lockVars, taskVars, Typed, TypeOK, Rests
<1>3. CASE EndStep(s)
  BY <1>3 DEF EndStep, LeaveLock, LeaveApply, LeaveClose, SweepExpire, SweepRoom, SweepInbox, Goto, Acquire,
     Unlock, sessionVars, lockVars, taskVars, Typed, TypeOK, Rests
<1>4. CASE LinkStep(s) \/ AskStep(s)
  BY <1>4 DEF LinkStep, Disconnect, Reconnect, ReconnectTimeout, AskStep, GameReady, GameAct, HumanSay, Goto,
     sessionVars, lockVars, taskVars, Typed, TypeOK, Rests
<1>5. ASSUME NEW w \in Player, StartStep(s, w)
      PROVE  Rests(t)
  BY <1>5 DEF StartStep, StartLock, StartApply, StartRefused, StartGuard, StartSend, Send, Goto, Acquire, Unlock,
     sessionVars, lockVars, taskVars, Typed, TypeOK, Rests
<1>6. ASSUME NEW w \in Player, SubmitStep(s, w)
      PROVE  Rests(t)
  BY <1>6 DEF SubmitStep, SubmitLock, SubmitRefused, SubmitInvalid, SubmitApply, TellGuard, TellNobody, TellSend,
     Send, Goto, Acquire, Unlock, sessionVars, lockVars, taskVars, Typed, TypeOK, Rests
<1>7. ASSUME NEW w \in Speaker, SpeakStep(s, w)
      PROVE  Rests(t)
  BY <1>7 DEF SpeakStep, SayCommit, NoteGuard, NoteNobody, NoteSend, Send, Goto, sessionVars, lockVars, taskVars,
     Typed, TypeOK, Rests
<1>8. QED
  BY <1>1, <1>2, <1>3, <1>4, <1>5, <1>6, <1>7 DEF Step

\* A session at rest keeps its invariant.
LEMMA OthersSound ==
    ASSUME NEW t \in Session, Rests(t), Sound(t)
    PROVE  Sound(t)'
BY DEF Rests, Sound, Placed, MutexHeld, Prepared, StartsOnce, Inactive, Fresh, OneActivation, Counts, InOrder,
   Deaf, Told
-----------------------------------------------------------------------------
\* Processes keep to their places.
LEMMA Walks ==
    ASSUME Typed, NEW s \in Session, Placed(s), Step(s)
    PROVE  pc' \in [Session -> [Process -> Pc]] /\ Placed(s)'
<1> DEFINE Q == pc' \in [Session -> [Process -> Pc]] /\ Placed(s)'
<1> USE Going DEF At, Process, Pc, Placed, Play, Talk
<1>1. CASE EntryStep(s)
  BY <1>1 DEF EntryStep, AgentStart, AgentStartFails, AgentLock, AgentEnter, AgentList, Home, Started,
     AfterTell, Player, Speaker, sessionVars, lockVars, taskVars
<1>2. CASE LoopStep(s)
  BY <1>2 DEF LoopStep, AgentAwait, AgentSettle, AgentDecide, AgentDecideFails, AgentRecv, AgentClosed,
     AgentDispose, AgentRemove, Home, Started, AfterTell, Player, Speaker, sessionVars, lockVars, taskVars
<1>3. CASE EndStep(s)
  BY <1>3 DEF EndStep, LeaveLock, LeaveApply, LeaveClose, SweepExpire, SweepRoom, SweepInbox, Home, Started,
     AfterTell, Player, Speaker, sessionVars, lockVars, taskVars
<1>4. CASE LinkStep(s)
  <2>1. pc' = pc
    BY <1>4 DEF LinkStep, Disconnect, Reconnect, ReconnectTimeout
  <2>2. QED
    BY <2>1 DEF Typed, TypeOK
<1>5. CASE AskStep(s)
  BY <1>5 DEF AskStep, GameReady, GameAct, HumanSay, Home, Started, AfterTell, Player, Speaker, sessionVars,
     lockVars, taskVars
<1>6. ASSUME NEW w \in Player, StartStep(s, w)
      PROVE  Q
  BY <1>6 DEF StartStep, StartLock, StartApply, StartRefused, StartGuard, StartSend, Home, Started, AfterTell,
     Player, Speaker, sessionVars, lockVars, taskVars
<1>7. ASSUME NEW w \in Player, SubmitStep(s, w)
      PROVE  Q
  BY <1>7 DEF SubmitStep, SubmitLock, SubmitRefused, SubmitInvalid, SubmitApply, TellGuard, TellNobody,
     TellSend, Home, Started, AfterTell, Player, Speaker, sessionVars, lockVars, taskVars
<1>8. ASSUME NEW w \in Speaker, SpeakStep(s, w)
      PROVE  Q
  BY <1>8 DEF SpeakStep, SayCommit, NoteGuard, NoteNobody, NoteSend, Home, Started, AfterTell, Player,
     Speaker, sessionVars, lockVars, taskVars
<1>9. QED
  BY <1>1, <1>2, <1>3, <1>4, <1>5, <1>6, <1>7, <1>8 DEF Step

\* Who is at a place that needs the transition lock holds it.
LEMMA MutexStep ==
    ASSUME Typed, NEW s \in Session, Placed(s), MutexHeld(s), Step(s)
    PROVE  MutexHeld(s)'
<1> USE Going, Locking, NamesAssumption DEF At, Process, Placed, Play, Talk, MutexHeld, Holding, Starting, Acting
<1>1. CASE EntryStep(s)
  BY <1>1 DEF EntryStep, AgentStart, AgentStartFails, AgentLock, AgentEnter, AgentList, Home, Started,
     AfterTell, Player, Speaker, sessionVars, lockVars, taskVars
<1>2. CASE LoopStep(s)
  BY <1>2 DEF LoopStep, AgentAwait, AgentSettle, AgentDecide, AgentDecideFails, AgentRecv, AgentClosed,
     AgentDispose, AgentRemove, Home, Started, AfterTell, Player, Speaker, sessionVars, lockVars, taskVars
<1>3. CASE EndStep(s)
  BY <1>3 DEF EndStep, LeaveLock, LeaveApply, LeaveClose, SweepExpire, SweepRoom, SweepInbox, Home, Started,
     AfterTell, Player, Speaker, sessionVars, lockVars, taskVars
<1>4. CASE LinkStep(s)
  BY <1>4 DEF LinkStep, Disconnect, Reconnect, ReconnectTimeout, Home, Started, AfterTell, Player, Speaker,
     sessionVars, lockVars, taskVars
<1>5. CASE AskStep(s)
  BY <1>5 DEF AskStep, GameReady, GameAct, HumanSay, Home, Started, AfterTell, Player, Speaker, sessionVars,
     lockVars, taskVars
<1>6. ASSUME NEW w \in Player, StartStep(s, w)
      PROVE  MutexHeld(s)'
  BY <1>6 DEF StartStep, StartLock, StartApply, StartRefused, StartGuard, StartSend, Home, Started, AfterTell,
     Player, Speaker, sessionVars, lockVars, taskVars
<1>7. ASSUME NEW w \in Player, SubmitStep(s, w)
      PROVE  MutexHeld(s)'
  BY <1>7 DEF SubmitStep, SubmitLock, SubmitRefused, SubmitInvalid, SubmitApply, TellGuard, TellNobody,
     TellSend, Home, Started, AfterTell, Player, Speaker, sessionVars, lockVars, taskVars
<1>8. ASSUME NEW w \in Speaker, SpeakStep(s, w)
      PROVE  MutexHeld(s)'
  BY <1>8 DEF SpeakStep, SayCommit, NoteGuard, NoteNobody, NoteSend, Home, Started, AfterTell, Player,
     Speaker, sessionVars, lockVars, taskVars
<1>9. QED
  BY <1>1, <1>2, <1>3, <1>4, <1>5, <1>6, <1>7, <1>8 DEF Step
-----------------------------------------------------------------------------
(* What the steps of a session do to its values.                           *)

\* Something is sent, or nobody hears it.
LEMMA Sending ==
    ASSUME Typed, NEW s \in Session, NEW item \in Item, Send(s, item)
    PROVE  \/ /\ listed[s] /\ ~Deaf(s) /\ Len(inbox[s]) < InboxSize
              /\ inbox' \in [Session -> Seq(Item)] /\ inbox'[s] = Append(inbox[s], item)
           \/ (~listed[s] \/ Deaf(s)) /\ inbox' = inbox
<1>1. inbox \in [Session -> Seq(Item)]
  BY DEF Typed
<1>2. Append(inbox[s], item) \in Seq(Item)
  BY <1>1
<1>3. QED
  BY <1>1, <1>2 DEF Send

\* The items are told apart by kind and number.
LEMMA Items ==
    /\ Activated \in Item /\ Message \in Item /\ Activated # Message
    /\ Activated.kind = "activated" /\ Message.kind = "message"
    /\ \A n : Action(n).kind = "action" /\ Action(n).n = n /\ Action(n) # Activated /\ Action(n) # Message
    /\ \A n \in 1..ActionLimit : Action(n) \in Item
    /\ \A x \in Item : /\ x = Activated \/ x = Message \/ x.kind = "action"
                       /\ x.kind = "action" => x.n \in 1..ActionLimit /\ x = Action(x.n)
<1>1. \A n : Action(n).kind = "action" /\ Action(n).n = n /\ Action(n) # Activated /\ Action(n) # Message
  BY DEF Activated, Message, Action
<1>2. Activated # Message /\ Activated.kind = "activated" /\ Message.kind = "message"
  BY DEF Activated, Message
<1>3. \A x \in Item : x = Activated \/ x = Message \/ \E n \in 1..ActionLimit : x = Action(n)
  BY DEF Item
<1>4. QED
  BY <1>1, <1>2, <1>3 DEF Item

\* The inbox without its first item.
LEMMA Taking ==
    ASSUME Typed, NEW s \in Session, inbox[s] # << >>
    PROVE  /\ Tail(inbox[s]) \in Seq(Item) /\ Head(inbox[s]) = inbox[s][1] /\ Head(inbox[s]) \in Item
           /\ Len(Tail(inbox[s])) = Len(inbox[s]) - 1
           /\ \A i \in 1..(Len(inbox[s]) - 1) : Tail(inbox[s])[i] = inbox[s][i + 1]
           /\ [inbox EXCEPT ![s] = Tail(@)] \in [Session -> Seq(Item)]
           /\ [inbox EXCEPT ![s] = Tail(@)][s] = Tail(inbox[s])
<1>1. inbox \in [Session -> Seq(Item)] /\ inbox[s] \in Seq(Item)
  BY DEF Typed
<1>2. Tail(inbox[s]) \in Seq(Item) /\ Head(inbox[s]) = inbox[s][1] /\ Head(inbox[s]) \in Item
  BY <1>1
<1>3. QED
  BY <1>1, <1>2

\* The values of one session.
LEMMA Values ==
    ASSUME Typed, NEW s \in Session
    PROVE  /\ life[s] \in {"forming", "running"} \cup Ended /\ accepted[s] \in 0..ActionLimit
           /\ seen[s] \in 0..ActionLimit /\ errors[s] \in 0..InvalidLimit
           /\ listed[s] \in BOOLEAN /\ ready[s] \in BOOLEAN
           /\ inbox[s] \in Seq(Item) /\ Len(inbox[s]) <= InboxSize
           /\ messages[s] \in 0..MaxMessages /\ pauses[s] \in 0..MaxPauses
BY DEF Typed, TypeOK

\* Nothing is received before the agent is listed, or after it is disposed of;
\* what is received was first.
InboxMoves(s) ==
    \/ inbox' = inbox
    \/ \E item \in Item :
          /\ listed[s] /\ ~Deaf(s) /\ Len(inbox[s]) < InboxSize
          /\ inbox' \in [Session -> Seq(Item)] /\ inbox'[s] = Append(inbox[s], item)
    \/ /\ inbox[s] # << >>
       /\ inbox' \in [Session -> Seq(Item)] /\ inbox'[s] = Tail(inbox[s])
    \/ inbox' \in [Session -> Seq(Item)] /\ inbox'[s] = << >>

\* Every step treats the inbox in one of these ways.
LEMMA InboxStep ==
    ASSUME Typed, NEW s \in Session, Placed(s), Counts(s), Step(s)
    PROVE  InboxMoves(s)
<1> USE Sending, Items, Values DEF InboxMoves
<1>1. CASE EntryStep(s)
  BY <1>1 DEF EntryStep, AgentStart, AgentStartFails, AgentLock, AgentEnter, AgentList, Player, Speaker,
     sessionVars, lockVars, taskVars
<1>2. CASE LoopStep(s)
  <2>1. CASE AgentAwait(s) \/ AgentRecv(s)
    BY <1>2, <2>1, Taking DEF AgentAwait, AgentRecv
  <2>2. CASE AgentDispose(s)
    BY <2>2 DEF AgentDispose, Typed
  <2>3. QED
    BY <1>2, <2>1, <2>2 DEF LoopStep, AgentSettle, AgentDecide, AgentDecideFails, AgentClosed, AgentRemove,
       sessionVars, lockVars, taskVars
<1>3. CASE EndStep(s)
  BY <1>3 DEF EndStep, LeaveLock, LeaveApply, LeaveClose, SweepExpire, SweepRoom, SweepInbox, Player, Speaker,
     sessionVars, lockVars, taskVars
<1>4. CASE LinkStep(s)
  BY <1>4 DEF LinkStep, Disconnect, Reconnect, ReconnectTimeout, Player, Speaker, sessionVars, lockVars,
     taskVars
<1>5. CASE AskStep(s)
  BY <1>5 DEF AskStep, GameReady, GameAct, HumanSay, Player, Speaker, sessionVars, lockVars, taskVars
<1>6. ASSUME NEW w \in Player, StartStep(s, w)
      PROVE  InboxMoves(s)
  BY <1>6 DEF StartStep, StartLock, StartApply, StartRefused, StartGuard, StartSend, Player, Speaker,
     sessionVars, lockVars, taskVars
<1>7. ASSUME NEW w \in Player, SubmitStep(s, w)
      PROVE  InboxMoves(s)
  <2>1. CASE TellSend(s, w)
    <3>1. Action(accepted[s]) \in Item
      BY <2>1 DEF TellSend, Counts, At, Player, Process
    <3>2. QED
      BY <2>1, <3>1 DEF TellSend
  <2>2. QED
    BY <1>7, <2>1 DEF SubmitStep, SubmitLock, SubmitRefused, SubmitInvalid, SubmitApply, TellGuard, TellNobody,
       sessionVars, lockVars, taskVars
<1>8. ASSUME NEW w \in Speaker, SpeakStep(s, w)
      PROVE  InboxMoves(s)
  BY <1>8 DEF SpeakStep, SayCommit, NoteGuard, NoteNobody, NoteSend, Player, Speaker, sessionVars, lockVars,
     taskVars
<1>9. QED
  BY <1>1, <1>2, <1>3, <1>4, <1>5, <1>6, <1>7, <1>8 DEF Step

\* An inbox stays within its capacity.
LEMMA InboxTyped ==
    ASSUME Typed, NEW s \in Session, Placed(s), Counts(s), Step(s)
    PROVE  /\ inbox' \in [Session -> Seq(Item)]
           /\ \A t \in Session : Len(inbox'[t]) <= InboxSize
<1> USE BoundsAssumption, Values
<1>1. Len(inbox'[s]) <= InboxSize /\ inbox' \in [Session -> Seq(Item)]
  <2>1. CASE inbox' = inbox
    BY <2>1 DEF Typed
  <2>2. CASE inbox[s] # << >> /\ inbox' \in [Session -> Seq(Item)] /\ inbox'[s] = Tail(inbox[s])
    BY <2>2, Taking
  <2>3. QED
    BY <2>1, <2>2, InboxStep DEF InboxMoves
<1>2. QED
  BY <1>1, OthersRest DEF Rests

\* The lifecycle: forming once, and gone for good.
LifeMoves(s) ==
    \/ life' = life
    \/ \E l \in {"running", life[s]} \cup Ended :
          life' = [life EXCEPT ![s] = l] /\ (life[s] = "gone" => l = "gone")

\* Every step treats the lifecycle so.
LEMMA LifeStep ==
    ASSUME Typed, NEW s \in Session, Step(s)
    PROVE  LifeMoves(s)
<1> USE Values DEF LifeMoves, Ended
<1>1. CASE EntryStep(s)
  BY <1>1 DEF EntryStep, AgentStart, AgentStartFails, AgentLock, AgentEnter, AgentList, Player, Speaker,
     sessionVars, lockVars, taskVars
<1>2. CASE LoopStep(s)
  BY <1>2 DEF LoopStep, AgentAwait, AgentSettle, AgentDecide, AgentDecideFails, AgentRecv, AgentClosed,
     AgentDispose, AgentRemove, Player, Speaker, sessionVars, lockVars, taskVars
<1>3. CASE EndStep(s)
  BY <1>3 DEF EndStep, LeaveLock, LeaveApply, LeaveClose, SweepExpire, SweepRoom, SweepInbox, Player, Speaker,
     sessionVars, lockVars, taskVars
<1>4. CASE LinkStep(s)
  BY <1>4 DEF LinkStep, Disconnect, Reconnect, ReconnectTimeout, Player, Speaker, sessionVars, lockVars,
     taskVars
<1>5. CASE AskStep(s)
  BY <1>5 DEF AskStep, GameReady, GameAct, HumanSay, Player, Speaker, sessionVars, lockVars, taskVars
<1>6. ASSUME NEW w \in Player, StartStep(s, w)
      PROVE  LifeMoves(s)
  BY <1>6 DEF StartStep, StartLock, StartApply, StartRefused, StartGuard, StartSend, Player, Speaker,
     sessionVars, lockVars, taskVars
<1>7. ASSUME NEW w \in Player, SubmitStep(s, w)
      PROVE  LifeMoves(s)
  BY <1>7 DEF SubmitStep, SubmitLock, SubmitRefused, SubmitInvalid, SubmitApply, TellGuard, TellNobody,
     TellSend, Player, Speaker, sessionVars, lockVars, taskVars
<1>8. ASSUME NEW w \in Speaker, SpeakStep(s, w)
      PROVE  LifeMoves(s)
  BY <1>8 DEF SpeakStep, SayCommit, NoteGuard, NoteNobody, NoteSend, Player, Speaker, sessionVars, lockVars,
     taskVars
<1>9. QED
  BY <1>1, <1>2, <1>3, <1>4, <1>5, <1>6, <1>7, <1>8 DEF Step

\* The counts of a session, and what its connection may do.
NumberMoves(s) ==
    /\ \/ accepted' = accepted
       \/ /\ accepted' = [accepted EXCEPT ![s] = @ + 1]
          /\ \E w \in Player : pc[s][w] = "apply"
    /\ \/ seen' = seen
       \/ seen' = [seen EXCEPT ![s] = @]
       \/ /\ inbox[s] # << >> /\ Head(inbox[s]).kind = "action"
          /\ seen' = [seen EXCEPT ![s] = Head(inbox[s]).n]
    /\ \/ errors' = errors
       \/ errors' = [errors EXCEPT ![s] = @]
       \/ ~Deaf(s) /\ errors' = [errors EXCEPT ![s] = @ + 1]
    /\ messages' = messages \/ (messages[s] > 0 /\ messages' = [messages EXCEPT ![s] = @ - 1])
    /\ pauses' = pauses \/ (pauses[s] > 0 /\ pauses' = [pauses EXCEPT ![s] = @ - 1])
    /\ paused' = paused \/ \E b \in BOOLEAN : paused' = [paused EXCEPT ![s] = b]
    /\ \/ listed' = listed
       \/ listed' = [listed EXCEPT ![s] = FALSE]
       \/ pc[s]["agent"] = "list" /\ listed' = [listed EXCEPT ![s] = TRUE]
    /\ ready' = ready \/ ready' = [ready EXCEPT ![s] = TRUE]

\* Every step treats the counts so.
LEMMA NumberStep ==
    ASSUME Typed, NEW s \in Session, Placed(s), Step(s)
    PROVE  NumberMoves(s)
<1> USE DEF At, NumberMoves, Deaf
<1>1. CASE EntryStep(s)
  BY <1>1 DEF EntryStep, AgentStart, AgentStartFails, AgentLock, AgentEnter, AgentList, Player, Speaker,
     sessionVars, lockVars, taskVars
<1>2. CASE LoopStep(s)
  BY <1>2 DEF LoopStep, AgentAwait, AgentSettle, AgentDecide, AgentDecideFails, AgentRecv, AgentClosed,
     AgentDispose, AgentRemove, Player, Speaker, sessionVars, lockVars, taskVars
<1>3. CASE EndStep(s)
  BY <1>3 DEF EndStep, LeaveLock, LeaveApply, LeaveClose, SweepExpire, SweepRoom, SweepInbox, Player, Speaker,
     sessionVars, lockVars, taskVars
<1>4. CASE LinkStep(s)
  BY <1>4 DEF LinkStep, Disconnect, Reconnect, ReconnectTimeout, Player, Speaker, sessionVars, lockVars,
     taskVars
<1>5. CASE AskStep(s)
  BY <1>5 DEF AskStep, GameReady, GameAct, HumanSay, Player, Speaker, sessionVars, lockVars, taskVars
<1>6. ASSUME NEW w \in Player, StartStep(s, w)
      PROVE  NumberMoves(s)
  BY <1>6 DEF StartStep, StartLock, StartApply, StartRefused, StartGuard, StartSend, Player, Speaker,
     sessionVars, lockVars, taskVars
<1>7. ASSUME NEW w \in Player, SubmitStep(s, w)
      PROVE  NumberMoves(s)
  BY <1>7 DEF SubmitStep, SubmitLock, SubmitRefused, SubmitInvalid, SubmitApply, TellGuard, TellNobody,
     TellSend, Player, Speaker, sessionVars, lockVars, taskVars
<1>8. ASSUME NEW w \in Speaker, SpeakStep(s, w)
      PROVE  NumberMoves(s)
  BY <1>8 DEF SpeakStep, SayCommit, NoteGuard, NoteNobody, NoteSend, Player, Speaker, sessionVars, lockVars,
     taskVars
<1>9. QED
  BY <1>1, <1>2, <1>3, <1>4, <1>5, <1>6, <1>7, <1>8 DEF Step

\* Which keeps them within their bounds.
LEMMA NumbersTyped ==
    ASSUME Typed, NEW s \in Session, Counts(s), NumberMoves(s)
    PROVE  /\ accepted' \in [Session -> 0..ActionLimit] /\ seen' \in [Session -> 0..ActionLimit]
           /\ errors' \in [Session -> 0..InvalidLimit]
           /\ messages' \in [Session -> 0..MaxMessages] /\ pauses' \in [Session -> 0..MaxPauses]
           /\ paused' \in [Session -> BOOLEAN] /\ listed' \in [Session -> BOOLEAN] /\ ready' \in [Session -> BOOLEAN]
<1>1. /\ accepted \in [Session -> 0..ActionLimit] /\ seen \in [Session -> 0..ActionLimit]
      /\ errors \in [Session -> 0..InvalidLimit]
      /\ messages \in [Session -> 0..MaxMessages] /\ pauses \in [Session -> 0..MaxPauses]
      /\ paused \in [Session -> BOOLEAN] /\ listed \in [Session -> BOOLEAN] /\ ready \in [Session -> BOOLEAN]
  BY DEF Typed, TypeOK
<1> USE <1>1, BoundsAssumption
<1>2. accepted' \in [Session -> 0..ActionLimit]
  <2>1. CASE accepted' = accepted
    BY <2>1
  <2>2. CASE accepted' = [accepted EXCEPT ![s] = @ + 1] /\ accepted[s] < ActionLimit
    BY <2>2
  <2>3. QED
    BY <2>1, <2>2 DEF NumberMoves, Counts, Player, Process
<1>3. seen' \in [Session -> 0..ActionLimit]
  <2>1. inbox[s] # << >> /\ Head(inbox[s]).kind = "action" => Head(inbox[s]).n \in 1..ActionLimit
    BY Items, Taking
  <2>2. QED
    BY <2>1 DEF NumberMoves
<1>4. errors' \in [Session -> 0..InvalidLimit]
  <2>1. CASE ~Deaf(s) /\ errors' = [errors EXCEPT ![s] = @ + 1]
    BY <2>1 DEF Counts
  <2>2. QED
    BY <2>1 DEF NumberMoves
<1>5. messages' \in [Session -> 0..MaxMessages] /\ pauses' \in [Session -> 0..MaxPauses]
  <2>1. messages' = messages \/ (messages[s] > 0 /\ messages' = [messages EXCEPT ![s] = @ - 1])
    BY DEF NumberMoves
  <2>2. messages' \in [Session -> 0..MaxMessages]
    BY <2>1
  <2>3. pauses' = pauses \/ (pauses[s] > 0 /\ pauses' = [pauses EXCEPT ![s] = @ - 1])
    BY DEF NumberMoves
  <2>4. pauses' \in [Session -> 0..MaxPauses]
    BY <2>3
  <2>5. QED
    BY <2>2, <2>4
<1>6. paused' \in [Session -> BOOLEAN] /\ listed' \in [Session -> BOOLEAN] /\ ready' \in [Session -> BOOLEAN]
  BY DEF NumberMoves
<1>7. QED
  BY <1>2, <1>3, <1>4, <1>5, <1>6

\* The operations on the locks.
LEMMA LockOperations ==
    ASSUME Typed, NEW s \in Session, NEW w \in Process
    PROVE  /\ Acquire(s, w) /\ w \in {"agent", "game", "leave"} =>
                  mutex' \in [Session -> {Nobody, "agent", "game", "leave"}]
           /\ Unlock(s) => mutex' \in [Session -> {Nobody, "agent", "game", "leave"}]
           /\ ReadGuard(s, w) \/ ReadDrop(s, w) => readers' \subseteq Session \X Process
           /\ WriteQueue(s, w) \/ WriteGuard(s, w) => writers' \subseteq Session \X Process
<1>1. /\ Acquire(s, w) /\ w \in {"agent", "game", "leave"} =>
             mutex' \in [Session -> {Nobody, "agent", "game", "leave"}]
      /\ Unlock(s) => mutex' \in [Session -> {Nobody, "agent", "game", "leave"}]
  BY DEF Typed, TypeOK, Acquire, Unlock
<1>2. <<s, w>> \in Session \X Process
  OBVIOUS
<1>3. QED
  BY <1>1, <1>2 DEF Typed, TypeOK, ReadGuard, ReadDrop, WriteQueue, WriteGuard

\* The types of the locks.
LocksFit ==
    /\ mutex \in [Session -> {Nobody, "agent", "game", "leave"}]
    /\ readers \subseteq Session \X Process /\ writers \subseteq Session \X Process
    /\ memory \in Session \cup {Nobody}

\* Every step keeps the types of the locks.
LEMMA LocksTyped ==
    ASSUME Typed, NEW s \in Session, Step(s)
    PROVE  LocksFit'
<1>0. LocksFit
  BY DEF LocksFit, Typed, TypeOK
<1> USE <1>0, LockOperations DEF LocksFit, Process
<1>1. CASE EntryStep(s)
  BY <1>1 DEF EntryStep, AgentStart, AgentStartFails, AgentLock, AgentEnter, AgentList, Player, Speaker,
     sessionVars, lockVars, taskVars
<1>2. CASE LoopStep(s)
  BY <1>2 DEF LoopStep, AgentAwait, AgentSettle, AgentDecide, AgentDecideFails, AgentRecv, AgentClosed,
     AgentDispose, AgentRemove, Player, Speaker, sessionVars, lockVars, taskVars
<1>3. CASE EndStep(s)
  BY <1>3 DEF EndStep, LeaveLock, LeaveApply, LeaveClose, SweepExpire, SweepRoom, SweepInbox, Player, Speaker,
     sessionVars, lockVars, taskVars
<1>4. CASE LinkStep(s)
  BY <1>4 DEF LinkStep, Disconnect, Reconnect, ReconnectTimeout, Player, Speaker, sessionVars, lockVars,
     taskVars
<1>5. CASE AskStep(s)
  BY <1>5 DEF AskStep, GameReady, GameAct, HumanSay, Player, Speaker, sessionVars, lockVars, taskVars
<1>6. ASSUME NEW w \in Player, StartStep(s, w)
      PROVE  LocksFit'
  BY <1>6 DEF StartStep, StartLock, StartApply, StartRefused, StartGuard, StartSend, Player, Speaker,
     sessionVars, lockVars, taskVars
<1>7. ASSUME NEW w \in Player, SubmitStep(s, w)
      PROVE  LocksFit'
  BY <1>7 DEF SubmitStep, SubmitLock, SubmitRefused, SubmitInvalid, SubmitApply, TellGuard, TellNobody,
     TellSend, Player, Speaker, sessionVars, lockVars, taskVars
<1>8. ASSUME NEW w \in Speaker, SpeakStep(s, w)
      PROVE  LocksFit'
  BY <1>8 DEF SpeakStep, SayCommit, NoteGuard, NoteNobody, NoteSend, Player, Speaker, sessionVars, lockVars,
     taskVars
<1>9. QED
  BY <1>1, <1>2, <1>3, <1>4, <1>5, <1>6, <1>7, <1>8 DEF Step
\* Every step keeps the types.
LEMMA TypedStep ==
    ASSUME Typed, NEW s \in Session, Placed(s), Counts(s), Step(s)
    PROVE  Typed'
<1>1. life' \in [Session -> {"forming", "running"} \cup Ended]
  BY LifeStep DEF LifeMoves, Typed, TypeOK
<1>2. inbox' \in [Session -> Seq(Item)] /\ \A t \in Session : Len(inbox'[t]) <= InboxSize
  BY InboxTyped
<1>3. \A t \in Session : \A i \in DOMAIN inbox'[t] : inbox'[t][i] \in Item
  BY <1>2
<1>4. pc' \in [Session -> [Process -> Pc]]
  BY Walks
<1>5. QED
  BY <1>1, <1>2, <1>3, <1>4, NumberStep, NumbersTyped, LocksTyped DEF Typed, TypeOK, LocksFit, Item
-----------------------------------------------------------------------------
(* The rules the steps of a session obey.                                  *)

\* What a step may write, of the session it is about.
LEMMA Writing ==
    ASSUME Typed, NEW s \in Session
    PROVE  /\ \A l : life' = [life EXCEPT ![s] = l] => life'[s] = l
           /\ \A n : accepted' = [accepted EXCEPT ![s] = n] => accepted'[s] = n
           /\ \A n : seen' = [seen EXCEPT ![s] = n] => seen'[s] = n
           /\ \A n : errors' = [errors EXCEPT ![s] = n] => errors'[s] = n
           /\ \A b : listed' = [listed EXCEPT ![s] = b] => listed'[s] = b
           /\ \A b : ready' = [ready EXCEPT ![s] = b] => ready'[s] = b
           /\ \A q : inbox' = [inbox EXCEPT ![s] = q] => inbox'[s] = q
BY DEF Typed, TypeOK

\* How a process gets to a place, and what it found on its way.
Asleep == {"new", "lock", "enter", "list"}
PlaceRules(s, w) ==
    LET from == pc[s][w]  to == pc'[s][w] IN
    from # to =>
        /\ to = "commit" => from = "start" /\ life[s] = "forming" /\ ready[s] /\ mutex[s] = Nobody
        /\ to = "wake" => from = "commit" /\ life'[s] # "forming"
        /\ to = "waking" => from = "wake"
        /\ to = "apply" => from = "submit" /\ life[s] = "running" /\ mutex[s] = Nobody
        /\ to = "tell" => from = "apply" /\ accepted'[s] = accepted[s] + 1
        /\ to = "telling" => from = "tell"
        /\ to = "note" => from = "say" /\ life[s] = "running"
        /\ to = "noting" => from = "note"
        /\ w = "agent" =>
              /\ to \in Asleep => from \in Asleep
              /\ from = "list" => mutex[s] = "agent"
              /\ to \in Active =>
                    \/ from \in Active
                    \/ /\ inbox[s] # << >> /\ Head(inbox[s]) = Activated
                       /\ inbox'[s] = Tail(inbox[s])
              /\ from \in {"dispose", "remove", "gone"} => to \in {"dispose", "remove", "gone"}

\* Every step keeps the rules for places.
LEMMA PlaceStep ==
    ASSUME Typed, NEW s \in Session, Placed(s), MutexHeld(s), Step(s)
    PROVE  \A w \in Process : PlaceRules(s, w)
<1> DEFINE Q == \A w \in Process : PlaceRules(s, w)
<1> USE Going, Writing DEF At, Process, Placed, Play, Talk, Asleep, Active, PlaceRules
<1>1. CASE EntryStep(s)
  <2>1. CASE AgentEnter(s)
    BY <2>1 DEF AgentEnter, Home, Started, AfterTell, Player, Speaker, sessionVars, lockVars, taskVars,
       Acquire, Playable
  <2>2. CASE AgentList(s)
    BY <2>2 DEF AgentList, MutexHeld, Holding, Home, Started, AfterTell, Player, Speaker, sessionVars,
       lockVars, taskVars, Acquire, Playable
  <2>3. QED
    BY <1>1, <2>1, <2>2 DEF EntryStep, AgentStart, AgentStartFails, AgentLock, Home, Started, AfterTell,
       Player, Speaker, sessionVars, lockVars, taskVars, Acquire, Playable
<1>2. CASE LoopStep(s)
  <2>1. CASE AgentAwait(s)
    <3>1. CASE inbox[s] = << >>
      BY <2>1, <3>1 DEF AgentAwait
    <3>2. CASE inbox[s] # << >> /\ Head(inbox[s]) # Activated
      BY <2>1, <3>2 DEF AgentAwait
    <3>3. CASE inbox[s] # << >> /\ Head(inbox[s]) = Activated
      <4>1. inbox' = [inbox EXCEPT ![s] = Tail(@)] /\ Goto(s, "agent", "settle")
        BY <2>1, <3>3 DEF AgentAwait
      <4>2. inbox'[s] = Tail(inbox[s])
        BY <4>1, <3>3, Taking
      <4>3. QED
        BY <2>1, <3>3, <4>1, <4>2 DEF AgentAwait
    <3>4. QED
      BY <3>1, <3>2, <3>3
  <2>2. CASE AgentRecv(s)
    BY <2>2 DEF AgentRecv, Home, Started, AfterTell, Player, Speaker, sessionVars, lockVars, taskVars,
       Acquire, Playable
  <2>3. QED
    BY <1>2, <2>1, <2>2 DEF LoopStep, AgentSettle, AgentDecide, AgentDecideFails, AgentClosed, AgentDispose,
       AgentRemove, Home, Started, AfterTell, Player, Speaker, sessionVars, lockVars, taskVars, Acquire,
       Playable
<1>3. CASE EndStep(s)
  BY <1>3 DEF EndStep, LeaveLock, LeaveApply, LeaveClose, SweepExpire, SweepRoom, SweepInbox, Home, Started,
     AfterTell, Player, Speaker, sessionVars, lockVars, taskVars, Acquire, Playable
<1>4. CASE LinkStep(s)
  BY <1>4 DEF LinkStep, Disconnect, Reconnect, ReconnectTimeout, Home, Started, AfterTell, Player, Speaker,
     sessionVars, lockVars, taskVars, Acquire, Playable
<1>5. CASE AskStep(s)
  BY <1>5 DEF AskStep, GameReady, GameAct, HumanSay, Home, Started, AfterTell, Player, Speaker, sessionVars,
     lockVars, taskVars, Acquire, Playable
<1>6. ASSUME NEW w \in Player, StartStep(s, w)
      PROVE  Q
  BY <1>6 DEF StartStep, StartLock, StartApply, StartRefused, StartGuard, StartSend, Home, Started, AfterTell,
     Player, Speaker, sessionVars, lockVars, taskVars, Acquire, Playable
<1>7. ASSUME NEW w \in Player, SubmitStep(s, w)
      PROVE  Q
  <2>1. CASE SubmitApply(s, w)
    <3>1. CASE life[s] = "gone"
      BY <2>1, <3>1 DEF SubmitApply, Player
    <3>2. CASE life[s] # "gone"
      <4>1. Goto(s, w, "tell")
        BY <2>1, <3>2, Zenon DEF SubmitApply
      <4>2. accepted' = [accepted EXCEPT ![s] = accepted[s] + 1]
        BY <2>1, <3>2, Zenon DEF SubmitApply
      <4>3. accepted'[s] = accepted[s] + 1
        BY <4>2, Zenon
      <4>4. QED
        BY <2>1, <4>1, <4>3, SMTT(30) DEF SubmitApply, Player
    <3>3. QED
      BY <3>1, <3>2
  <2>2. CASE TellSend(s, w)
    BY <2>2 DEF TellSend, Home, Started, AfterTell, Player, Speaker, sessionVars, lockVars, taskVars, Acquire,
       Playable
  <2>3. CASE SubmitInvalid(s, w)
    BY <2>3 DEF SubmitInvalid, Home, Started, AfterTell, Player, Speaker, sessionVars, lockVars, taskVars,
       Acquire, Playable
  <2>4. QED
    BY <1>7, <2>1, <2>2, <2>3 DEF SubmitStep, SubmitLock, SubmitRefused, TellGuard, TellNobody, Home, Started,
       AfterTell, Player, Speaker, sessionVars, lockVars, taskVars, Acquire, Playable
<1>8. ASSUME NEW w \in Speaker, SpeakStep(s, w)
      PROVE  Q
  BY <1>8 DEF SpeakStep, SayCommit, NoteGuard, NoteNobody, NoteSend, Home, Started, AfterTell, Player,
     Speaker, sessionVars, lockVars, taskVars, Acquire, Playable
<1>9. QED
  BY <1>1, <1>2, <1>3, <1>4, <1>5, <1>6, <1>7, <1>8 DEF Step

\* What becomes of the values of a session.
ValueRules(s) ==
    /\ life'[s] # life[s] =>
          \/ life'[s] \in Ended
          \/ life'[s] = "running" /\ \E w \in Player : pc[s][w] = "commit"
    /\ life[s] = "gone" => life'[s] = "gone"
    /\ accepted'[s] # accepted[s] =>
          /\ accepted'[s] = accepted[s] + 1
          /\ \E w \in Player : pc[s][w] = "apply" /\ pc'[s][w] = "tell"
          /\ accepted'[s] = ActionLimit => life'[s] = "completed"
    /\ ready[s] => ready'[s]
    /\ ready'[s] # ready[s] => pc[s]["agent"] = "list" /\ pc'[s]["agent"] = "start"
    /\ listed'[s] /\ ~listed[s] => ready'[s] /\ pc[s]["agent"] = "list"
    /\ ~Deaf(s)' => errors'[s] = errors[s] \/ errors'[s] < InvalidLimit

\* Every step keeps the rules for values.
LEMMA ValueStep ==
    ASSUME Typed, NEW s \in Session, Placed(s), Step(s)
    PROVE  ValueRules(s)
<1> USE Going, Writing DEF At, Process, ValueRules, Deaf, Ended
<1>1. CASE EntryStep(s)
  <2>1. CASE AgentStartFails(s)
    BY <2>1 DEF AgentStartFails, Home, Started, AfterTell, Player, Speaker, sessionVars, lockVars, taskVars
  <2>2. CASE AgentEnter(s)
    BY <2>2 DEF AgentEnter, Home, Started, AfterTell, Player, Speaker, sessionVars, lockVars, taskVars
  <2>3. CASE AgentList(s)
    <3>1. ready'[s] = TRUE /\ pc[s]["agent"] = "list" /\ pc'[s]["agent"] = "start"
      BY <2>3 DEF AgentList, Typed, TypeOK
    <3>2. life' = life /\ accepted' = accepted /\ errors' = errors
      BY <2>3 DEF AgentList, sessionVars
    <3>3. QED
      BY <3>1, <3>2
  <2>4. QED
    BY <1>1, <2>1, <2>2, <2>3 DEF EntryStep, AgentStart, AgentLock, Home, Started, AfterTell, Player, Speaker,
       sessionVars, lockVars, taskVars
<1>2. CASE LoopStep(s)
  <2>1. CASE AgentRecv(s)
    <3>1. UNCHANGED <<life, accepted, listed, ready>>
      BY <2>1 DEF AgentRecv
    <3>2. ~Deaf(s)' => ~(errors'[s] >= InvalidLimit)
      BY <2>1 DEF AgentRecv
    <3>3. errors'[s] \in Nat /\ InvalidLimit \in Nat
      <4>1. PICK n \in {errors[s], errors[s] + 1} : errors' = [errors EXCEPT ![s] = n]
        BY <2>1 DEF AgentRecv
      <4>2. errors'[s] = n
        BY <4>1
      <4>3. errors[s] \in Nat /\ InvalidLimit \in Nat
        BY Values, BoundsAssumption
      <4>4. QED
        BY <4>2, <4>3
    <3>4. QED
      BY <3>1, <3>2, <3>3, BoundsAssumption
  <2>2. QED
    BY <1>2, <2>1 DEF LoopStep, AgentAwait, AgentSettle, AgentDecide, AgentDecideFails, AgentClosed,
       AgentDispose, AgentRemove, Home, Started, AfterTell, Player, Speaker, sessionVars, lockVars, taskVars
<1>3. CASE EndStep(s)
  BY <1>3 DEF EndStep, LeaveLock, LeaveApply, LeaveClose, SweepExpire, SweepRoom, SweepInbox, Home, Started,
     AfterTell, Player, Speaker, sessionVars, lockVars, taskVars
<1>4. CASE LinkStep(s)
  BY <1>4 DEF LinkStep, Disconnect, Reconnect, ReconnectTimeout, Home, Started, AfterTell, Player, Speaker,
     sessionVars, lockVars, taskVars
<1>5. CASE AskStep(s)
  BY <1>5 DEF AskStep, GameReady, GameAct, HumanSay, Home, Started, AfterTell, Player, Speaker, sessionVars,
     lockVars, taskVars
<1>6. ASSUME NEW w \in Player, StartStep(s, w)
      PROVE  ValueRules(s)
  BY <1>6 DEF StartStep, StartLock, StartApply, StartRefused, StartGuard, StartSend, Home, Started, AfterTell,
     Player, Speaker, sessionVars, lockVars, taskVars
<1>7. ASSUME NEW w \in Player, SubmitStep(s, w)
      PROVE  ValueRules(s)
  <2>1. CASE SubmitApply(s, w)
    <3>1. UNCHANGED <<errors, listed, ready>> /\ pc[s][w] = "apply"
      BY <2>1 DEF SubmitApply, taskVars
    <3>2. CASE life[s] = "gone"
      BY <2>1, <3>1, <3>2 DEF SubmitApply, Player
    <3>3. CASE life[s] # "gone"
      <4>1. accepted'[s] = accepted[s] + 1 /\ pc'[s][w] = "tell"
        <5>1. accepted' = [accepted EXCEPT ![s] = accepted[s] + 1] /\ Goto(s, w, "tell")
          BY <2>1, <3>3 DEF SubmitApply
        <5>2. accepted'[s] = accepted[s] + 1
          BY <5>1
        <5>3. QED
          BY <5>1, <5>2 DEF Player
      <4>2. life'[s] = IF accepted[s] + 1 = ActionLimit THEN "completed" ELSE life[s]
        BY <2>1, <3>3 DEF SubmitApply, Typed, TypeOK
      <4>3. QED
        BY <3>1, <3>3, <4>1, <4>2 DEF Player
    <3>4. QED
      BY <3>2, <3>3
  <2>2. CASE SubmitInvalid(s, w)
    <3>1. UNCHANGED <<life, accepted, listed, ready>>
      BY <2>2 DEF SubmitInvalid, sessionVars
    <3>2. CASE w = "agent"
      <4>1. errors' = [errors EXCEPT ![s] = errors[s] + 1]
        BY <2>2, <3>2 DEF SubmitInvalid
      <4>2. errors'[s] = errors[s] + 1
        BY <4>1 DEF Typed, TypeOK
      <4>3. errors[s] + 1 < InvalidLimit \/ Goto(s, "agent", "dispose")
        BY <2>2, <3>2 DEF SubmitInvalid
      <4>4. ~Deaf(s)' => errors[s] + 1 < InvalidLimit
        BY <4>3
      <4>5. QED
        BY <3>1, <4>2, <4>4
    <3>3. CASE w # "agent"
      BY <2>2, <3>1, <3>3 DEF SubmitInvalid
    <3>4. QED
      BY <3>2, <3>3
  <2>3. QED
    BY <1>7, <2>1, <2>2 DEF SubmitStep, SubmitLock, SubmitRefused, TellGuard, TellNobody, TellSend, Home,
       Started, AfterTell, Player, Speaker, sessionVars, lockVars, taskVars
<1>8. ASSUME NEW w \in Speaker, SpeakStep(s, w)
      PROVE  ValueRules(s)
  BY <1>8 DEF SpeakStep, SayCommit, NoteGuard, NoteNobody, NoteSend, Home, Started, AfterTell, Player,
     Speaker, sessionVars, lockVars, taskVars
<1>9. QED
  BY <1>1, <1>2, <1>3, <1>4, <1>5, <1>6, <1>7, <1>8 DEF Step

\* What is put into an inbox and taken out of it, and how that goes with the
\* places of those who tell the agent of an action.
Telling(s, w) == pc[s][w] \in {"tell", "telling"}
TellersStay(s) == \A w \in Process : Telling(s, w) <=> Telling(s, w)'
Keeps(s) ==
    /\ inbox'[s] = inbox[s] /\ seen'[s] = seen[s]
    /\ \A w \in Process : Telling(s, w) /\ ~Telling(s, w)' => ~listed[s] \/ Deaf(s) \/ life[s] = "gone"
Puts(s, item) ==
    /\ listed[s] /\ ~Deaf(s)
    /\ inbox'[s] = Append(inbox[s], item) /\ UNCHANGED <<accepted, seen, life, listed, ready>>
PutsActivation(s) ==
    /\ Puts(s, Activated) /\ TellersStay(s)
    /\ \E w \in Player : pc[s][w] = "waking" /\ pc'[s][w] = Started(w)
PutsMessage(s) == Puts(s, Message) /\ TellersStay(s) /\ \E w \in Speaker : pc[s][w] = "noting"
PutsAction(s) ==
    /\ Puts(s, Action(accepted[s]))
    /\ \E w \in Player : pc[s][w] = "telling" /\ ~Telling(s, w)'
Takes(s) ==
    /\ inbox[s] # << >> /\ inbox'[s] = Tail(inbox[s]) /\ TellersStay(s)
    /\ UNCHANGED <<accepted, life, listed, ready>>
    /\ \/ seen'[s] = seen[s] /\ (Head(inbox[s]) = Activated \/ Deaf(s)')
       \/ seen'[s] = IF Head(inbox[s]).kind = "action" THEN Head(inbox[s]).n ELSE seen[s]
Drops(s) == inbox'[s] = << >> /\ seen'[s] = seen[s] /\ Deaf(s)'
InboxRules(s) ==
    Keeps(s) \/ PutsActivation(s) \/ PutsMessage(s) \/ PutsAction(s) \/ Takes(s) \/ Drops(s)

\* Every step keeps the rules for the inbox.
LEMMA RulesStep ==
    ASSUME Typed, NEW s \in Session, Placed(s), Counts(s), Step(s)
    PROVE  InboxRules(s)
<1> USE Going DEF At, Process, InboxRules, Deaf, Telling
<1>1. CASE EntryStep(s)
  BY <1>1 DEF EntryStep, AgentStart, AgentStartFails, AgentLock, AgentEnter, AgentList, Home, Started,
     AfterTell, Player, Speaker, sessionVars, lockVars, taskVars, Keeps
<1>2. CASE LoopStep(s)
  <2>1. CASE AgentAwait(s) /\ inbox[s] # << >>
    <3>1. Head(inbox[s]) = Activated \/ Deaf(s)'
      BY <2>1 DEF AgentAwait
    <3>2. TellersStay(s)
      BY <2>1 DEF AgentAwait, TellersStay
    <3>3. inbox'[s] = Tail(inbox[s]) /\ UNCHANGED <<accepted, life, listed, ready, seen>>
      BY <2>1, Taking DEF AgentAwait, sessionVars
    <3>4. QED
      BY <2>1, <3>1, <3>2, <3>3 DEF Takes
  <2>2. CASE AgentRecv(s)
    <3>1. inbox[s] # << >> /\ UNCHANGED <<accepted, life, listed, ready>>
      BY <2>2 DEF AgentRecv
    <3>2. inbox'[s] = Tail(inbox[s])
      BY <2>2, <3>1, Taking DEF AgentRecv
    <3>3. TellersStay(s)
      BY <2>2 DEF AgentRecv, TellersStay
    <3>4. seen'[s] = IF Head(inbox[s]).kind = "action" THEN Head(inbox[s]).n ELSE seen[s]
      <4>1. seen' = [seen EXCEPT ![s] = IF Head(inbox[s]).kind = "action" THEN Head(inbox[s]).n ELSE @]
        BY <2>2 DEF AgentRecv
      <4>2. QED
        BY <4>1 DEF Typed, TypeOK
    <3>5. QED
      BY <3>1, <3>2, <3>3, <3>4 DEF Takes
  <2>3. CASE AgentDispose(s)
    <3>1. inbox'[s] = << >>
      BY <2>3, Writing DEF AgentDispose
    <3>2. QED
      BY <2>3, <3>1 DEF AgentDispose, Drops, sessionVars
  <2>4. QED
    BY <1>2, <2>1, <2>2, <2>3 DEF LoopStep, Keeps, AgentAwait, AgentSettle, AgentDecide, AgentDecideFails, AgentClosed,
       AgentRemove, sessionVars, lockVars, taskVars
<1>3. CASE EndStep(s)
  BY <1>3 DEF EndStep, LeaveLock, LeaveApply, LeaveClose, SweepExpire, SweepRoom, SweepInbox, Home, Started,
     AfterTell, Player, Speaker, sessionVars, lockVars, taskVars, Keeps
<1>4. CASE LinkStep(s)
  BY <1>4 DEF LinkStep, Disconnect, Reconnect, ReconnectTimeout, Home, Started, AfterTell, Player, Speaker,
     sessionVars, lockVars, taskVars, Keeps
<1>5. CASE AskStep(s)
  BY <1>5 DEF AskStep, GameReady, GameAct, HumanSay, Home, Started, AfterTell, Player, Speaker, sessionVars,
     lockVars, taskVars, Keeps
<1>6. ASSUME NEW w \in Player, StartStep(s, w)
      PROVE  InboxRules(s)
  <2>1. CASE StartSend(s, w)
    <3>1. CASE inbox' = inbox
      BY <2>1, <3>1 DEF StartSend, Keeps, Started, Player, sessionVars
    <3>2. CASE Puts(s, Activated)
      BY <2>1, <3>2 DEF StartSend, PutsActivation, TellersStay, Started, Player
    <3>3. QED
      BY <2>1, <3>1, <3>2, Sending, Items DEF StartSend, Puts, sessionVars
  <2>2. QED
    BY <1>6, <2>1 DEF StartStep, StartLock, StartApply, StartRefused, StartGuard, Keeps, Started, Player,
       sessionVars, lockVars, taskVars
<1>7. ASSUME NEW w \in Player, SubmitStep(s, w)
      PROVE  InboxRules(s)
  <2>1. CASE TellSend(s, w)
    <3>1. PICK to \in AfterTell(s, w) : Goto(s, w, to)
      BY <2>1 DEF TellSend
    <3>2. ~Telling(s, w)' /\ \A v \in Process \ {w} : pc'[s][v] = pc[s][v]
      BY <3>1 DEF AfterTell, Player
    <3>3. Action(accepted[s]) \in Item
      <4>1. accepted[s] > 0
        BY <2>1 DEF TellSend, Counts, Player
      <4>2. QED
        BY <4>1, Items, Values
    <3>4. CASE Puts(s, Action(accepted[s]))
      BY <2>1, <3>2, <3>4 DEF TellSend, PutsAction
    <3>5. CASE (~listed[s] \/ Deaf(s)) /\ inbox' = inbox
      BY <2>1, <3>2, <3>5 DEF TellSend, Keeps, sessionVars
    <3>6. QED
      BY <2>1, <3>3, <3>4, <3>5, Sending DEF TellSend, Puts, sessionVars
  <2>2. CASE SubmitApply(s, w)
    <3>1. pc[s][w] = "apply" /\ \A v \in Process \ {w} : pc'[s][v] = pc[s][v]
      BY <2>2 DEF SubmitApply, Player
    <3>2. QED
      BY <2>2, <3>1 DEF SubmitApply, Keeps, taskVars
  <2>3. QED
    BY <1>7, <2>1, <2>2 DEF SubmitStep, SubmitLock, SubmitRefused, SubmitInvalid, TellGuard, TellNobody, Keeps, Player,
       sessionVars, lockVars, taskVars
<1>8. ASSUME NEW w \in Speaker, SpeakStep(s, w)
      PROVE  InboxRules(s)
  <2>1. CASE NoteSend(s, w)
    <3>1. TellersStay(s)
      BY <2>1 DEF NoteSend, TellersStay, Home, Speaker
    <3>2. CASE inbox' = inbox
      BY <2>1, <3>1, <3>2 DEF NoteSend, Keeps, TellersStay, sessionVars
    <3>3. CASE Puts(s, Message)
      BY <2>1, <3>1, <3>3 DEF NoteSend, PutsMessage
    <3>4. QED
      BY <2>1, <3>2, <3>3, Sending, Items DEF NoteSend, Puts, sessionVars
  <2>2. QED
    BY <1>8, <2>1 DEF SpeakStep, SayCommit, NoteGuard, NoteNobody, Keeps, Home, Speaker, sessionVars, lockVars, taskVars
<1>9. QED
  BY <1>1, <1>2, <1>3, <1>4, <1>5, <1>6, <1>7, <1>8 DEF Step
-----------------------------------------------------------------------------
(* The invariant of one session.                                           *)

\* Two processes never hold the transition lock together.
LEMMA OneHolder ==
    ASSUME NEW s \in Session, MutexHeld(s), NEW v \in Process, NEW w \in Process,
           pc[s][v] \in Holding, pc[s][w] \in Holding \/ mutex[s] = Nobody
    PROVE  v = w
BY NamesAssumption DEF MutexHeld, Process

\* An agent that is not listed hears nothing, and its room does not run.
LEMMA PreparedStep ==
    ASSUME Typed, NEW s \in Session, Placed(s), MutexHeld(s), Prepared(s), Step(s), Counts(s)
    PROVE  Prepared(s)'
<1>1. /\ ValueRules(s) /\ InboxRules(s) /\ \A w \in Process : PlaceRules(s, w)
      /\ "agent" \in Process /\ Player \subseteq Process /\ Speaker \subseteq Process
  BY ValueStep, RulesStep, PlaceStep DEF Player, Speaker, Process
<1>2. pc'[s]["agent"] \in Asleep => ~ready'[s]
  BY <1>1 DEF PlaceRules, ValueRules, Prepared, Asleep
<1>3. CASE ~ready'[s]
  <2>1. ~ready[s]
    BY <1>1, <1>3 DEF ValueRules
  <2>2. \A w \in Process : pc'[s][w] \notin Starting \cup Acting \cup {"note", "noting"}
    BY <1>1, <2>1 DEF PlaceRules, Prepared, Starting, Acting
  <2>3. life'[s] # "running" /\ ~listed'[s] /\ accepted'[s] = 0
    BY <1>1, <1>3, <2>1 DEF ValueRules, Prepared, Starting, Acting, Ended
  <2>4. inbox'[s] = << >> /\ seen'[s] = 0
    BY <1>1, <2>1 DEF InboxRules, Keeps, PutsActivation, PutsMessage, PutsAction, Puts, Takes, Drops, Prepared
  <2>5. QED
    BY <1>2, <2>2, <2>3, <2>4 DEF Prepared, Asleep
<1>4. QED
  BY <1>2, <1>3 DEF Prepared, Asleep

\* What an inbox contains after a step was there before, or has just been sent.
LEMMA Received ==
    ASSUME Typed, NEW s \in Session, Step(s), Placed(s), Counts(s), NEW i \in DOMAIN inbox'[s]
    PROVE  \/ \E j \in DOMAIN inbox[s] : inbox'[s][i] = inbox[s][j]
           \/ inbox'[s][i] = Activated /\ PutsActivation(s)
           \/ inbox'[s][i] = Message
           \/ inbox'[s][i] = Action(accepted[s]) /\ PutsAction(s)
<1>1. InboxRules(s) /\ inbox[s] \in Seq(Item)
  BY RulesStep, Values
<1>2. CASE Keeps(s)
  BY <1>2 DEF Keeps
<1>3. ASSUME NEW item, Puts(s, item)
      PROVE  inbox'[s][i] = item \/ \E j \in DOMAIN inbox[s] : inbox'[s][i] = inbox[s][j]
  BY <1>1, <1>3 DEF Puts
<1>4. CASE Takes(s)
  <2>1. i + 1 \in DOMAIN inbox[s] /\ inbox'[s][i] = inbox[s][i + 1]
    BY <1>1, <1>4, Taking DEF Takes
  <2>2. QED
    BY <2>1
<1>5. CASE Drops(s)
  BY <1>5 DEF Drops
<1>6. QED
  BY <1>1, <1>2, <1>3, <1>4, <1>5 DEF InboxRules, PutsActivation, PutsMessage, PutsAction

\* The game is started once.
LEMMA StartsOnceStep ==
    ASSUME Typed, NEW s \in Session, Placed(s), MutexHeld(s), StartsOnce(s), OneActivation(s), Counts(s), Step(s)
    PROVE  StartsOnce(s)'
<1>1. /\ ValueRules(s) /\ InboxRules(s) /\ \A w \in Process : PlaceRules(s, w)
      /\ "agent" \in Process /\ Player \subseteq Process
  BY ValueStep, RulesStep, PlaceStep DEF Player, Process
<1>2. life'[s] = "forming" => life[s] = "forming"
  BY <1>1 DEF ValueRules, Ended
<1>3. life'[s] = "forming" => \A w \in Process : pc'[s][w] \notin {"wake", "waking"}
  BY <1>1, <1>2 DEF PlaceRules, StartsOnce
<1>4. ASSUME life'[s] = "forming" \/ \E w \in Process : pc'[s][w] \in Starting
      PROVE  Inactive(s)' /\ Fresh(s)'
  <2>1. life[s] = "forming" \/ \E w \in Process : pc[s][w] \in Starting
    BY <1>1, <1>2, <1>4 DEF PlaceRules, Starting
  <2>2. Inactive(s) /\ Fresh(s)
    BY <2>1 DEF StartsOnce
  <2>3. ~PutsActivation(s)
    <3>1. SUFFICES ASSUME NEW w \in Player, pc[s][w] = "waking", pc'[s][w] = Started(w)
                   PROVE  FALSE
      BY DEF PutsActivation
    <3>2. life[s] # "forming" /\ pc[s][w] \in Holding /\ pc'[s][w] \notin Starting
      BY <1>1, <3>1 DEF StartsOnce, Holding, Starting, Started
    <3>3. PICK v \in Process : pc'[s][v] \in Starting
      BY <1>2, <1>4, <3>2
    <3>4. pc[s][v] \in Starting
      BY <1>1, <3>2, <3>3 DEF PlaceRules, Starting
    <3>5. QED
      BY <1>1, <3>2, <3>3, <3>4, OneHolder DEF Holding
  <2>4. \A i \in DOMAIN inbox'[s] : inbox'[s][i] = Message
    <3>1. ~PutsAction(s)
      BY <1>1, <2>2 DEF PutsAction, Fresh, Acting
    <3>2. QED
      BY <2>2, <2>3, <3>1, Received DEF Inactive
  <2>5. pc'[s]["agent"] \notin Active
    <3>1. inbox[s] # << >> => Head(inbox[s]) # Activated
      BY <2>2, Taking, Values, Items DEF Inactive
    <3>2. QED
      BY <1>1, <2>2, <3>1 DEF PlaceRules, Inactive
  <2>6. accepted'[s] = 0
    BY <1>1, <2>2 DEF ValueRules, Fresh, Acting
  <2>7. \A w \in Process : pc'[s][w] \notin Acting
    <3>1. SUFFICES ASSUME NEW w \in Process, pc'[s][w] = "apply", pc[s][w] # "apply"
                   PROVE  FALSE
      BY <1>1, <2>2 DEF PlaceRules, Fresh, Acting
    <3>2. life[s] = "running" /\ mutex[s] = Nobody
      BY <1>1, <3>1 DEF PlaceRules
    <3>3. PICK v \in Process : pc[s][v] \in Starting
      BY <2>1, <3>2
    <3>4. QED
      BY <3>2, <3>3, NamesAssumption DEF MutexHeld, Holding
  <2>8. seen'[s] = 0
    <3>1. inbox[s] # << >> => Head(inbox[s]).kind # "action"
      BY <2>2, Taking, Values, Items DEF Inactive
    <3>2. QED
      BY <1>1, <2>2, <3>1 DEF InboxRules, Keeps, PutsActivation, PutsMessage, PutsAction, Puts, Takes, Drops,
         Fresh
  <2>9. QED
    BY <2>4, <2>5, <2>6, <2>7, <2>8 DEF Inactive, Fresh
<1>5. QED
  BY <1>3, <1>4 DEF StartsOnce

\* One activation reaches the agent.
LEMMA OneActivationStep ==
    ASSUME Typed, NEW s \in Session, Placed(s), MutexHeld(s), StartsOnce(s), OneActivation(s), Counts(s), Step(s)
    PROVE  OneActivation(s)'
<1>1. /\ InboxRules(s) /\ \A w \in Process : PlaceRules(s, w)
      /\ "agent" \in Process /\ Player \subseteq Process /\ inbox[s] \in Seq(Item)
  BY RulesStep, PlaceStep, Values DEF Player, Process
<1>2. CASE PutsActivation(s)
  <2>1. PICK w \in Player : pc[s][w] = "waking" /\ pc'[s][w] = Started(w)
    BY <1>2 DEF PutsActivation
  <2>2. Inactive(s)
    BY <1>1, <2>1 DEF StartsOnce, Starting
  <2>3. \A i \in DOMAIN inbox[s] : inbox[s][i] # Activated
    BY <2>2, Items DEF Inactive
  <2>4. inbox'[s] = Append(inbox[s], Activated)
    BY <1>2 DEF PutsActivation, Puts
  <2>5. \A i, j \in DOMAIN inbox'[s] : inbox'[s][i] = Activated /\ inbox'[s][j] = Activated => i = j
    BY <1>1, <2>3, <2>4
  <2>6. pc'[s]["agent"] \notin Active
    <3>1. inbox[s] # << >> => Head(inbox[s]) # Activated
      BY <2>3, Taking
    <3>2. QED
      BY <1>1, <2>2, <3>1 DEF PlaceRules, Inactive
  <2>7. QED
    BY <2>5, <2>6 DEF OneActivation
<1>3. CASE Takes(s)
  <2>1. /\ inbox[s] # << >> /\ Head(inbox[s]) = inbox[s][1] /\ Len(inbox[s]) \in Nat
        /\ DOMAIN inbox'[s] = 1..(Len(inbox[s]) - 1)
        /\ \A i \in DOMAIN inbox'[s] : i + 1 \in DOMAIN inbox[s] /\ inbox'[s][i] = inbox[s][i + 1]
        /\ 1 \in DOMAIN inbox[s]
    BY <1>1, <1>3, Taking DEF Takes
  <2>2. \A i, j \in DOMAIN inbox'[s] : inbox'[s][i] = Activated /\ inbox'[s][j] = Activated => i = j
    BY <2>1 DEF OneActivation
  <2>3. pc'[s]["agent"] \in Active => \A i \in DOMAIN inbox'[s] : inbox'[s][i] # Activated
    <3>1. CASE pc[s]["agent"] \in Active
      BY <2>1, <3>1 DEF OneActivation
    <3>2. CASE Head(inbox[s]) = Activated
      BY <2>1, <3>2 DEF OneActivation
    <3>3. QED
      BY <1>1, <3>1, <3>2 DEF PlaceRules
  <2>4. QED
    BY <2>2, <2>3 DEF OneActivation
<1>4. ASSUME NEW item \in Item, item # Activated, Puts(s, item)
      PROVE  OneActivation(s)'
  <2>1. /\ DOMAIN inbox'[s] = 1..(Len(inbox[s]) + 1) /\ DOMAIN inbox[s] = 1..Len(inbox[s]) /\ Len(inbox[s]) \in Nat
        /\ \A i \in DOMAIN inbox[s] : inbox'[s][i] = inbox[s][i]
        /\ inbox'[s][Len(inbox[s]) + 1] = item
    BY <1>1, <1>4 DEF Puts
  <2>2. \A i \in DOMAIN inbox'[s] : inbox'[s][i] = Activated => i \in DOMAIN inbox[s]
    BY <1>4, <2>1
  <2>3. inbox'[s] # Tail(inbox[s])
    BY <1>1, <1>4, Taking DEF Puts
  <2>4. pc'[s]["agent"] \in Active => pc[s]["agent"] \in Active
    BY <1>1, <1>4, <2>1, <2>3 DEF PlaceRules
  <2>5. QED
    BY <2>1, <2>2, <2>4 DEF OneActivation
<1>5. CASE Keeps(s)
  <2>1. inbox[s] # << >> => inbox'[s] # Tail(inbox[s])
    <3>1. Len(inbox[s]) \in Nat /\ (inbox[s] # << >> => Len(Tail(inbox[s])) = Len(inbox[s]) - 1)
      BY <1>1, Taking
    <3>2. inbox'[s] = inbox[s]
      BY <1>5 DEF Keeps
    <3>3. inbox[s] # << >> => Len(Tail(inbox[s])) # Len(inbox[s])
      BY <3>1
    <3>4. QED
      BY <3>2, <3>3
  <2>2. QED
    BY <1>1, <1>5, <2>1 DEF Keeps, PlaceRules, OneActivation
<1>6. CASE Drops(s)
  BY <1>6 DEF Drops, OneActivation
<1>7. accepted[s] \in 1..ActionLimit \/ ~PutsAction(s)
  BY <1>1, Values DEF PutsAction, Counts
<1>8. QED
  BY <1>1, <1>2, <1>3, <1>4, <1>5, <1>6, <1>7, Items DEF InboxRules, PutsMessage, PutsAction

\* Counts stay below their limits until the task or the game is over.
LEMMA CountsStep ==
    ASSUME Typed, NEW s \in Session, Placed(s), MutexHeld(s), StartsOnce(s), Counts(s), Step(s)
    PROVE  Counts(s)'
<1>1. /\ ValueRules(s) /\ \A w \in Process : PlaceRules(s, w)
      /\ "agent" \in Process /\ Player \subseteq Process /\ accepted[s] \in 0..ActionLimit /\ ActionLimit \in Nat \ {0}
  BY ValueStep, PlaceStep, Values, BoundsAssumption DEF Player, Process
<1>2. ASSUME NEW w \in Process, pc'[s][w] = "apply"
      PROVE  accepted'[s] < ActionLimit
  <2>1. accepted[s] < ActionLimit
    BY <1>1, <1>2 DEF PlaceRules, Counts
  <2>2. CASE accepted'[s] = accepted[s]
    BY <2>1, <2>2
  <2>3. CASE accepted'[s] # accepted[s]
    <3>1. PICK v \in Player : pc[s][v] = "apply" /\ pc'[s][v] = "tell"
      BY <1>1, <2>3 DEF ValueRules
    <3>2. pc[s][w] \in Holding \/ mutex[s] = Nobody
      BY <1>1, <1>2 DEF PlaceRules, Holding, Acting
    <3>3. v = w
      BY <1>1, <3>1, <3>2, OneHolder DEF Holding, Acting
    <3>4. QED
      BY <1>2, <3>1, <3>3
  <2>4. QED
    BY <2>2, <2>3
<1>3. ASSUME NEW w \in Process, pc'[s][w] \in {"tell", "telling"}
      PROVE  accepted'[s] > 0
  BY <1>1, <1>3 DEF PlaceRules, ValueRules, Counts
<1>4. ASSUME accepted'[s] = ActionLimit
      PROVE  life'[s] # "running"
  <2>1. CASE accepted'[s] # accepted[s]
    BY <1>1, <1>4, <2>1 DEF ValueRules
  <2>2. CASE accepted'[s] = accepted[s]
    <3>1. accepted[s] # 0 /\ life[s] # "running"
      BY <1>1, <1>4, <2>2 DEF Counts
    <3>2. ~\E w \in Player : pc[s][w] = "commit"
      BY <1>1, <3>1 DEF StartsOnce, Starting, Fresh
    <3>3. QED
      BY <1>1, <3>1, <3>2 DEF ValueRules, Ended
  <2>3. QED
    BY <2>1, <2>2
<1>5. ~Deaf(s)' => errors'[s] < InvalidLimit
  BY <1>1 DEF PlaceRules, ValueRules, Counts, Deaf
<1>6. QED
  BY <1>2, <1>3, <1>4, <1>5 DEF Counts
-----------------------------------------------------------------------------
(* The order of what the agent is told.                                    *)

\* Another item at the end changes nothing, the next action comes last.
LEMMA AtTheEnd ==
    ASSUME NEW q \in Seq(Item), NEW x \in Item
    PROVE  /\ x.kind # "action" => Acts(Append(q, x)) = Acts(q)
           /\ x.kind = "action" => Acts(Append(q, x)) = Acts(q) \cup {Len(q) + 1}
           /\ \A i \in Acts(q) : i \in 1..Len(q) /\ Append(q, x)[i] = q[i]
           /\ Append(q, x)[Len(q) + 1] = x
BY DEF Acts

\* An item that is no action leaves numbers and order as they are.
LEMMA OtherAtTheEnd ==
    ASSUME NEW q \in Seq(Item), NEW x \in Item, x.kind # "action", Sorted(q)
    PROVE  Nums(Append(q, x)) = Nums(q) /\ Sorted(Append(q, x))
BY AtTheEnd DEF Nums, Sorted

\* The next action prolongs the numbers by its own.
LEMMA ActionAtTheEnd ==
    ASSUME NEW q \in Seq(Item), Sorted(q), NEW a \in Nat, NEW b \in Nat, a <= b, Nums(q) = (a + 1)..b,
           Action(b + 1) \in Item
    PROVE  Nums(Append(q, Action(b + 1))) = (a + 1)..(b + 1) /\ Sorted(Append(q, Action(b + 1)))
<1> DEFINE p == Append(q, Action(b + 1))
<1>1. /\ Acts(p) = Acts(q) \cup {Len(q) + 1} /\ Len(q) \in Nat
      /\ \A i \in Acts(q) : i \in 1..Len(q) /\ p[i] = q[i]
      /\ p[Len(q) + 1].n = b + 1
  BY AtTheEnd, Items
<1> HIDE DEF p
<1>2. \A i \in Acts(q) : p[i].n \in (a + 1)..b
  BY <1>1 DEF Nums
<1>3. Nums(p) = Nums(q) \cup {b + 1}
  BY <1>1 DEF Nums
<1>4. Nums(p) = (a + 1)..(b + 1)
  BY <1>3
<1>5. Sorted(p)
  BY <1>1, <1>2 DEF Sorted
<1>6. QED
  BY <1>4, <1>5 DEF p

\* What is left when the first item has been taken.
LEMMA Behind ==
    ASSUME NEW q \in Seq(Item), q # << >>
    PROVE  /\ \A i \in Acts(Tail(q)) : i \in Nat \ {0} /\ i + 1 \in Acts(q) /\ Tail(q)[i] = q[i + 1]
           /\ \A i \in Acts(q) : i \in Nat \ {0} /\ (i # 1 => i - 1 \in Acts(Tail(q)) /\ Tail(q)[i - 1] = q[i])
           /\ 1 \in Acts(q) <=> Head(q).kind = "action"
           /\ Head(q) = q[1]
<1>1. Len(q) \in Nat \ {0} /\ DOMAIN q = 1..Len(q) /\ Head(q) = q[1]
  OBVIOUS
<1>2. DOMAIN Tail(q) = 1..(Len(q) - 1) /\ \A i \in 1..(Len(q) - 1) : Tail(q)[i] = q[i + 1]
  OBVIOUS
<1>3. \A i \in Acts(q) : i # 1 => i - 1 \in 1..(Len(q) - 1) /\ (i - 1) + 1 = i
  BY <1>1 DEF Acts
<1>4. QED
  BY <1>1, <1>2, <1>3 DEF Acts

\* What is left is still in order.
LEMMA SortedBehind ==
    ASSUME NEW q \in Seq(Item), q # << >>, Sorted(q)
    PROVE  Sorted(Tail(q))
<1>1. SUFFICES ASSUME NEW i \in Acts(Tail(q)), NEW j \in Acts(Tail(q)), i < j
               PROVE  Tail(q)[i].n < Tail(q)[j].n
  BY DEF Sorted
<1>2. /\ i \in Nat /\ i + 1 \in Acts(q) /\ Tail(q)[i] = q[i + 1]
      /\ j \in Nat /\ j + 1 \in Acts(q) /\ Tail(q)[j] = q[j + 1]
  BY Behind
<1>3. i + 1 < j + 1
  BY <1>1, <1>2
<1>4. q[i + 1].n < q[j + 1].n
  BY <1>2, <1>3 DEF Sorted
<1>5. QED
  BY <1>2, <1>4

\* Taking an item that is no action leaves the numbers as they are.
LEMMA OtherTaken ==
    ASSUME NEW q \in Seq(Item), q # << >>, Head(q).kind # "action", Sorted(q)
    PROVE  Nums(Tail(q)) = Nums(q) /\ Sorted(Tail(q))
<1>1. /\ \A i \in Acts(Tail(q)) : i \in Nat \ {0} /\ i + 1 \in Acts(q) /\ Tail(q)[i] = q[i + 1]
      /\ \A i \in Acts(q) : i \in Nat \ {0} /\ i - 1 \in Acts(Tail(q)) /\ Tail(q)[i - 1] = q[i]
  BY Behind
<1>2. ASSUME NEW n \in Nums(Tail(q))
      PROVE  n \in Nums(q)
  <2>1. PICK j \in Acts(Tail(q)) : Tail(q)[j].n = n
    BY DEF Nums
  <2>2. j + 1 \in Acts(q) /\ q[j + 1].n = n
    BY <1>1, <2>1
  <2>3. QED
    BY <2>2 DEF Nums
<1>3. ASSUME NEW n \in Nums(q)
      PROVE  n \in Nums(Tail(q))
  <2>1. PICK j \in Acts(q) : q[j].n = n
    BY DEF Nums
  <2>2. j - 1 \in Acts(Tail(q)) /\ Tail(q)[j - 1].n = n
    BY <1>1, <2>1
  <2>3. QED
    BY <2>2 DEF Nums
<1>4. Sorted(Tail(q))
  BY SortedBehind
<1>5. QED
  BY <1>2, <1>3, <1>4

\* The action that is taken is the one after those seen.
LEMMA ActionTaken ==
    ASSUME NEW q \in Seq(Item), q # << >>, Head(q).kind = "action", Sorted(q),
           NEW a \in Nat, NEW b \in Nat, a <= b, Nums(q) = (a + 1)..b
    PROVE  /\ Head(q).n = a + 1 /\ a + 1 <= b
           /\ Nums(Tail(q)) = (a + 2)..b /\ Sorted(Tail(q))
<1>1. 1 \in Acts(q) /\ Head(q) = q[1]
  BY Behind
<1>2. q[1].n \in (a + 1)..b
  BY <1>1 DEF Nums
<1>3. \A i \in Acts(q) : q[i].n \in (a + 1)..b /\ (i # 1 => q[1].n < q[i].n)
  BY <1>1, Behind DEF Nums, Sorted
<1>4. PICK i \in Acts(q) : q[i].n = a + 1
  <2>1. a + 1 \in Nums(q)
    BY <1>2
  <2>2. QED
    BY <2>1 DEF Nums
<1>5. q[1].n = a + 1
  BY <1>2, <1>3, <1>4
<1>6. ASSUME NEW j \in Acts(Tail(q))
      PROVE  j + 1 \in Acts(q) /\ j + 1 # 1 /\ Tail(q)[j] = q[j + 1]
  <2>1. j \in Nat \ {0} /\ j + 1 \in Acts(q) /\ Tail(q)[j] = q[j + 1]
    BY Behind
  <2>2. j + 1 # 1
    BY <2>1
  <2>3. QED
    BY <2>1, <2>2
<1>7. \A j \in Acts(q) : j # 1 => j - 1 \in Acts(Tail(q)) /\ Tail(q)[j - 1] = q[j]
  BY Behind
<1>8. Nums(Tail(q)) \subseteq (a + 2)..b
  <2>1. ASSUME NEW j \in Acts(Tail(q))
        PROVE  Tail(q)[j].n \in (a + 2)..b
    <3>1. q[j + 1].n \in (a + 1)..b /\ a + 1 < q[j + 1].n
      BY <1>3, <1>5, <1>6
    <3>2. q[j + 1].n \in (a + 2)..b
      BY <3>1
    <3>3. QED
      BY <1>6, <3>2
  <2>2. QED
    BY <2>1 DEF Nums
<1>9. ASSUME NEW n \in (a + 2)..b
      PROVE  n \in Nums(Tail(q))
  <2>1. n \in Nums(q)
    OBVIOUS
  <2>2. PICK j \in Acts(q) : q[j].n = n
    BY <2>1 DEF Nums
  <2>3. j # 1
    BY <1>5, <2>2
  <2>4. QED
    BY <1>7, <2>2, <2>3 DEF Nums
<1>10. Sorted(Tail(q))
  BY SortedBehind
<1>11. Nums(Tail(q)) = (a + 2)..b
  BY <1>8, <1>9
<1>12. QED
  BY <1>1, <1>2, <1>5, <1>10, <1>11

\* How much the agent has been told of.
LEMMA ToldCounts ==
    ASSUME Typed, NEW s \in Session, Counts(s)
    PROVE  /\ Told(s) \in Nat /\ accepted[s] \in Nat /\ seen[s] \in Nat
           /\ (\E w \in Player : Telling(s, w)) => Told(s) = accepted[s] - 1 /\ accepted[s] > 0
           /\ ~(\E w \in Player : Telling(s, w)) => Told(s) = accepted[s]
<1>1. accepted[s] \in Nat /\ seen[s] \in Nat /\ Player \subseteq Process
  BY Values, BoundsAssumption DEF Player, Process
<1>2. QED
  BY <1>1 DEF Told, Telling, Counts

\* The same after a step.
LEMMA ToldNext ==
    ASSUME NEW s \in Session
    PROVE  /\ (\E w \in Player : Telling(s, w)') => Told(s)' = accepted'[s] - 1
           /\ ~(\E w \in Player : Telling(s, w)') => Told(s)' = accepted'[s] - 0
BY DEF Told, Telling

\* The agent is told of nothing while nobody starts or ends telling it.
LEMMA ToldSame ==
    ASSUME NEW s \in Session, TellersStay(s), accepted'[s] = accepted[s]
    PROVE  Told(s)' = Told(s)
<1>1. Player \subseteq Process
  BY DEF Player, Process
<1>2. (\E w \in Player : Telling(s, w)) <=> (\E w \in Player : Telling(s, w)')
  BY <1>1 DEF TellersStay
<1>3. QED
  BY <1>2 DEF Told, Telling

\* What the agent hears is what has been accepted, in its order.
LEMMA InOrderStep ==
    ASSUME Typed, NEW s \in Session, Placed(s), MutexHeld(s), Prepared(s), Counts(s), InOrder(s), Step(s)
    PROVE  InOrder(s)'
<1> SUFFICES ASSUME ~Deaf(s)', listed'[s], life'[s] # "gone"
             PROVE  /\ seen'[s] <= Told(s)' /\ Nums(inbox'[s]) = (seen'[s] + 1)..Told(s)'
                    /\ Sorted(inbox'[s])
  BY DEF InOrder
<1>1. /\ ValueRules(s) /\ InboxRules(s) /\ \A w \in Process : PlaceRules(s, w)
      /\ "agent" \in Process /\ Player \subseteq Process /\ inbox[s] \in Seq(Item)
  BY ValueStep, RulesStep, PlaceStep, Values DEF Player, Process
<1>2. ~Deaf(s) /\ life[s] # "gone"
  BY <1>1 DEF PlaceRules, ValueRules, Deaf
<1>3. \A w \in Process : pc'[s][w] \in {"tell", "telling"} /\ pc[s][w] \notin {"tell", "telling"} =>
          pc[s][w] = "apply" /\ pc'[s][w] = "tell" /\ accepted'[s] = accepted[s] + 1
  BY <1>1 DEF PlaceRules
<1>4. Told(s) \in Nat /\ accepted[s] \in Nat /\ seen[s] \in Nat
  BY ToldCounts
<1>5. CASE ~listed[s]
  <2>1. pc[s]["agent"] = "list" /\ ~ready[s]
    BY <1>1, <1>5 DEF ValueRules, Prepared
  <2>2. /\ inbox[s] = << >> /\ accepted[s] = 0 /\ seen[s] = 0
        /\ \A w \in Process : pc[s][w] \notin Acting
    BY <2>1 DEF Prepared
  <2>3. inbox'[s] = << >> /\ seen'[s] = 0
    BY <1>1, <1>5, <2>2 DEF InboxRules, Keeps, PutsActivation, PutsMessage, PutsAction, Puts, Takes, Drops
  <2>4. accepted'[s] = 0
    BY <1>1, <2>2 DEF ValueRules, Acting
  <2>5. ~\E w \in Player : Telling(s, w)'
    BY <1>1, <1>3, <2>2 DEF Telling, Acting
  <2>6. Told(s)' = 0
    BY <2>4, <2>5, ToldNext
  <2>7. Nums(<< >>) = {} /\ Sorted(<< >>)
    BY DEF Nums, Sorted, Acts
  <2>8. QED
    BY <2>3, <2>6, <2>7
<1>6. CASE listed[s]
  <2>1. seen[s] <= Told(s) /\ Nums(inbox[s]) = (seen[s] + 1)..Told(s) /\ Sorted(inbox[s])
    BY <1>2, <1>6 DEF InOrder
  <2>2. CASE Keeps(s)
    <3>1. inbox'[s] = inbox[s] /\ seen'[s] = seen[s]
          /\ \A w \in Process : Telling(s, w) => Telling(s, w)'
      BY <1>2, <1>6, <2>2 DEF Keeps
    <3>2. CASE accepted'[s] = accepted[s]
      <4>1. TellersStay(s)
        BY <1>3, <1>4, <3>1, <3>2 DEF TellersStay, Telling
      <4>2. QED
        BY <2>1, <3>1, <3>2, <4>1, ToldSame
    <3>3. CASE accepted'[s] # accepted[s]
      <4>1. PICK w \in Player : pc[s][w] = "apply" /\ pc'[s][w] = "tell"
        BY <1>1, <3>3 DEF ValueRules
      <4>2. ASSUME NEW v \in Player, Telling(s, v)
            PROVE  FALSE
        BY <1>1, <4>1, <4>2, OneHolder DEF Telling, Holding, Acting
      <4>3. Told(s) = accepted[s]
        BY <4>2, ToldCounts
      <4>4. Told(s)' = accepted'[s] - 1 /\ accepted'[s] = accepted[s] + 1
        BY <1>1, <3>3, <4>1, ToldNext DEF Telling, ValueRules
      <4>5. Told(s)' = Told(s)
        BY <1>4, <4>3, <4>4
      <4>6. QED
        BY <2>1, <3>1, <4>5
    <3>4. QED
      BY <3>2, <3>3
  <2>3. CASE PutsActivation(s) \/ PutsMessage(s)
    <3>1. PICK item \in Item : Puts(s, item) /\ item.kind # "action"
      BY <2>3, Items DEF PutsActivation, PutsMessage
    <3>2. Told(s)' = Told(s)
      BY <2>3, ToldSame DEF PutsActivation, PutsMessage, Puts
    <3>3. Nums(inbox'[s]) = Nums(inbox[s]) /\ Sorted(inbox'[s]) /\ seen'[s] = seen[s]
      BY <1>1, <2>1, <3>1, OtherAtTheEnd DEF Puts
    <3>4. QED
      BY <2>1, <3>2, <3>3
  <2>4. CASE PutsAction(s)
    <3>1. PICK w \in Player : pc[s][w] = "telling" /\ ~Telling(s, w)'
      BY <2>4 DEF PutsAction
    <3>2. inbox'[s] = Append(inbox[s], Action(accepted[s])) /\ accepted'[s] = accepted[s] /\ seen'[s] = seen[s]
      BY <2>4 DEF PutsAction, Puts
    <3>3. Told(s) = accepted[s] - 1 /\ accepted[s] > 0
      BY <3>1, ToldCounts DEF Telling
    <3>4. ASSUME NEW v \in Player, Telling(s, v)'
          PROVE  FALSE
      <4>1. pc[s][v] \in {"tell", "telling"}
        BY <1>1, <1>3, <1>4, <3>2, <3>4 DEF Telling
      <4>2. v = w
        BY <1>1, <3>1, <4>1, OneHolder DEF Holding, Acting
      <4>3. QED
        BY <3>1, <3>4, <4>2
    <3>5. Told(s)' = Told(s) + 1 /\ accepted[s] = Told(s) + 1
      BY <1>4, <3>2, <3>3, <3>4, ToldNext
    <3>6. Action(Told(s) + 1) \in Item
      BY <3>3, <3>5, Values, Items
    <3>7. Nums(inbox'[s]) = (seen[s] + 1)..(Told(s) + 1) /\ Sorted(inbox'[s])
      BY <1>1, <1>4, <2>1, <3>2, <3>5, <3>6, ActionAtTheEnd
    <3>8. QED
      BY <1>4, <2>1, <3>2, <3>5, <3>7
  <2>5. CASE Takes(s)
    <3>1. inbox[s] # << >> /\ inbox'[s] = Tail(inbox[s]) /\ Told(s)' = Told(s)
      BY <2>5, ToldSame DEF Takes
    <3>2. CASE Head(inbox[s]).kind = "action"
      <4>1. seen'[s] = Head(inbox[s]).n
        BY <2>5, <3>2, Items DEF Takes
      <4>2. /\ Head(inbox[s]).n = seen[s] + 1 /\ seen[s] + 1 <= Told(s)
            /\ Nums(Tail(inbox[s])) = (seen[s] + 2)..Told(s) /\ Sorted(Tail(inbox[s]))
        BY <1>1, <1>4, <2>1, <3>1, <3>2, ActionTaken
      <4>3. (seen[s] + 1) + 1 = seen[s] + 2
        BY <1>4
      <4>4. QED
        BY <3>1, <4>1, <4>2, <4>3
    <3>3. CASE Head(inbox[s]).kind # "action"
      <4>1. seen'[s] = seen[s]
        BY <2>5, <3>3 DEF Takes
      <4>2. Nums(Tail(inbox[s])) = Nums(inbox[s]) /\ Sorted(Tail(inbox[s]))
        BY <1>1, <2>1, <3>1, <3>3, OtherTaken
      <4>3. QED
        BY <2>1, <3>1, <4>1, <4>2
    <3>4. QED
      BY <3>2, <3>3
  <2>6. QED
    BY <1>1, <2>2, <2>3, <2>4, <2>5 DEF InboxRules, Drops
<1>7. QED
  BY <1>5, <1>6
-----------------------------------------------------------------------------
\* The invariant holds at first.
LEMMA InitHolds == Init => IInv
<1> SUFFICES ASSUME Init
             PROVE  IInv
  OBVIOUS
<1>1. Typed
  BY BoundsAssumption DEF Init, Typed, TypeOK, Ended, Process, Pc
<1>2. ASSUME NEW s \in Session
      PROVE  Sound(s)
  <2>1. /\ life[s] = "forming" /\ ~ready[s] /\ ~listed[s] /\ inbox[s] = << >>
        /\ accepted[s] = 0 /\ seen[s] = 0 /\ errors[s] = 0
        /\ pc[s]["agent"] = "new" /\ \A w \in Process \ {"agent"} : pc[s][w] = "idle"
    BY DEF Init, Process
  <2>2. \A w \in Process : pc[s][w] \in {"new", "idle"}
    BY <2>1 DEF Process
  <2>3. Placed(s) /\ MutexHeld(s) /\ Prepared(s)
    BY <2>1, <2>2 DEF Placed, MutexHeld, Prepared, Holding, Starting, Acting, Process
  <2>4. StartsOnce(s) /\ OneActivation(s) /\ Counts(s) /\ InOrder(s)
    BY <2>1, <2>2, BoundsAssumption DEF StartsOnce, Inactive, Fresh, OneActivation, Counts, InOrder, Starting,
       Acting, Active, Process
  <2>5. QED
    BY <2>3, <2>4 DEF Sound
<1>3. QED
  BY <1>1, <1>2 DEF IInv

\* Every step keeps the invariant.
LEMMA StepHolds == IInv /\ [Next]_vars => IInv'
<1> SUFFICES ASSUME IInv, [Next]_vars
             PROVE  IInv'
  OBVIOUS
<1>1. CASE UNCHANGED vars
  <2>1. Typed'
    BY <1>1 DEF IInv, Typed, TypeOK, vars, sessionVars, lockVars, taskVars
  <2>2. \A t \in Session : Rests(t)
    BY <1>1 DEF Rests, vars, sessionVars, lockVars, taskVars
  <2>3. QED
    BY <2>1, <2>2, OthersSound DEF IInv
<1>2. CASE Next
  <2>1. PICK s \in Session : Step(s)
    BY <1>2, Steps
  <2>2. /\ Typed /\ Placed(s) /\ MutexHeld(s) /\ Prepared(s) /\ StartsOnce(s) /\ OneActivation(s)
        /\ Counts(s) /\ InOrder(s)
    BY DEF IInv, Sound
  <2>3. Typed' /\ Placed(s)'
    BY <2>1, <2>2, TypedStep, Walks
  <2>4. MutexHeld(s)' /\ Prepared(s)' /\ StartsOnce(s)'
    BY <2>1, <2>2, MutexStep, PreparedStep, StartsOnceStep
  <2>5. OneActivation(s)' /\ Counts(s)' /\ InOrder(s)'
    BY <2>1, <2>2, OneActivationStep, CountsStep, InOrderStep
  <2>6. \A t \in Session \ {s} : Sound(t)'
    BY <2>1, <2>2, OthersRest, OthersSound DEF IInv
  <2>7. QED
    BY <2>3, <2>4, <2>5, <2>6 DEF IInv, Sound
<1>3. QED
  BY <1>1, <1>2

\* However the human, the transcript, a leave and the sweeper interleave with the
\* agent's task: it is activated once, and hears every accepted action in its
\* order (start_agent_task, maybe_start_game, submit_action).
THEOREM AgentStaysInStep == Spec => []AgentIsInStep
<1>1. IInv => AgentIsInStep
  <2> SUFFICES ASSUME IInv
               PROVE  AgentIsInStep
    OBVIOUS
  <2>1. TypeOK
    BY DEF IInv, Typed
  <2>2. ActivatesOnce
    BY DEF IInv, Sound, OneActivation, Active, ActivatesOnce
  <2>3. ObservesInOrder
    BY DEF IInv, Sound, InOrder, Nums, Sorted, Acts, Queued, ObservesInOrder
  <2>4. QED
    BY <2>1, <2>2, <2>3 DEF AgentIsInStep
<1>2. QED
  BY <1>1, InitHolds, StepHolds, PTL DEF Spec
=============================================================================

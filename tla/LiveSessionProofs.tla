------------------------- MODULE LiveSessionProofs --------------------------
(***************************************************************************)
(* Proofs about LiveSession for every value of its constants: its types,   *)
(* what the durable row and its log promise, the whole inductive           *)
(* invariant, and that the row implements SessionOutcome.                  *)
(***************************************************************************)
EXTENDS LiveSessionInvariant, FiniteSetTheorems, TLAPS

Bounds == GameLength \in Nat \ {0} /\ MaxChats \in Nat /\ MaxDrops \in Nat /\ MaxFaults \in Nat

\* What the assumptions say of the bounds.
LEMMA BoundsHold == Bounds
BY GameLengthAssumption, BoundsAssumption DEF Bounds

-----------------------------------------------------------------------------
(***************************************************************************)
(* Types.  First the values that tasks build from the session, then the    *)
(* transactions of the store, then the steps.                              *)
(***************************************************************************)

\* The end a completing action plans is well typed.
LEMMA CompletedEndType ==
    ASSUME session.seats \in SUBSET Role
    PROVE  CompletedEnd \in End
<1>1. [r \in session.seats |-> "completed"] \in [session.seats -> Outcome]
  BY DEF Outcome
<1>2. [r \in session.seats |-> "completed"] \in Results
  BY <1>1 DEF Results
<1>3. QED
  BY <1>2 DEF CompletedEnd, SessionEnd, End, Cause

\* The end a leaving participant plans is well typed.
LEMMA AbandonEndType ==
    ASSUME session.seats \in SUBSET Role, NEW l \in Leaver
    PROVE  AbandonEnd(l) \in End
<1> DEFINE own == IF l[1] = "lost" THEN "connection_lost"
                 ELSE IF session.lifecycle = "forming" THEN "left_waiting_room" ELSE "left_game"
           f == [r \in session.seats |-> IF r = l[2] THEN own ELSE "partner_left"]
<1>1. own \in Outcome
  BY DEF Outcome
<1>2. f \in [session.seats -> Outcome]
  BY <1>1 DEF Outcome
<1>3. f \in Results
  BY <1>2 DEF Results
<1>4. QED
  BY <1>3 DEF AbandonEnd, SessionEnd, End, Cause

\* The end an expiry plans is well typed.
LEMMA ExpiryEndType ==
    ASSUME session.seats \in SUBSET Role, NEW reason \in Reason
    PROVE  ExpiryEnd(reason) \in End
<1> DEFINE f == [r \in session.seats |-> ExpiryOutcome(reason, r)]
<1>1. \A r \in session.seats : ExpiryOutcome(reason, r) \in Outcome
  BY DEF ExpiryOutcome, Outcome, Reason
<1>2. f \in [session.seats -> Outcome]
  BY <1>1
<1>3. f \in Results
  BY <1>2 DEF Results
<1>4. ExpiryCause(reason) \in Cause
  BY DEF ExpiryCause, Cause, Reason
<1>5. QED
  BY <1>3, <1>4 DEF ExpiryEnd, SessionEnd, End

\* persist_terminal_value keeps a row well typed.
LEMMA PersistTerminalType ==
    ASSUME NEW x \in Row, NEW end \in End \cup {NoEnd}
    PROVE  PersistTerminal(x, end) \in Row
<1> DEFINE D == DOMAIN end.results \cap x.seats
           f == [r \in D |-> end.results[r]]
<1>1. end.cause \in Cause \cup {NoCause} /\ \E S \in SUBSET Role : end.results \in [S -> Outcome]
  <2>1. << >> \in [{} -> Outcome]
    OBVIOUS
  <2>2. CASE end = NoEnd
    BY <2>1, <2>2 DEF NoEnd, SessionEnd
  <2>3. CASE end \in End
    BY <2>3 DEF End, Results
  <2>4. QED
    BY <2>2, <2>3
<1>2. PICK S \in SUBSET Role : end.results \in [S -> Outcome]
  BY <1>1
<1>3. f \in [D -> Outcome] /\ D \in SUBSET Role
  BY <1>2
<1>4. f \in Results
  BY <1>3 DEF Results
<1>5. QED
  BY <1>1, <1>4 DEF PersistTerminal, Row, Lifecycle

\* Every transaction keeps a row well typed.
LEMMA StoreTypes ==
    ASSUME NEW x \in Row
    PROVE  /\ CompleteInitialization(x) \in Row
           /\ FailInitialization(x, "technical_failure") \in Row
           /\ StartSession(x) \in Row
           /\ \A r \in Role : AddSeat(x, r) \in Row
           /\ \A k \in EventKind : AppendEvent(x, k) \in Row
           /\ \A end \in End \cup {NoEnd} : EndSession(x, end) \in Row
           /\ CommitAction(x) \in Row
           /\ \A end \in End \cup {NoEnd} : CommitCompletion(x, end) \in Row
<1>1. CompleteInitialization(x) \in Row
  BY DEF CompleteInitialization, Row
<1>2. \A k \in EventKind : AppendEvent(x, k) \in Row
  BY DEF AppendEvent, Row
<1>3. FailInitialization(x, "technical_failure") \in Row
  <2>1. AppendEvent(x, "terminal") \in Row
    BY <1>2 DEF EventKind
  <2>2. QED
    BY <2>1 DEF FailInitialization, Row, Lifecycle, Cause
<1>4. StartSession(x) \in Row
  BY DEF StartSession, Row, Lifecycle
<1>5. \A r \in Role : AddSeat(x, r) \in Row
  BY DEF AddSeat, Row
<1>6. \A end \in End \cup {NoEnd} : EndSession(x, end) \in Row
  BY <1>2, PersistTerminalType DEF EndSession, EventKind
<1>7. CommitAction(x) \in Row
  BY <1>2 DEF CommitAction, EventKind
<1>8. [x EXCEPT !.events = @ \o <<"action", "terminal">>] \in Row
  <2>1. <<"action", "terminal">> \in Seq(EventKind)
    BY DEF EventKind
  <2>2. x.events \o <<"action", "terminal">> \in Seq(EventKind)
    BY <2>1 DEF Row
  <2>3. QED
    BY <2>2 DEF Row
<1>9. \A end \in End \cup {NoEnd} : CommitCompletion(x, end) \in Row
  BY <1>8, PersistTerminalType DEF CommitCompletion
<1>10. QED
  BY <1>1, <1>2, <1>3, <1>4, <1>5, <1>6, <1>7, <1>9

-----------------------------------------------------------------------------
\* Memory holds the session as its creator inserts it, or nothing.
LEMMA NoSessionType ==
    /\ NoSession.seats = {} /\ NoEnd \in End \cup {NoEnd}
    /\ NoSession \in Session
BY DEF NoSession, Session, Lifecycle

\* The tasks are idle initially and after a crash.
LEMMA IdleType ==
    /\ \A P : "idle" \in P => Idle \in Pending(P)
    /\ SweepIdle \in Sweep
BY DEF Idle, SweepIdle, Pending, Sweep

\* A task moves on, keeping or replacing the end it has planned.
LEMMA TaskType ==
    ASSUME NEW D, NEW P, NEW f \in [D -> Pending(P)], NEW d \in D, NEW x \in P,
           NEW e \in End \cup {NoEnd}
    PROVE  /\ [f EXCEPT ![d].pc = x] \in [D -> Pending(P)]
           /\ [f EXCEPT ![d] = [pc |-> x, end |-> e]] \in [D -> Pending(P)]
           /\ f[d].end \in End \cup {NoEnd}
BY DEF Pending

\* A task of a role or a leaver goes back to rest.
LEMMA RestType ==
    ASSUME NEW D, NEW P, NEW f \in [D -> Pending(P)], NEW d \in D, "idle" \in P
    PROVE  [f EXCEPT ![d] = Idle] \in [D -> Pending(P)]
BY IdleType

\* A socket's next program counter.
LEMMA SocketType ==
    ASSUME TypeOK, NEW r \in Role, NEW pc \in SocketPc, SetSocket(r, pc)
    PROVE  socket' \in [Role -> Pending(SocketPc)]
BY TaskType DEF SetSocket, TypeOK

\* A socket that gives the Mutex back.
LEMMA SocketReturnsType ==
    ASSUME TypeOK, NEW r \in Role, SocketReturns(r)
    PROVE  socket' \in [Role -> Pending(SocketPc)] /\ lock' = Free
BY SocketType DEF SocketReturns, SocketPc

\* Initial states are well typed.
LEMMA InitType == Init => TypeOK
<1> SUFFICES ASSUME Init PROVE TypeOK
  OBVIOUS
<1>1. NewRow \in Row
  <2>1. << >> \in [{} -> Outcome]
    OBVIOUS
  <2>2. << >> \in Results
    BY <2>1 DEF Results
  <2>3. << >> \in Seq(EventKind)
    OBVIOUS
  <2>4. QED
    BY <2>2, <2>3 DEF NewRow, Row, Lifecycle, NoCause
<1>2. /\ socket \in [Role -> Pending(SocketPc)]
      /\ abandon \in [Leaver -> Pending(AbandonPc)]
      /\ timer \in [Role -> Pending(TimerPc)]
  BY IdleType DEF Init, SocketPc, AbandonPc, TimerPc
<1>3. QED
  BY <1>1, <1>2, NoSessionType, IdleType, BoundsHold DEF Init, TypeOK, Bounds

\* Every step keeps the state well typed.
LEMMA NextType == TypeOK /\ SweepHasReason /\ [Next]_vars => TypeOK'
<1> SUFFICES ASSUME TypeOK, SweepHasReason, [Next]_vars PROVE TypeOK'
  OBVIOUS
<1> USE BoundsHold DEF Bounds
<1>1. CASE UNCHANGED vars
  BY <1>1 DEF vars, TypeOK
<1>2. CASE CreateFails
  BY <1>2, StoreTypes DEF CreateFails, TypeOK, Role
<1>3. CASE CreateInsert
  BY <1>3, NoSessionType DEF CreateInsert, TypeOK, Session, Role
<1>4. CASE CreateInitialized
  BY <1>4, StoreTypes DEF CreateInitialized, TypeOK, Role
<1>5. CASE CreateInitializationError
  BY <1>5 DEF CreateInitializationError, StoreFails, TypeOK, Role
<1>6. CASE CreateWithdraw
  BY <1>6, NoSessionType DEF CreateWithdraw, TypeOK, Role
<1>7. CASE JoinFind
  BY <1>7 DEF JoinFind, TypeOK, Role
<1>8. CASE JoinAdd
  BY <1>8 DEF JoinAdd, TypeOK, Session, Role
<1>9. ASSUME NEW r \in Role, PersistSeat(r) PROVE TypeOK'
  BY <1>9, StoreTypes DEF PersistSeat, TypeOK
<1>10. ASSUME NEW r \in Role, Connect(r) PROVE TypeOK'
  <2>1. session' \in Session
    BY <1>10 DEF Connect, TypeOK, Session
  <2>2. QED
    BY <1>10, <2>1, SocketType DEF Connect, TypeOK, SocketPc
<1>11. ASSUME NEW r \in Role, Greet(r) PROVE TypeOK'
  BY <1>11, SocketType DEF Greet, TypeOK, SocketPc
<1>12. ASSUME NEW r \in Role, StartRead(r) PROVE TypeOK'
  BY <1>12, SocketType, SocketReturnsType DEF StartRead, TypeOK, SocketPc
<1>13. ASSUME NEW r \in Role, StartCommit(r) PROVE TypeOK'
  <2>1. row' \in Row
    BY <1>13, StoreTypes DEF StartCommit, TypeOK
  <2>2. QED
    BY <1>13, <2>1, SocketType, SocketReturnsType DEF StartCommit, TypeOK, SocketPc
<1>14. ASSUME NEW r \in Role, StartError(r) PROVE TypeOK'
  BY <1>14, SocketReturnsType DEF StartError, StoreFails, TypeOK
<1>15. ASSUME NEW r \in Role, StartApply(r) PROVE TypeOK'
  <2>1. session' \in Session
    BY <1>15 DEF StartApply, TypeOK, Session, Lifecycle
  <2>2. sweep' \in Sweep
    BY <1>15 DEF StartApply, Touched, TypeOK, Sweep
  <2>3. QED
    BY <1>15, <2>1, <2>2, SocketReturnsType DEF StartApply, TypeOK
<1>16. ASSUME NEW r \in Role, SubmitRead(r) PROVE TypeOK'
  <2>1. PlannedEnd \in End \cup {NoEnd}
    BY CompletedEndType DEF PlannedEnd, TypeOK, Session
  <2>2. socket' \in [Role -> Pending(SocketPc)]
    BY <1>16, <2>1, TaskType DEF SubmitRead, TypeOK, SocketPc
  <2>3. QED
    BY <1>16, <2>2 DEF SubmitRead, TypeOK
<1>17. ASSUME NEW r \in Role, SubmitCommit(r) PROVE TypeOK'
  <2>1. socket[r].end \in End \cup {NoEnd}
    BY DEF TypeOK, Pending
  <2>2. row' \in Row
    BY <1>17, <2>1, StoreTypes DEF SubmitCommit, TypeOK
  <2>3. socket' \in [Role -> Pending(SocketPc)]
    <3>1. CASE session.live
      <4>1. socket' = [socket EXCEPT ![r].pc = "actApply"]
        BY <1>17, <3>1 DEF SubmitCommit
      <4>2. QED
        BY <4>1, TaskType DEF TypeOK, SocketPc
    <3>2. CASE ~session.live
      BY <1>17, <3>2, SocketReturnsType DEF SubmitCommit
    <3>3. QED
      BY <3>1, <3>2
  <2>4. QED
    BY <1>17, <2>2, <2>3 DEF SubmitCommit, SocketReturns, TypeOK
<1>18. ASSUME NEW r \in Role, SubmitError(r) PROVE TypeOK'
  BY <1>18, SocketReturnsType DEF SubmitError, StoreFails, TypeOK
<1>19. ASSUME NEW r \in Role, NEW keepVoice \in BOOLEAN, SubmitApply(r, keepVoice) PROVE TypeOK'
  <2>1. socket[r].end \in End \cup {NoEnd}
    BY DEF TypeOK, Pending
  <2>2. session' \in Session
    <3>1. CASE ~session.live
      BY <1>19, <3>1 DEF SubmitApply, TypeOK
    <3>2. CASE session.live /\ socket[r].end = NoEnd
      BY <1>19, <3>2 DEF SubmitApply, TypeOK, Session
    <3>3. CASE session.live /\ socket[r].end # NoEnd
      <4>1. session' = [[session EXCEPT !.moves = @ + 1] EXCEPT
                          !.lifecycle = "ended", !.end = socket[r].end, !.voice = keepVoice]
        BY <1>19, <3>3 DEF SubmitApply
      <4>2. [session EXCEPT !.moves = @ + 1] \in Session
        BY DEF TypeOK, Session
      <4>3. "ended" \in Lifecycle
        BY DEF Lifecycle
      <4>4. QED
        BY <2>1, <4>1, <4>2, <4>3 DEF Session
    <3>4. QED
      BY <3>1, <3>2, <3>3
  <2>3. sweep' \in Sweep
    BY <1>19 DEF SubmitApply, Touched, TypeOK, Sweep
  <2>4. QED
    BY <1>19, <2>2, <2>3, SocketReturnsType DEF SubmitApply, TypeOK
<1>20. ASSUME NEW r \in Role, ChatRead(r) PROVE TypeOK'
  BY <1>20, SocketType DEF ChatRead, TypeOK, SocketPc
<1>21. ASSUME NEW r \in Role, ChatCommit(r) PROVE TypeOK'
  <2>1. row' \in Row
    BY <1>21, StoreTypes DEF ChatCommit, TypeOK, EventKind
  <2>2. QED
    BY <1>21, <2>1, SocketType DEF ChatCommit, TypeOK, SocketPc
<1>22. ASSUME NEW r \in Role, ChatTouch(r) PROVE TypeOK'
  <2>1. sweep' \in Sweep
    BY <1>22 DEF ChatTouch, Touched, TypeOK, Sweep
  <2>2. QED
    BY <1>22, <2>1, SocketType DEF ChatTouch, TypeOK, SocketPc
<1>23. ASSUME NEW r \in Role, Drop(r) PROVE TypeOK'
  <2>1. session' \in Session
    BY <1>23 DEF Drop, TypeOK, Session
  <2>2. abandon' \in [Leaver -> Pending(AbandonPc)]
    <3>1. <<"lost", r>> \in Leaver /\ "read" \in AbandonPc
      BY DEF Leaver, AbandonPc
    <3>2. abandon \in [Leaver -> Pending(AbandonPc)]
      BY DEF TypeOK
    <3>3. [abandon EXCEPT ![<<"lost", r>>].pc = "read"] \in [Leaver -> Pending(AbandonPc)]
      BY <3>1, <3>2, TaskType
    <3>4. QED
      BY <1>23, <3>2, <3>3 DEF Drop
  <2>3. QED
    BY <1>23, <2>1, <2>2, SocketType DEF Drop, TypeOK, SocketPc
<1>24. ASSUME NEW r \in Role, Pause(r) PROVE TypeOK'
  <2>1. session' \in Session
    BY <1>24 DEF Pause, TypeOK, Session
  <2>2. timer' \in [Role -> Pending(TimerPc)]
    BY <1>24, TaskType DEF Pause, TypeOK, TimerPc
  <2>3. QED
    BY <1>24, <2>1, <2>2 DEF Pause, TypeOK
<1>25. ASSUME NEW r \in Role, Leave(r) PROVE TypeOK'
  <2>1. abandon' \in [Leaver -> Pending(AbandonPc)]
    BY <1>25, TaskType, RestType DEF Leave, TypeOK, AbandonPc, Leaver
  <2>2. QED
    BY <1>25, <2>1 DEF Leave, TypeOK
<1>26. ASSUME NEW l \in Leaver, AbandonRead(l) PROVE TypeOK'
  <2>1. AbandonEnd(l) \in End
    BY AbandonEndType DEF TypeOK, Session
  <2>2. abandon' \in [Leaver -> Pending(AbandonPc)]
    <3>1. CASE session.live /\ ~Ended
      <4>1. abandon' = [abandon EXCEPT ![l] = [pc |-> "commit", end |-> AbandonEnd(l)]]
        BY <1>26, <3>1 DEF AbandonRead
      <4>2. QED
        BY <2>1, <4>1, TaskType DEF TypeOK, AbandonPc
    <3>2. CASE ~(session.live /\ ~Ended)
      BY <1>26, <3>2, RestType DEF AbandonRead, TypeOK, AbandonPc
    <3>3. QED
      BY <3>1, <3>2
  <2>3. QED
    BY <1>26, <2>2 DEF AbandonRead, TypeOK
<1>27. ASSUME NEW l \in Leaver, AbandonCommit(l) PROVE TypeOK'
  <2>1. abandon[l].end \in End \cup {NoEnd}
    BY DEF TypeOK, Pending
  <2>2. row' \in Row
    BY <1>27, <2>1, StoreTypes DEF AbandonCommit, TypeOK
  <2>3. abandon' \in [Leaver -> Pending(AbandonPc)]
    <3>1. CASE session.live /\ NotEnded(row)
      <4>1. abandon' = [abandon EXCEPT ![l].pc = "apply"]
        BY <1>27, <3>1 DEF AbandonCommit
      <4>2. QED
        BY <4>1, TaskType DEF TypeOK, AbandonPc
    <3>2. CASE ~(session.live /\ NotEnded(row))
      BY <1>27, <3>2, RestType DEF AbandonCommit, TypeOK, AbandonPc
    <3>3. QED
      BY <3>1, <3>2
  <2>4. QED
    BY <1>27, <2>2, <2>3 DEF AbandonCommit, TypeOK
<1>28. ASSUME NEW l \in Leaver, AbandonError(l) PROVE TypeOK'
  <2>1. abandon' \in [Leaver -> Pending(AbandonPc)]
    BY <1>28, TaskType, RestType DEF AbandonError, TypeOK, AbandonPc, Leaver
  <2>2. QED
    BY <1>28, <2>1 DEF AbandonError, StoreFails, TypeOK
<1>29. ASSUME NEW l \in Leaver, AbandonApply(l) PROVE TypeOK'
  <2>1. abandon[l].end \in End \cup {NoEnd}
    BY DEF TypeOK, Pending, Sweep
  <2>2. session' \in Session
    BY <1>29, <2>1 DEF AbandonApply, EndInMemory, TypeOK, Session, Lifecycle
  <2>3. sweep' \in Sweep
    BY <1>29 DEF AbandonApply, Touched, TypeOK, Sweep
  <2>4. abandon' \in [Leaver -> Pending(AbandonPc)]
    BY <1>29, TaskType, RestType DEF AbandonApply, TypeOK, AbandonPc, Leaver
  <2>5. QED
    BY <1>29, <2>2, <2>3, <2>4 DEF AbandonApply, TypeOK
<1>30. ASSUME NEW r \in Role, TimerFires(r) PROVE TypeOK'
  <2>1. timer' \in [Role -> Pending(TimerPc)]
    BY <1>30, TaskType, RestType DEF TimerFires, TypeOK, TimerPc
  <2>2. QED
    BY <1>30, <2>1 DEF TimerFires, TypeOK
<1>31. ASSUME NEW r \in Role, TimerRead(r) PROVE TypeOK'
  <2>1. ExpiryEnd("reconnect_timeout") \in End
    BY ExpiryEndType DEF TypeOK, Session, Reason
  <2>2. timer' \in [Role -> Pending(TimerPc)]
    BY <1>31, <2>1, TaskType, RestType DEF TimerRead, TypeOK, TimerPc
  <2>3. QED
    BY <1>31, <2>2 DEF TimerRead, TypeOK
<1>32. ASSUME NEW r \in Role, TimerCommit(r) PROVE TypeOK'
  <2>1. timer[r].end \in End \cup {NoEnd}
    BY DEF TypeOK, Pending
  <2>2. row' \in Row
    BY <1>32, <2>1, StoreTypes DEF TimerCommit, TypeOK
  <2>3. timer' \in [Role -> Pending(TimerPc)]
    BY <1>32, <2>1 DEF TimerCommit, TypeOK, TimerPc, Pending, Idle
  <2>4. QED
    BY <1>32, <2>2, <2>3 DEF TimerCommit, TypeOK
<1>33. ASSUME NEW r \in Role, TimerError(r) PROVE TypeOK'
  <2>1. timer' \in [Role -> Pending(TimerPc)]
    BY <1>33, TaskType, RestType DEF TimerError, TypeOK, TimerPc
  <2>2. QED
    BY <1>33, <2>1 DEF TimerError, StoreFails, TypeOK
<1>34. ASSUME NEW r \in Role, TimerApply(r) PROVE TypeOK'
  <2>1. timer[r].end \in End \cup {NoEnd}
    BY DEF TypeOK, Pending, Sweep
  <2>2. session' \in Session
    BY <1>34, <2>1 DEF TimerApply, EndInMemory, TypeOK, Session, Lifecycle
  <2>3. sweep' \in Sweep
    BY <1>34 DEF TimerApply, Touched, TypeOK, Sweep
  <2>4. timer' \in [Role -> Pending(TimerPc)]
    BY <1>34, TaskType, RestType DEF TimerApply, TypeOK, TimerPc
  <2>5. QED
    BY <1>34, <2>2, <2>3, <2>4 DEF TimerApply, TypeOK
<1>35. CASE SweepPick
  <2>1. CandidateReason \in Reason \cup {"terminal_cleanup", "none"}
    BY DEF CandidateReason, Reason
  <2>2. QED
    BY <1>35, <2>1 DEF SweepPick, SweepIdle, TypeOK, Sweep
<1>36. CASE SweepRecheck
  BY <1>36, IdleType DEF SweepRecheck, TypeOK, Sweep
<1>37. CASE SweepRead
  <2>1. ASSUME sweep.pc = "read" PROVE ExpiryEnd(sweep.reason) \in End
    BY <2>1, ExpiryEndType DEF TypeOK, Session, SweepHasReason
  <2>2. QED
    BY <1>37, <2>1, IdleType DEF SweepRead, TypeOK, Sweep
<1>38. CASE SweepCommit
  <2>1. sweep.end \in End \cup {NoEnd}
    BY DEF TypeOK, Sweep
  <2>2. row' \in Row
    BY <1>38, <2>1, StoreTypes DEF SweepCommit, TypeOK
  <2>3. QED
    BY <1>38, <2>2, IdleType DEF SweepCommit, TypeOK, Sweep
<1>39. CASE SweepError
  BY <1>39, IdleType DEF SweepError, StoreFails, TypeOK
<1>40. CASE SweepApply
  <2>1. sweep.end \in End \cup {NoEnd}
    BY DEF TypeOK, Pending, Sweep
  <2>2. session' \in Session
    BY <1>40, <2>1 DEF SweepApply, EndInMemory, TypeOK, Session, Lifecycle
  <2>3. sweep' \in Sweep
    BY <1>40 DEF SweepApply, Touched, TypeOK, Sweep
  <2>4. QED
    BY <1>40, <2>2, <2>3 DEF SweepApply, TypeOK
<1>41. CASE SweepRemove
  BY <1>41, IdleType, NoSessionType DEF SweepRemove, TypeOK
<1>42. ASSUME NEW d \in Deadline, Elapse(d) PROVE TypeOK'
  BY <1>42 DEF Elapse, TypeOK
<1>43. ASSUME NEW r \in Role, GraceElapses(r) PROVE TypeOK'
  BY <1>43 DEF GraceElapses, TypeOK
<1>44. CASE Crash
  <2>1. /\ socket' \in [Role -> Pending(SocketPc)]
        /\ abandon' \in [Leaver -> Pending(AbandonPc)]
        /\ timer' \in [Role -> Pending(TimerPc)]
    BY <1>44, IdleType DEF Crash, SocketPc, AbandonPc, TimerPc
  <2>2. QED
    BY <1>44, <2>1, IdleType, NoSessionType DEF Crash, TypeOK
<1>45. CASE Restart
  <2>1. row.seats \in SUBSET Role
    BY DEF TypeOK, Row
  <2>2. [r \in row.seats |-> "technical_failure"] \in [row.seats -> Outcome]
    BY DEF Outcome
  <2>3. SessionEnd("technical_failure", [r \in row.seats |-> "technical_failure"]) \in End
    BY <2>1, <2>2 DEF SessionEnd, End, Results, Cause
  <2>4. QED
    BY <1>45, <2>3, StoreTypes DEF Restart, TypeOK
<1>46. CASE Rest
  BY <1>46 DEF Rest, vars, TypeOK
<1>47. QED
  BY <1>1, <1>2, <1>3, <1>4, <1>5, <1>6, <1>7, <1>8, <1>9, <1>10, <1>11, <1>12,
     <1>13, <1>14, <1>15, <1>16, <1>17, <1>18, <1>19, <1>20, <1>21, <1>22, <1>23,
     <1>24, <1>25, <1>26, <1>27, <1>28, <1>29, <1>30, <1>31, <1>32, <1>33, <1>34,
     <1>35, <1>36, <1>37, <1>38, <1>39, <1>40, <1>41, <1>42, <1>43, <1>44, <1>45,
     <1>46 DEF Next

-----------------------------------------------------------------------------
(***************************************************************************)
(* SweepHasReason: expire_live_session matches on the reason of the sweep, *)
(* so that the type of the end it builds depends on this fact.             *)
(***************************************************************************)

\* Only the sweep's own steps, the steps that touch the session and a crash
\* write sweep.
LEMMA SweepReasonStep ==
    ASSUME TypeOK, SweepHasReason, [Next]_vars
    PROVE  SweepHasReason'
<1>1. CASE UNCHANGED sweep
  BY <1>1 DEF SweepHasReason
<1>2. CASE sweep' = Touched
  BY <1>2 DEF SweepHasReason, Touched, TypeOK, Sweep
<1>3. CASE sweep' = SweepIdle
  BY <1>3 DEF SweepHasReason, SweepIdle
<1>4. CASE SweepPick
  BY <1>4 DEF SweepHasReason, SweepPick, SweepIdle
<1>5. CASE SweepRecheck
  BY <1>3, <1>5 DEF SweepHasReason, SweepRecheck, TypeOK, Sweep
<1>6. CASE SweepRead \/ SweepCommit \/ SweepApply
  <2>1. ASSUME sweep.pc \in {"read", "commit", "apply"}, NEW pc, NEW e,
               sweep' = [sweep EXCEPT !.pc = pc, !.end = e]
        PROVE  SweepHasReason'
    BY <2>1 DEF SweepHasReason, TypeOK, Sweep, Reason
  <2>2. ASSUME sweep.pc \in {"read", "commit", "apply"}, NEW pc,
               sweep' = [sweep EXCEPT !.pc = pc]
        PROVE  SweepHasReason'
    BY <2>2 DEF SweepHasReason, TypeOK, Sweep, Reason
  <2>3. CASE SweepRead
    BY <1>3, <2>1, <2>3 DEF SweepRead
  <2>4. CASE SweepCommit
    BY <1>3, <2>2, <2>4 DEF SweepCommit
  <2>5. CASE SweepApply
    BY <2>2, <2>5 DEF SweepApply
  <2>6. QED
    BY <1>6, <2>3, <2>4, <2>5
<1>7. QED
  <2>1. CASE UNCHANGED vars
    BY <1>1, <2>1 DEF vars
  <2>2. ASSUME NEW r \in Role, NEW keepVoice \in BOOLEAN,
               StartApply(r) \/ SubmitApply(r, keepVoice) \/ ChatTouch(r) \/ TimerApply(r)
        PROVE  sweep' \in {sweep, Touched}
    BY <2>2 DEF StartApply, SubmitApply, ChatTouch, TimerApply
  <2>3. ASSUME NEW l \in Leaver, AbandonApply(l) PROVE sweep' \in {sweep, Touched}
    BY <2>3 DEF AbandonApply
  <2>4. CASE SweepError \/ SweepRemove \/ Crash
    BY <1>3, <2>4 DEF SweepError, SweepRemove, Crash
  <2>5. ASSUME NEW r \in Role,
               \/ PersistSeat(r) \/ Connect(r) \/ Greet(r)
               \/ StartRead(r) \/ StartCommit(r) \/ StartError(r)
               \/ SubmitRead(r) \/ SubmitCommit(r) \/ SubmitError(r)
               \/ ChatRead(r) \/ ChatCommit(r) \/ Drop(r) \/ Pause(r) \/ Leave(r)
               \/ TimerFires(r) \/ TimerRead(r) \/ TimerCommit(r) \/ TimerError(r)
               \/ GraceElapses(r)
        PROVE  UNCHANGED sweep
    BY <2>5 DEF PersistSeat, Connect, Greet, StartRead, StartCommit, StartError,
         SubmitRead, SubmitCommit, SubmitError, ChatRead, ChatCommit, Drop, Pause, Leave,
         TimerFires, TimerRead, TimerCommit, TimerError, GraceElapses
  <2>6. ASSUME NEW l \in Leaver, AbandonRead(l) \/ AbandonCommit(l) \/ AbandonError(l)
        PROVE  UNCHANGED sweep
    BY <2>6 DEF AbandonRead, AbandonCommit, AbandonError
  <2>7. CASE \/ CreateFails \/ CreateInsert \/ CreateInitialized \/ CreateInitializationError
             \/ CreateWithdraw \/ JoinFind \/ JoinAdd \/ Restart \/ Rest
             \/ \E d \in Deadline : Elapse(d)
    BY <1>1, <2>7 DEF CreateFails, CreateInsert, CreateInitialized, CreateInitializationError,
         CreateWithdraw, JoinFind, JoinAdd, Restart, Rest, Elapse, vars
  <2>8. QED
    BY <1>1, <1>2, <1>4, <1>5, <1>6, <2>1, <2>2, <2>3, <2>4, <2>5, <2>6, <2>7 DEF Next

\* Every reachable state is well typed, and a sweep that has chosen the
\* session carries the reason it will expire it for.
THEOREM TypeCorrect == Spec => []TypeOK
<1>1. Init => TypeOK /\ SweepHasReason
  BY InitType DEF Init, SweepHasReason, SweepIdle
<1>2. TypeOK /\ SweepHasReason /\ [Next]_vars => (TypeOK /\ SweepHasReason)'
  BY NextType, SweepReasonStep
<1>3. QED
  BY <1>1, <1>2, PTL DEF Spec

-----------------------------------------------------------------------------
(***************************************************************************)
(* The row and its log, from the types and the parts of the inductive      *)
(* invariant that each property needs.                                     *)
(*                                                                         *)
(* Every task writes the row through one of nine transactions.  The proofs *)
(* first say which ones (RowStep), then what each transaction does to the  *)
(* terminal events and to the outcome, and only then go through the steps. *)
(***************************************************************************)
Ends == End \cup {NoEnd}

\* The transactions a step may run on the row.
Transaction(x, y) ==
    \/ y = x
    \/ y = CompleteInitialization(x)
    \/ x.lifecycle = "forming" /\ y = FailInitialization(x, "technical_failure")
    \/ y = StartSession(x)
    \/ \E r \in Role : y = AddSeat(x, r)
    \/ y = AppendEvent(x, "message")
    \/ y = CommitAction(x)
    \/ \E e \in Ends : y = EndSession(x, e)
    \/ \E e \in Ends : y = CommitCompletion(x, e)

\* Every step runs one transaction or leaves the row alone; the event of a
\* failed initialization is written only while the session forms.
LEMMA RowStep ==
    ASSUME TypeOK, NotYetVisible, [Next]_vars
    PROVE  Transaction(row, row')
<1>1. CASE UNCHANGED row
  BY <1>1 DEF Transaction
<1>2. CASE CreateFails
  BY <1>2 DEF CreateFails, NotYetVisible, Transaction
<1>3. CASE CreateInitialized
  BY <1>3 DEF CreateInitialized, Transaction
<1>4. ASSUME NEW r \in Role, PersistSeat(r) PROVE Transaction(row, row')
  BY <1>4 DEF PersistSeat, Transaction
<1>5. ASSUME NEW r \in Role, StartCommit(r) PROVE Transaction(row, row')
  BY <1>5 DEF StartCommit, Transaction
<1>6. ASSUME NEW r \in Role, SubmitCommit(r) PROVE Transaction(row, row')
  <2>1. socket[r].end \in Ends
    BY DEF TypeOK, Pending, Ends
  <2>2. QED
    BY <1>6, <2>1 DEF SubmitCommit, Transaction
<1>7. ASSUME NEW r \in Role, ChatCommit(r) PROVE Transaction(row, row')
  BY <1>7 DEF ChatCommit, Transaction
<1>8. ASSUME NEW l \in Leaver, AbandonCommit(l) PROVE Transaction(row, row')
  <2>1. abandon[l].end \in Ends
    BY DEF TypeOK, Pending, Ends
  <2>2. QED
    BY <1>8, <2>1 DEF AbandonCommit, Transaction
<1>9. ASSUME NEW r \in Role, TimerCommit(r) PROVE Transaction(row, row')
  <2>1. timer[r].end \in Ends
    BY DEF TypeOK, Pending, Ends
  <2>2. QED
    BY <1>9, <2>1 DEF TimerCommit, Transaction
<1>10. CASE SweepCommit
  <2>1. sweep.end \in Ends
    BY DEF TypeOK, Sweep, Ends
  <2>2. QED
    BY <1>10, <2>1 DEF SweepCommit, Transaction
<1>11. CASE Restart
  <2>1. row.seats \in SUBSET Role
    BY DEF TypeOK, Row
  <2>2. [r \in row.seats |-> "technical_failure"] \in [row.seats -> Outcome]
    BY DEF Outcome
  <2>3. SessionEnd("technical_failure", [r \in row.seats |-> "technical_failure"]) \in Ends
    BY <2>1, <2>2 DEF SessionEnd, End, Ends, Results, Cause
  <2>4. QED
    BY <1>11, <2>3 DEF Restart, Transaction
<1>12. QED
  <2>1. CASE UNCHANGED vars
    BY <1>1, <2>1 DEF vars
  <2>2. ASSUME NEW r \in Role, NEW keepVoice \in BOOLEAN,
               \/ Connect(r) \/ Greet(r) \/ StartRead(r) \/ StartError(r) \/ StartApply(r)
               \/ SubmitRead(r) \/ SubmitError(r) \/ SubmitApply(r, keepVoice)
               \/ ChatRead(r) \/ ChatTouch(r) \/ Drop(r) \/ Pause(r) \/ Leave(r)
               \/ TimerFires(r) \/ TimerRead(r) \/ TimerError(r) \/ TimerApply(r)
               \/ GraceElapses(r)
        PROVE  UNCHANGED row
    BY <2>2 DEF Connect, Greet, StartRead, StartError, StartApply, SubmitRead, SubmitError,
         SubmitApply, ChatRead, ChatTouch, Drop, Pause, Leave, TimerFires, TimerRead,
         TimerError, TimerApply, GraceElapses
  <2>3. ASSUME NEW l \in Leaver, AbandonRead(l) \/ AbandonError(l) \/ AbandonApply(l)
        PROVE  UNCHANGED row
    BY <2>3 DEF AbandonRead, AbandonError, AbandonApply
  <2>4. CASE \/ CreateInsert \/ CreateInitializationError \/ CreateWithdraw \/ JoinFind \/ JoinAdd
             \/ SweepPick \/ SweepRecheck \/ SweepRead \/ SweepError \/ SweepApply \/ SweepRemove
             \/ Crash \/ Rest \/ \E d \in Deadline : Elapse(d)
    BY <1>1, <2>4 DEF CreateInsert, CreateInitializationError, CreateWithdraw, JoinFind, JoinAdd,
         SweepPick, SweepRecheck, SweepRead, SweepError, SweepApply, SweepRemove, Crash, Rest,
         Elapse, vars
  <2>5. QED
    BY <1>1, <1>2, <1>3, <1>4, <1>5, <1>6, <1>7, <1>8, <1>9, <1>10, <1>11,
       <2>1, <2>2, <2>3, <2>4 DEF Next

-----------------------------------------------------------------------------
(***************************************************************************)
(* Until the session is inserted no other task knows of it.                *)
(***************************************************************************)

\* Nobody goes back to building the game of a session.
LEMMA BuildIsFirst ==
    ASSUME TypeOK, [Next]_vars, entry'["A"] = "build"
    PROVE  entry["A"] = "build"
<1>1. CASE UNCHANGED entry
  BY <1>1
<1>2. CASE \/ CreateFails \/ CreateInsert \/ CreateInitialized \/ CreateInitializationError
           \/ CreateWithdraw \/ JoinFind \/ JoinAdd \/ Crash
  BY <1>2 DEF CreateFails, CreateInsert, CreateInitialized, CreateInitializationError,
       CreateWithdraw, JoinFind, JoinAdd, Crash, TypeOK, Role
<1>3. ASSUME NEW r \in Role, PersistSeat(r) PROVE entry["A"] = "build"
  BY <1>3 DEF PersistSeat, TypeOK, Role
<1>4. QED
  <2>1. CASE UNCHANGED vars
    BY <1>1, <2>1 DEF vars
  <2>2. ASSUME NEW r \in Role, NEW keepVoice \in BOOLEAN,
               \/ Connect(r) \/ Greet(r) \/ StartRead(r) \/ StartCommit(r) \/ StartError(r)
               \/ StartApply(r) \/ SubmitRead(r) \/ SubmitCommit(r) \/ SubmitError(r)
               \/ SubmitApply(r, keepVoice) \/ ChatRead(r) \/ ChatCommit(r) \/ ChatTouch(r)
               \/ Drop(r) \/ Pause(r) \/ Leave(r) \/ TimerFires(r) \/ TimerRead(r)
               \/ TimerCommit(r) \/ TimerError(r) \/ TimerApply(r) \/ GraceElapses(r)
        PROVE  UNCHANGED entry
    BY <2>2 DEF Connect, Greet, StartRead, StartCommit, StartError, StartApply, SubmitRead,
         SubmitCommit, SubmitError, SubmitApply, ChatRead, ChatCommit, ChatTouch, Drop, Pause,
         Leave, TimerFires, TimerRead, TimerCommit, TimerError, TimerApply, GraceElapses
  <2>3. ASSUME NEW l \in Leaver,
               AbandonRead(l) \/ AbandonCommit(l) \/ AbandonError(l) \/ AbandonApply(l)
        PROVE  UNCHANGED entry
    BY <2>3 DEF AbandonRead, AbandonCommit, AbandonError, AbandonApply
  <2>4. CASE \/ SweepPick \/ SweepRecheck \/ SweepRead \/ SweepCommit \/ SweepError \/ SweepApply
             \/ SweepRemove \/ Restart \/ Rest \/ \E d \in Deadline : Elapse(d)
    BY <1>1, <2>4 DEF SweepPick, SweepRecheck, SweepRead, SweepCommit, SweepError, SweepApply,
         SweepRemove, Restart, Rest, Elapse, vars
  <2>5. QED
    BY <1>1, <1>2, <1>3, <2>1, <2>2, <2>3, <2>4 DEF Next

\* While the game is being built only the creator, a crash and the clocks move.
LEMMA NotYetVisibleStep ==
    ASSUME TypeOK, NotYetVisible, [Next]_vars
    PROVE  NotYetVisible'
<1> SUFFICES ASSUME entry'["A"] = "build" PROVE NotYetVisible'
  BY DEF NotYetVisible
<1>1. entry["A"] = "build"
  BY BuildIsFirst
<1>2. /\ up /\ ~session.live /\ row.lifecycle = "forming"
      /\ entry["B"] = "outside" /\ closing = {} /\ sweep.pc = "idle"
      /\ \A r \in Role : socket[r].pc = "idle" /\ timer[r].pc = "idle"
      /\ \A l \in Leaver : abandon[l].pc = "idle"
  BY <1>1 DEF NotYetVisible
<1>3. CASE UNCHANGED <<row, session, entry, socket, closing, abandon, timer, sweep, up>>
  BY <1>2, <1>3 DEF NotYetVisible
<1>4. CASE CreateFails \/ CreateInsert \/ Crash
  BY <1>4 DEF CreateFails, CreateInsert, Crash, TypeOK, Role
<1>5. CASE CreateInitialized \/ CreateInitializationError \/ CreateWithdraw \/ JoinFind \/ JoinAdd
  BY <1>1, <1>2, <1>5 DEF CreateInitialized, CreateInitializationError, CreateWithdraw,
       JoinFind, JoinAdd
<1>6. ASSUME NEW r \in Role, NEW keepVoice \in BOOLEAN,
             \/ PersistSeat(r) \/ Connect(r) \/ Greet(r) \/ StartRead(r) \/ StartCommit(r)
             \/ StartError(r) \/ StartApply(r) \/ SubmitRead(r) \/ SubmitCommit(r)
             \/ SubmitError(r) \/ SubmitApply(r, keepVoice) \/ ChatRead(r) \/ ChatCommit(r)
             \/ ChatTouch(r) \/ Drop(r) \/ Pause(r) \/ Leave(r) \/ TimerFires(r)
             \/ TimerRead(r) \/ TimerCommit(r) \/ TimerError(r) \/ TimerApply(r)
      PROVE  FALSE
  <2>1. entry[r] # "persist" /\ entry[r] # "member"
    BY <1>1, <1>2 DEF Role
  <2>2. socket[r].pc = "idle" /\ timer[r].pc = "idle" /\ r \notin closing /\ ~session.live
    BY <1>2
  <2>3. QED
    BY <1>6, <2>1, <2>2 DEF PersistSeat, Connect, Greet, StartRead, StartCommit, StartError,
         StartApply, SubmitRead, SubmitCommit, SubmitError, SubmitApply, ChatRead, ChatCommit,
         ChatTouch, Drop, Pause, Leave, TimerFires, TimerRead, TimerCommit, TimerError, TimerApply
<1>7. ASSUME NEW l \in Leaver,
             AbandonRead(l) \/ AbandonCommit(l) \/ AbandonError(l) \/ AbandonApply(l)
      PROVE  FALSE
  BY <1>2, <1>7 DEF AbandonRead, AbandonCommit, AbandonError, AbandonApply
<1>8. CASE \/ SweepPick \/ SweepRecheck \/ SweepRead \/ SweepCommit \/ SweepError
           \/ SweepApply \/ SweepRemove \/ Restart \/ \E d \in Deadline : Elapse(d)
  BY <1>2, <1>8 DEF SweepPick, SweepRecheck, SweepRead, SweepCommit, SweepError, SweepApply,
       SweepRemove, Restart, Elapse
<1>9. ASSUME NEW r \in Role, GraceElapses(r) PROVE NotYetVisible'
  BY <1>3, <1>9 DEF GraceElapses
<1>10. CASE Rest \/ UNCHANGED vars
  BY <1>3, <1>10 DEF Rest, vars
<1>11. QED
  BY <1>4, <1>5, <1>6, <1>7, <1>8, <1>9, <1>10 DEF Next

-----------------------------------------------------------------------------
(***************************************************************************)
(* What the transactions do to the lifecycle, the outcome and the terminal *)
(* events of a row.                                                        *)
(***************************************************************************)
TerminalAt(x) == {i \in DOMAIN x.events : x.events[i] = "terminal"}

TerminalOnce(x) ==
    /\ \A i, j \in TerminalAt(x) : i = j
    /\ x.lifecycle = "ended" <=> TerminalAt(x) # {}

\* The lifecycle of a row only moves forward, and an ended row keeps its
\* cause and its results.
LEMMA TransactionAdvances ==
    ASSUME NEW x \in Row, NEW y, Transaction(x, y)
    PROVE  /\ x.lifecycle # "forming" => y.lifecycle # "forming"
           /\ x.lifecycle = "ended" => /\ y.lifecycle = "ended"
                                       /\ y.cause = x.cause
                                       /\ y.results = x.results
<1>1. CASE y = x
  BY <1>1
<1>2. CASE y = CompleteInitialization(x) \/ y = StartSession(x)
  BY <1>2 DEF CompleteInitialization, StartSession, InitializationOpen, Startable, Row
<1>3. CASE x.lifecycle = "forming" /\ y = FailInitialization(x, "technical_failure")
  BY <1>3
<1>4. CASE (\E r \in Role : y = AddSeat(x, r)) \/ y = AppendEvent(x, "message")
           \/ y = CommitAction(x)
  BY <1>4 DEF AddSeat, AppendEvent, CommitAction, Row
<1>5. CASE \E e \in Ends : y = EndSession(x, e) \/ y = CommitCompletion(x, e)
  <2>1. PICK e \in Ends : y = EndSession(x, e) \/ y = CommitCompletion(x, e)
    BY <1>5
  <2>2. CASE x.lifecycle = "ended"
    BY <2>1, <2>2 DEF EndSession, CommitCompletion, NotEnded
  <2>3. CASE x.lifecycle # "ended"
    <3>1. y.lifecycle = "ended"
      BY <2>1, <2>3 DEF EndSession, CommitCompletion, NotEnded, PersistTerminal, AppendEvent, Row
    <3>2. QED
      BY <2>3, <3>1
  <2>4. QED
    BY <2>2, <2>3
<1>6. QED
  BY <1>1, <1>2, <1>3, <1>4, <1>5 DEF Transaction

\* Appending an event adds a terminal position exactly when it is terminal.
LEMMA AppendTerminal ==
    ASSUME NEW x \in Row, NEW k \in EventKind
    PROVE  LET y == AppendEvent(x, k)
           IN  /\ y.lifecycle = x.lifecycle
               /\ TerminalAt(y) = TerminalAt(x) \cup
                                    (IF k = "terminal" THEN {Len(x.events) + 1} ELSE {})
<1> DEFINE y == AppendEvent(x, k)
<1>1. x.events \in Seq(EventKind) /\ y.events = Append(x.events, k) /\ y.lifecycle = x.lifecycle
  BY DEF AppendEvent, Row
<1>2. /\ DOMAIN y.events = 1..(Len(x.events) + 1) /\ DOMAIN x.events = 1..Len(x.events)
      /\ Len(x.events) \in Nat
      /\ \A i \in 1..Len(x.events) : y.events[i] = x.events[i]
      /\ y.events[Len(x.events) + 1] = k
  BY <1>1
<1>3. QED
  BY <1>1, <1>2 DEF TerminalAt

\* persist_terminal_value adds no event.
LEMMA PersistTerminalEvents ==
    ASSUME NEW x \in Row, NEW e \in Ends
    PROVE  /\ PersistTerminal(x, e).lifecycle = "ended"
           /\ TerminalAt(PersistTerminal(x, e)) = TerminalAt(x)
BY DEF PersistTerminal, TerminalAt, Row

\* A row that had one terminal event exactly when it was ended stays so.
LEMMA TransactionTerminal ==
    ASSUME NEW x \in Row, NEW y, TerminalOnce(x), Transaction(x, y)
    PROVE  TerminalOnce(y)
<1>1. CASE y = x
  BY <1>1
<1>2. CASE y = CompleteInitialization(x) \/ y = StartSession(x)
  <2>1. TerminalAt(y) = TerminalAt(x)
    BY <1>2 DEF CompleteInitialization, StartSession, Row, TerminalAt
  <2>2. y.lifecycle = "ended" <=> x.lifecycle = "ended"
    BY <1>2 DEF CompleteInitialization, StartSession, Startable, Row
  <2>3. QED
    BY <2>1, <2>2 DEF TerminalOnce
<1>3. CASE x.lifecycle = "forming" /\ y = FailInitialization(x, "technical_failure")
  <2>1. /\ y.lifecycle = "ended"
        /\ y.events = AppendEvent(x, "terminal").events
    BY <1>3 DEF FailInitialization, AppendEvent, Row
  <2>2. TerminalAt(y) = TerminalAt(x) \cup {Len(x.events) + 1}
    BY <2>1, AppendTerminal DEF EventKind, TerminalAt
  <2>3. TerminalAt(x) = {}
    BY <1>3 DEF TerminalOnce
  <2>4. QED
    BY <2>1, <2>2, <2>3 DEF TerminalOnce
<1>4. CASE \E r \in Role : y = AddSeat(x, r)
  BY <1>4 DEF AddSeat, Row, TerminalOnce, TerminalAt
<1>5. CASE y = AppendEvent(x, "message")
  BY <1>5, AppendTerminal DEF EventKind, TerminalOnce
<1>6. CASE y = CommitAction(x)
  BY <1>6, AppendTerminal DEF CommitAction, EventKind, TerminalOnce
<1>7. ASSUME NEW e \in Ends, y = EndSession(x, e) PROVE TerminalOnce(y)
  <2>1. CASE x.lifecycle = "ended"
    BY <1>7, <2>1 DEF EndSession, NotEnded
  <2>2. CASE x.lifecycle # "ended"
    <3>1. AppendEvent(x, "terminal") \in Row
      BY StoreTypes DEF EventKind
    <3>2. y = PersistTerminal(AppendEvent(x, "terminal"), e)
      BY <1>7, <2>2 DEF EndSession, NotEnded
    <3>3. y.lifecycle = "ended" /\ TerminalAt(y) = TerminalAt(x) \cup {Len(x.events) + 1}
      BY <3>1, <3>2, PersistTerminalEvents, AppendTerminal DEF EventKind
    <3>4. TerminalAt(x) = {}
      BY <2>2 DEF TerminalOnce
    <3>5. QED
      BY <3>3, <3>4 DEF TerminalOnce
  <2>3. QED
    BY <2>1, <2>2
<1>8. ASSUME NEW e \in Ends, y = CommitCompletion(x, e) PROVE TerminalOnce(y)
  <2>1. CASE x.lifecycle = "ended"
    BY <1>8, <2>1 DEF CommitCompletion, NotEnded
  <2>2. CASE x.lifecycle # "ended"
    <3> DEFINE a == AppendEvent(x, "action")
               b == AppendEvent(a, "terminal")
    <3>1. a \in Row
      BY StoreTypes DEF EventKind
    <3>2. b \in Row
      BY <3>1, StoreTypes DEF EventKind
    <3>3. b = [x EXCEPT !.events = @ \o <<"action", "terminal">>]
      <4>1. x.events \in Seq(EventKind) /\ "action" \in EventKind /\ "terminal" \in EventKind
        BY DEF Row, EventKind
      <4>2. Append(Append(x.events, "action"), "terminal") = x.events \o <<"action", "terminal">>
        BY <4>1
      <4>3. QED
        BY <4>2 DEF AppendEvent, Row
    <3>4. y = PersistTerminal(b, e)
      BY <1>8, <2>2, <3>3 DEF CommitCompletion, NotEnded
    <3>5. y.lifecycle = "ended" /\ TerminalAt(y) = TerminalAt(b)
      BY <3>2, <3>4, PersistTerminalEvents
    <3>6. TerminalAt(a) = TerminalAt(x)
      BY AppendTerminal DEF EventKind
    <3>7. TerminalAt(b) = TerminalAt(a) \cup {Len(a.events) + 1}
      BY <3>1, AppendTerminal DEF EventKind
    <3>8. TerminalAt(x) = {}
      BY <2>2 DEF TerminalOnce
    <3> HIDE DEF a, b
    <3>9. TerminalAt(y) = {Len(a.events) + 1}
      BY <3>5, <3>6, <3>7, <3>8
    <3>10. QED
      BY <3>5, <3>9 DEF TerminalOnce
  <2>3. QED
    BY <2>1, <2>2
<1>9. QED
  BY <1>1, <1>2, <1>3, <1>4, <1>5, <1>6, <1>7, <1>8 DEF Transaction

-----------------------------------------------------------------------------
(***************************************************************************)
(* One terminal event, and an outcome that never changes.                  *)
(***************************************************************************)
RowInv == TypeOK /\ SweepHasReason /\ NotYetVisible /\ OneTerminalEvent

\* OneTerminalEvent is what the transactions preserve.
LEMMA OneTerminalEventAsRow ==
    /\ OneTerminalEvent <=> TerminalOnce(row)
    /\ OneTerminalEvent' <=> TerminalOnce(row')
BY DEF OneTerminalEvent, TerminalOnce, Positions, TerminalAt

\* RowInv is inductive.
LEMMA RowInvariant == Spec => []RowInv
<1>1. Init => RowInv
  <2> SUFFICES ASSUME Init PROVE RowInv
    OBVIOUS
  <2>1. SweepHasReason /\ NotYetVisible
    BY DEF Init, SweepHasReason, SweepIdle, NotYetVisible, NoSession, NewRow, Idle, Role
  <2>2. TerminalOnce(row)
    BY DEF Init, NewRow, TerminalOnce, TerminalAt
  <2>3. QED
    BY <2>1, <2>2, InitType, OneTerminalEventAsRow DEF RowInv
<1>2. RowInv /\ [Next]_vars => RowInv'
  <2> SUFFICES ASSUME RowInv, [Next]_vars PROVE RowInv'
    OBVIOUS
  <2>1. TypeOK' /\ SweepHasReason' /\ NotYetVisible'
    BY NextType, SweepReasonStep, NotYetVisibleStep DEF RowInv
  <2>2. row \in Row /\ Transaction(row, row')
    BY RowStep DEF RowInv, TypeOK
  <2>3. TerminalOnce(row)
    BY OneTerminalEventAsRow DEF RowInv
  <2>4. TerminalOnce(row')
    BY <2>2, <2>3, TransactionTerminal
  <2>5. QED
    BY <2>1, <2>4, OneTerminalEventAsRow DEF RowInv
<1>3. QED
  BY <1>1, <1>2, PTL DEF Spec

\* However the tasks race to end a session, its log has one terminal event,
\* and it has it exactly when the row says ended.
THEOREM TerminalEventIsUnique == Spec => []OneTerminalEvent
<1>1. RowInv => OneTerminalEvent
  BY DEF RowInv
<1>2. QED
  BY <1>1, RowInvariant, PTL

\* Cause and results of an ended session never change: not by a second task
\* that ends it, not by a participant row that comes late, not by a restart.
THEOREM OutcomeIsFinal == Spec => OutcomeIsImmutable
<1>1. RowInv /\ [Next]_vars =>
        [row.lifecycle = "ended" => /\ row'.lifecycle = "ended"
                                    /\ row'.cause = row.cause
                                    /\ row'.results = row.results]_vars
  <2> SUFFICES ASSUME RowInv, [Next]_vars, row.lifecycle = "ended"
               PROVE  /\ row'.lifecycle = "ended"
                      /\ row'.cause = row.cause
                      /\ row'.results = row.results
    OBVIOUS
  <2>1. row \in Row /\ Transaction(row, row')
    BY RowStep DEF RowInv, TypeOK
  <2>2. QED
    BY <2>1, TransactionAdvances
<1>2. QED
  BY <1>1, RowInvariant, PTL DEF Spec, OutcomeIsImmutable

-----------------------------------------------------------------------------
(***************************************************************************)
(* The store comes first.                                                  *)
(***************************************************************************)

\* One step per action that writes memory or moves a task; every step may
\* use that the row only moves forward.
LEMMA DurableFirstStep ==
    ASSUME TypeOK, NotYetVisible, DurableFirst, [Next]_vars
    PROVE  DurableFirst'
<1>1. /\ row.lifecycle # "forming" => row'.lifecycle # "forming"
      /\ row.lifecycle = "ended" => row'.lifecycle = "ended"
  <2>1. row \in Row /\ Transaction(row, row')
    BY RowStep DEF TypeOK
  <2>2. QED
    BY <2>1, TransactionAdvances
<1>2. CASE UNCHANGED <<session, socket, timer, abandon, sweep>>
  BY <1>1, <1>2 DEF DurableFirst, DurableBeforeVisible, Ended, TypeOK, Session
<1>3. CASE CreateInsert
  BY <1>1, <1>3 DEF CreateInsert, NoSession, Session, DurableFirst, DurableBeforeVisible, Ended,
       TypeOK
<1>4. CASE CreateWithdraw
  BY <1>1, <1>4 DEF CreateWithdraw, NoSession, DurableFirst, DurableBeforeVisible, Ended, TypeOK
<1>5. CASE JoinAdd
  BY <1>1, <1>5 DEF JoinAdd, Session, DurableFirst, DurableBeforeVisible, Ended, TypeOK
<1>6. ASSUME NEW r \in Role, Connect(r) PROVE DurableFirst'
  BY <1>1, <1>6 DEF Connect, SetSocket, Session, Pending, NoEnd, SessionEnd, DurableFirst,
       DurableBeforeVisible, Ended, TypeOK
<1>7. ASSUME NEW r \in Role, Greet(r) PROVE DurableFirst'
  BY <1>1, <1>7 DEF Greet, SetSocket, Pending, DurableFirst, DurableBeforeVisible, Ended, TypeOK
<1>8. ASSUME NEW r \in Role, StartRead(r) PROVE DurableFirst'
  BY <1>1, <1>8 DEF StartRead, SetSocket, SocketReturns, Pending, DurableFirst,
       DurableBeforeVisible, Ended, TypeOK
<1>9. ASSUME NEW r \in Role, StartCommit(r) PROVE DurableFirst'
  <2>1. row' = StartSession(row) /\ row \in Row
    BY <1>9 DEF StartCommit, TypeOK
  <2>2. Startable(row) => row'.lifecycle = "running"
    BY <2>1 DEF StartSession, Row
  <2>3. \A q \in Role : socket'[q].pc \in {"startApply", "actCommit", "actApply"} =>
                          socket'[q] = socket[q] \/ (socket'[q].pc = "startApply" /\ Startable(row))
    BY <1>9 DEF StartCommit, SetSocket, SocketReturns, TypeOK, Pending
  <2>4. UNCHANGED <<session, timer, abandon, sweep>>
    BY <1>9 DEF StartCommit
  <2>5. QED
    BY <1>1, <2>2, <2>3, <2>4 DEF DurableFirst, DurableBeforeVisible, Ended
<1>10. ASSUME NEW r \in Role, StartError(r) PROVE DurableFirst'
  BY <1>1, <1>10 DEF StartError, SetSocket, SocketReturns, Pending, DurableFirst,
       DurableBeforeVisible, Ended, TypeOK
<1>11. ASSUME NEW r \in Role, StartApply(r) PROVE DurableFirst'
  BY <1>1, <1>11 DEF StartApply, SetSocket, SocketReturns, Touched, Session, Sweep, Pending,
       DurableFirst, DurableBeforeVisible, Ended, TypeOK
<1>12. ASSUME NEW r \in Role, SubmitRead(r) PROVE DurableFirst'
  BY <1>1, <1>12 DEF SubmitRead, ReadyForGame, Pending, DurableFirst, DurableBeforeVisible, Ended,
       TypeOK
<1>13. ASSUME NEW r \in Role, SubmitCommit(r) PROVE DurableFirst'
  <2>1. socket[r].pc = "actCommit" /\ row \in Row
    BY <1>13 DEF SubmitCommit, TypeOK
  <2>2. session.live /\ socket[r].end # NoEnd => row'.lifecycle = "ended"
    BY <1>13, <2>1 DEF SubmitCommit, CommitCompletion, NotEnded, PersistTerminal, Row
  <2>3. \A q \in Role : q # r => socket'[q] = socket[q]
    BY <1>13 DEF SubmitCommit, SetSocket, SocketReturns, TypeOK
  <2>4. CASE session.live
    <3>1. socket'[r].pc = "actApply" /\ socket'[r].end = socket[r].end
      BY <1>13, <2>4 DEF SubmitCommit, TypeOK, Pending
    <3>2. QED
      BY <1>1, <1>13, <2>1, <2>2, <2>3, <2>4, <3>1
         DEF SubmitCommit, DurableFirst, DurableBeforeVisible, Ended
  <2>5. CASE ~session.live
    <3>1. socket'[r].pc = "open"
      BY <1>13, <2>5 DEF SubmitCommit, SetSocket, SocketReturns, TypeOK, Pending
    <3>2. QED
      BY <1>1, <1>13, <2>3, <2>5, <3>1 DEF SubmitCommit, DurableFirst, DurableBeforeVisible, Ended
  <2>6. QED
    BY <2>4, <2>5
<1>14. ASSUME NEW r \in Role, SubmitError(r) PROVE DurableFirst'
  BY <1>1, <1>14 DEF SubmitError, SetSocket, SocketReturns, Pending, DurableFirst,
       DurableBeforeVisible, Ended, TypeOK
<1>15. ASSUME NEW r \in Role, NEW keepVoice \in BOOLEAN, SubmitApply(r, keepVoice)
       PROVE  DurableFirst'
  BY <1>1, <1>15 DEF SubmitApply, SetSocket, SocketReturns, Touched, Session, Sweep, Pending,
       DurableFirst, DurableBeforeVisible, Ended, TypeOK
<1>16. ASSUME NEW r \in Role, ChatRead(r) PROVE DurableFirst'
  BY <1>1, <1>16 DEF ChatRead, SetSocket, Pending, DurableFirst, DurableBeforeVisible, Ended, TypeOK
<1>17. ASSUME NEW r \in Role, ChatCommit(r) PROVE DurableFirst'
  BY <1>1, <1>17 DEF ChatCommit, SetSocket, Session, Pending, DurableFirst, DurableBeforeVisible,
       Ended, TypeOK
<1>18. ASSUME NEW r \in Role, ChatTouch(r) PROVE DurableFirst'
  BY <1>1, <1>18 DEF ChatTouch, SetSocket, Touched, Sweep, Pending, DurableFirst,
       DurableBeforeVisible, Ended, TypeOK
<1>19. ASSUME NEW r \in Role, Drop(r) PROVE DurableFirst'
  <2>1. \A l \in Leaver : abandon'[l].pc = "apply" => abandon[l].pc = "apply"
    <3>1. CASE UNCHANGED abandon
      BY <3>1
    <3>2. CASE abandon' = [abandon EXCEPT ![<<"lost", r>>].pc = "read"]
      BY <3>2 DEF TypeOK, Pending
    <3>3. QED
      BY <1>19, <3>1, <3>2 DEF Drop
  <2>2. \A q \in Role : socket'[q].pc \in {"startApply", "actCommit", "actApply"} =>
                          socket'[q] = socket[q]
    BY <1>19 DEF Drop, SetSocket, TypeOK, Pending
  <2>3. session'.live = session.live /\ session'.lifecycle = session.lifecycle
    BY <1>19 DEF Drop, TypeOK, Session
  <2>4. UNCHANGED <<row, timer, sweep>>
    BY <1>19 DEF Drop
  <2>5. QED
    BY <2>1, <2>2, <2>3, <2>4 DEF DurableFirst, DurableBeforeVisible, Ended
<1>20. ASSUME NEW r \in Role, Pause(r) PROVE DurableFirst'
  BY <1>1, <1>20 DEF Pause, Session, Pending, DurableFirst, DurableBeforeVisible, Ended, TypeOK
<1>21. ASSUME NEW r \in Role, Leave(r) PROVE DurableFirst'
  BY <1>1, <1>21 DEF Leave, Pending, DurableFirst, DurableBeforeVisible, Ended, TypeOK
<1>22. ASSUME NEW r \in Role, TimerFires(r) PROVE DurableFirst'
  BY <1>1, <1>22 DEF TimerFires, Pending, DurableFirst, DurableBeforeVisible, Ended, TypeOK
<1>23. ASSUME NEW r \in Role, TimerRead(r) PROVE DurableFirst'
  BY <1>1, <1>23 DEF TimerRead, Idle, Pending, DurableFirst, DurableBeforeVisible, Ended, TypeOK
<1>24. ASSUME NEW r \in Role, TimerCommit(r) PROVE DurableFirst'
  BY <1>1, <1>24 DEF TimerCommit, Idle, EndSession, NotEnded, PersistTerminal, AppendEvent, Row,
       Pending, DurableFirst, DurableBeforeVisible, Ended, TypeOK
<1>25. ASSUME NEW r \in Role, TimerError(r) PROVE DurableFirst'
  BY <1>1, <1>25 DEF TimerError, Idle, Pending, DurableFirst, DurableBeforeVisible, Ended, TypeOK
<1>26. ASSUME NEW r \in Role, TimerApply(r) PROVE DurableFirst'
  BY <1>1, <1>26 DEF TimerApply, Idle, EndInMemory, Touched, Session, Sweep, Pending,
       DurableFirst, DurableBeforeVisible, Ended, TypeOK
<1>27. ASSUME NEW l \in Leaver, AbandonRead(l) PROVE DurableFirst'
  BY <1>1, <1>27 DEF AbandonRead, Idle, Pending, DurableFirst, DurableBeforeVisible, Ended, TypeOK
<1>28. ASSUME NEW l \in Leaver, AbandonCommit(l) PROVE DurableFirst'
  BY <1>1, <1>28 DEF AbandonCommit, Idle, EndSession, NotEnded, PersistTerminal, AppendEvent, Row,
       Pending, DurableFirst, DurableBeforeVisible, Ended, TypeOK
<1>29. ASSUME NEW l \in Leaver, AbandonError(l) PROVE DurableFirst'
  BY <1>1, <1>29 DEF AbandonError, Idle, Pending, DurableFirst, DurableBeforeVisible, Ended, TypeOK
<1>30. ASSUME NEW l \in Leaver, AbandonApply(l) PROVE DurableFirst'
  BY <1>1, <1>30 DEF AbandonApply, Idle, EndInMemory, Touched, Session, Sweep, Pending,
       DurableFirst, DurableBeforeVisible, Ended, TypeOK
<1>31. CASE SweepPick
  BY <1>1, <1>31 DEF SweepPick, SweepIdle, DurableFirst, DurableBeforeVisible, Ended, TypeOK
<1>32. CASE SweepRecheck
  BY <1>1, <1>32 DEF SweepRecheck, SweepIdle, Sweep, DurableFirst, DurableBeforeVisible, Ended,
       TypeOK
<1>33. CASE SweepRead
  BY <1>1, <1>33 DEF SweepRead, SweepIdle, Sweep, DurableFirst, DurableBeforeVisible, Ended, TypeOK
<1>34. CASE SweepCommit
  BY <1>1, <1>34 DEF SweepCommit, SweepIdle, EndSession, NotEnded, PersistTerminal, AppendEvent,
       Row, Sweep, DurableFirst, DurableBeforeVisible, Ended, TypeOK
<1>35. CASE SweepError
  BY <1>1, <1>35 DEF SweepError, SweepIdle, DurableFirst, DurableBeforeVisible, Ended, TypeOK
<1>36. CASE SweepApply
  BY <1>1, <1>36 DEF SweepApply, EndInMemory, Session, Sweep, DurableFirst, DurableBeforeVisible,
       Ended, TypeOK
<1>37. CASE SweepRemove
  BY <1>1, <1>37 DEF SweepRemove, NoSession, SweepIdle, DurableFirst, DurableBeforeVisible, Ended,
       TypeOK
<1>38. CASE Crash
  BY <1>1, <1>38 DEF Crash, NoSession, Idle, SweepIdle, DurableFirst, DurableBeforeVisible, Ended,
       TypeOK
<1>39. QED
  <2>1. CASE \/ CreateFails \/ CreateInitialized \/ CreateInitializationError \/ JoinFind
             \/ Restart \/ Rest \/ UNCHANGED vars \/ \E d \in Deadline : Elapse(d)
    BY <1>2, <2>1 DEF CreateFails, CreateInitialized, CreateInitializationError, JoinFind,
         Restart, Rest, Elapse, vars
  <2>2. ASSUME NEW r \in Role, PersistSeat(r) \/ GraceElapses(r) PROVE DurableFirst'
    BY <1>2, <2>2 DEF PersistSeat, GraceElapses
  <2>3. QED
    BY <1>3, <1>4, <1>5, <1>6, <1>7, <1>8, <1>9, <1>10, <1>11, <1>12, <1>13, <1>14,
       <1>15, <1>16, <1>17, <1>18, <1>19, <1>20, <1>21, <1>22, <1>23, <1>24, <1>25,
       <1>26, <1>27, <1>28, <1>29, <1>30, <1>31, <1>32, <1>33, <1>34, <1>35, <1>36,
       <1>37, <1>38, <2>1, <2>2 DEF Next

\* No client is shown a running or an ended session before the row says so,
\* for all interleavings of the tasks and any number of lost connections,
\* failed store calls and crashes.
THEOREM StoreComesFirst == Spec => []DurableBeforeVisible
<1>1. Init => DurableFirst
  BY DEF Init, DurableFirst, DurableBeforeVisible, NoSession, Idle, SweepIdle
<1>2. RowInv /\ DurableFirst /\ [Next]_vars => DurableFirst'
  BY DurableFirstStep DEF RowInv
<1>3. DurableFirst => DurableBeforeVisible
  BY DEF DurableFirst
<1>4. QED
  BY <1>1, <1>2, <1>3, RowInvariant, PTL DEF Spec

-----------------------------------------------------------------------------
(***************************************************************************)
(* The whole inductive invariant, and what follows from it: an end         *)
(* committed under the transition Mutex is the end memory shows, the log   *)
(* counts the moves, and the durable row implements SessionOutcome.        *)
(***************************************************************************)
\* Tasks that hold the Mutex are told apart by their names.
LEMMA Names ==
    /\ \A r \in Role : Free # <<"socket", r>>
    /\ \A l \in Leaver : Free # l
    /\ \A r \in Role, l \in Leaver : <<"socket", r>> # l
    /\ \A r, q \in Role : <<"socket", r>> = <<"socket", q>> => r = q
BY DEF Free, Leaver, Role

-----------------------------------------------------------------------------
(***************************************************************************)
(* The steps by the task that takes them, and what each task leaves alone. *)
(***************************************************************************)
EntryStep ==
    \/ CreateFails \/ CreateInsert \/ CreateInitialized \/ CreateInitializationError
    \/ CreateWithdraw \/ JoinFind \/ JoinAdd \/ \E r \in Role : PersistSeat(r)

SocketOf(r) ==
    \/ Connect(r) \/ Greet(r) \/ StartRead(r) \/ StartCommit(r) \/ StartError(r) \/ StartApply(r)
    \/ SubmitRead(r) \/ SubmitCommit(r) \/ SubmitError(r)
    \/ \E keepVoice \in BOOLEAN : SubmitApply(r, keepVoice)
    \/ ChatRead(r) \/ ChatCommit(r) \/ ChatTouch(r)

TimerOf(r) == TimerFires(r) \/ TimerRead(r) \/ TimerCommit(r) \/ TimerError(r) \/ TimerApply(r)

AbandonOf(l) == AbandonRead(l) \/ AbandonCommit(l) \/ AbandonError(l) \/ AbandonApply(l)

SweepOf ==
    \/ SweepPick \/ SweepRecheck \/ SweepRead \/ SweepCommit \/ SweepError
    \/ SweepApply \/ SweepRemove

\* Time passes, the process starts again, or nothing happens.
Outside ==
    \/ Restart \/ Rest \/ UNCHANGED vars
    \/ (\E d \in Deadline : Elapse(d)) \/ \E r \in Role : GraceElapses(r)

\* Every step belongs to one of the tasks.
LEMMA Tasks ==
    ASSUME [Next]_vars
    PROVE  \/ EntryStep \/ SweepOf \/ Crash \/ Outside
           \/ \E r \in Role : SocketOf(r) \/ TimerOf(r) \/ Drop(r) \/ Pause(r) \/ Leave(r)
           \/ \E l \in Leaver : AbandonOf(l)
BY DEF Next, EntryStep, SocketOf, TimerOf, AbandonOf, SweepOf, Outside

\* What is private to a task is written by no other.
LEMMA Frames ==
    /\ EntryStep => UNCHANGED <<lock, socket, closing, abandon, timer, sweep, due, up>>
    /\ \A r \in Role : SocketOf(r) => UNCHANGED <<entry, closing, abandon, timer, up>>
    /\ \A r \in Role : TimerOf(r) => UNCHANGED <<lock, entry, socket, closing, abandon, due, up>>
    /\ \A r \in Role : Drop(r) => UNCHANGED <<row, lock, entry, timer, sweep, due, up>>
    /\ \A r \in Role : Pause(r) => UNCHANGED <<row, lock, entry, socket, abandon, sweep, due, up>>
    /\ \A r \in Role : Leave(r) =>
           UNCHANGED <<row, session, lock, entry, socket, closing, timer, sweep, due, up>>
    /\ \A l \in Leaver : AbandonOf(l) => UNCHANGED <<entry, socket, closing, timer, due, up>>
    /\ SweepOf => UNCHANGED <<lock, entry, socket, closing, abandon, timer, due, up>>
    /\ Outside => UNCHANGED <<session, lock, entry, socket, closing, abandon, timer, sweep>>
<1>1. EntryStep => UNCHANGED <<lock, socket, closing, abandon, timer, sweep, due, up>>
  BY DEF EntryStep, CreateFails, CreateInsert, CreateInitialized, CreateInitializationError,
       CreateWithdraw, JoinFind, JoinAdd, PersistSeat
<1>2. ASSUME NEW r \in Role, SocketOf(r) PROVE UNCHANGED <<entry, closing, abandon, timer, up>>
  BY <1>2 DEF SocketOf, Connect, Greet, StartRead, StartCommit, StartError, StartApply, SubmitRead,
       SubmitCommit, SubmitError, SubmitApply, ChatRead, ChatCommit, ChatTouch
<1>3. ASSUME NEW r \in Role, TimerOf(r)
      PROVE  UNCHANGED <<lock, entry, socket, closing, abandon, due, up>>
  BY <1>3 DEF TimerOf, TimerFires, TimerRead, TimerCommit, TimerError, TimerApply
<1>4. ASSUME NEW r \in Role
      PROVE  /\ Drop(r) => UNCHANGED <<row, lock, entry, timer, sweep, due, up>>
             /\ Pause(r) => UNCHANGED <<row, lock, entry, socket, abandon, sweep, due, up>>
             /\ Leave(r) => UNCHANGED <<row, session, lock, entry, socket, closing, timer, sweep, due, up>>
  BY DEF Drop, Pause, Leave
<1>5. ASSUME NEW l \in Leaver, AbandonOf(l)
      PROVE  UNCHANGED <<entry, socket, closing, timer, due, up>>
  BY <1>5 DEF AbandonOf, AbandonRead, AbandonCommit, AbandonError, AbandonApply
<1>6. SweepOf => UNCHANGED <<lock, entry, socket, closing, abandon, timer, due, up>>
  BY DEF SweepOf, SweepPick, SweepRecheck, SweepRead, SweepCommit, SweepError, SweepApply,
       SweepRemove
<1>7. Outside => UNCHANGED <<session, lock, entry, socket, closing, abandon, timer, sweep>>
  BY DEF Outside, Restart, Rest, Elapse, GraceElapses, vars
<1>8. QED
  BY <1>1, <1>2, <1>3, <1>4, <1>5, <1>6, <1>7

-----------------------------------------------------------------------------
(***************************************************************************)
(* Mutual exclusion.                                                       *)
(***************************************************************************)
Locked == {"startCommit", "startApply", "actCommit", "actApply"}

\* Whoever is between acquiring and releasing the Mutex holds it: no two
\* tasks are there at the same time.
LEMMA MutexHeldStep ==
    ASSUME TypeOK, MutexHeld, [Next]_vars
    PROVE  MutexHeld'
<1> USE Names DEF MutexHeld
<1>1. CASE UNCHANGED <<lock, socket, abandon>>
  BY <1>1
<1>2. ASSUME NEW r \in Role,
             Connect(r) \/ Greet(r) \/ ChatRead(r) \/ ChatCommit(r) \/ ChatTouch(r)
      PROVE  MutexHeld'
  <2>1. \E pc \in SocketPc \ Locked : SetSocket(r, pc)
    BY <1>2 DEF Connect, Greet, ChatRead, ChatCommit, ChatTouch, SocketPc, Locked
  <2>2. UNCHANGED <<lock, abandon>>
    BY <1>2 DEF Connect, Greet, ChatRead, ChatCommit, ChatTouch
  <2>3. QED
    BY <2>1, <2>2 DEF SetSocket, TypeOK, Locked
<1>3. ASSUME NEW r \in Role, NEW keepVoice \in BOOLEAN,
             \/ StartRead(r) \/ StartCommit(r) \/ StartError(r) \/ StartApply(r)
             \/ SubmitRead(r) \/ SubmitCommit(r) \/ SubmitError(r) \/ SubmitApply(r, keepVoice)
      PROVE  MutexHeld'
  <2> USE DEF TypeOK, Pending
  <2>1. CASE StartRead(r)
    BY <2>1 DEF StartRead, SetSocket, SocketReturns
  <2>2. CASE StartCommit(r)
    BY <2>2 DEF StartCommit, SetSocket, SocketReturns
  <2>3. CASE SubmitRead(r)
    BY <2>3 DEF SubmitRead
  <2>4. CASE SubmitCommit(r)
    BY <2>4 DEF SubmitCommit, SetSocket, SocketReturns
  <2>5. CASE StartError(r) \/ StartApply(r) \/ SubmitError(r) \/ SubmitApply(r, keepVoice)
    <3>1. SocketReturns(r) /\ socket[r].pc \in Locked /\ UNCHANGED abandon
      BY <2>5 DEF StartError, StartApply, SubmitError, SubmitApply, Locked
    <3>2. QED
      BY <3>1 DEF SocketReturns, SetSocket, Locked
  <2>6. QED
    BY <1>3, <2>1, <2>2, <2>3, <2>4, <2>5
<1>4. ASSUME NEW r \in Role, Drop(r) PROVE MutexHeld'
  <2>1. \A q \in Role : socket'[q].pc \in Locked => socket[q].pc \in Locked
    BY <1>4 DEF Drop, SetSocket, TypeOK, Pending, Locked
  <2>2. \A l \in Leaver : abandon'[l].pc \in {"commit", "apply"} => abandon[l].pc = abandon'[l].pc
    <3>1. CASE UNCHANGED abandon
      BY <3>1
    <3>2. CASE abandon' = [abandon EXCEPT ![<<"lost", r>>].pc = "read"]
      BY <3>2 DEF TypeOK, Pending
    <3>3. QED
      BY <1>4, <3>1, <3>2 DEF Drop
  <2>3. QED
    BY <1>4, <2>1, <2>2 DEF Drop, Locked
<1>5. ASSUME NEW r \in Role, Leave(r) PROVE MutexHeld'
  BY <1>5 DEF Leave, TypeOK, Pending
<1>6. ASSUME NEW l \in Leaver,
             AbandonRead(l) \/ AbandonCommit(l) \/ AbandonError(l) \/ AbandonApply(l)
      PROVE  MutexHeld'
  BY <1>6 DEF AbandonRead, AbandonCommit, AbandonError, AbandonApply, Idle, TypeOK, Pending
<1>7. CASE Crash
  BY <1>7 DEF Crash, Idle
<1>8. QED
  BY <1>1, <1>2, <1>3, <1>4, <1>5, <1>6, <1>7, Tasks, Frames DEF SocketOf, AbandonOf

-----------------------------------------------------------------------------
(***************************************************************************)
(* The ends that tasks have planned.                                       *)
(***************************************************************************)

\* The result a role is given fits the cause, whichever task plans the end.
LEMMA PlansFitTheirCause ==
    /\ CompletedEnd.cause = "game_completed" /\ Fits(CompletedEnd)
    /\ \A l \in Leaver : /\ AbandonEnd(l).cause \in {"participant_left", "reconnect_timed_out"}
                         /\ Fits(AbandonEnd(l))
    /\ \A reason \in Reason : /\ ExpiryEnd(reason).cause = ExpiryCause(reason)
                              /\ Fits(ExpiryEnd(reason))
<1>1. CompletedEnd.cause = "game_completed" /\ Fits(CompletedEnd)
  BY DEF CompletedEnd, SessionEnd, Fits, Abstract!OutcomesOf
<1>2. ASSUME NEW l \in Leaver
      PROVE  /\ AbandonEnd(l).cause \in {"participant_left", "reconnect_timed_out"}
             /\ Fits(AbandonEnd(l))
  <2>1. l[1] \in {"leave", "lost"}
    BY DEF Leaver
  <2>2. CASE l[1] = "lost"
    <3>1. AbandonEnd(l).cause = "reconnect_timed_out"
      BY <2>2 DEF AbandonEnd, SessionEnd
    <3>2. \A r \in DOMAIN AbandonEnd(l).results :
            AbandonEnd(l).results[r] \in {"connection_lost", "partner_left"}
      BY <2>2 DEF AbandonEnd, SessionEnd
    <3>3. QED
      BY <3>1, <3>2 DEF Fits, Abstract!OutcomesOf
  <2>3. CASE l[1] = "leave"
    BY <2>3 DEF AbandonEnd, SessionEnd, Fits, Abstract!OutcomesOf
  <2>4. QED
    BY <2>1, <2>2, <2>3
<1>3. ASSUME NEW reason \in Reason
      PROVE  /\ ExpiryEnd(reason).cause = ExpiryCause(reason)
             /\ Fits(ExpiryEnd(reason))
  <2>1. ExpiryEnd(reason).cause = ExpiryCause(reason)
    BY DEF ExpiryEnd, SessionEnd
  <2>2. \A r \in session.seats :
          ExpiryOutcome(reason, r) \in Abstract!OutcomesOf(ExpiryCause(reason))
    BY DEF ExpiryOutcome, ExpiryCause, Reason, Abstract!OutcomesOf
  <2>3. QED
    BY <2>1, <2>2 DEF ExpiryEnd, SessionEnd, Fits
<1>4. QED
  BY <1>1, <1>2, <1>3

\* A socket plans only the end of a completed game.
LEMMA SocketPlans ==
    ASSUME TypeOK, [Next]_vars
    PROVE  \A q \in Role : socket'[q].end \in {NoEnd, socket[q].end, CompletedEnd}
<1> DEFINE Goal == \A q \in Role : socket'[q].end \in {NoEnd, socket[q].end, CompletedEnd}
<1>1. CASE UNCHANGED socket
  BY <1>1
<1>2. ASSUME NEW r \in Role, NEW pc, SetSocket(r, pc) PROVE Goal
  BY <1>2 DEF SetSocket, TypeOK
<1>3. ASSUME NEW r \in Role, NEW keepVoice \in BOOLEAN,
             \/ Connect(r) \/ Greet(r) \/ StartRead(r) \/ StartCommit(r) \/ StartError(r)
             \/ StartApply(r) \/ SubmitError(r) \/ SubmitApply(r, keepVoice)
             \/ ChatRead(r) \/ ChatCommit(r) \/ ChatTouch(r) \/ Drop(r)
      PROVE  \E pc \in SocketPc : SetSocket(r, pc)
  BY <1>3 DEF Connect, Greet, StartRead, StartCommit, StartError, StartApply, SubmitError,
       SubmitApply, ChatRead, ChatCommit, ChatTouch, Drop, SocketReturns, SocketPc
<1>4. ASSUME NEW r \in Role, SubmitRead(r) PROVE Goal
  BY <1>4 DEF SubmitRead, PlannedEnd, TypeOK
<1>5. ASSUME NEW r \in Role, SubmitCommit(r) PROVE Goal
  BY <1>2, <1>5 DEF SubmitCommit, SocketReturns, TypeOK, Pending
<1>6. CASE Crash
  BY <1>6 DEF Crash, Idle
<1>7. QED
  BY <1>1, <1>2, <1>3, <1>4, <1>5, <1>6, Tasks, Frames DEF SocketOf

\* A reconnect timer plans an expiry, and keeps the plan it has made.
LEMMA TimerPlans ==
    ASSUME TypeOK, [Next]_vars
    PROVE  \A q \in Role : timer'[q].pc \in {"commit", "apply"} =>
             \/ timer[q].pc \in {"commit", "apply"} /\ timer'[q].end = timer[q].end
             \/ timer'[q].pc = "commit" /\ timer'[q].end = ExpiryEnd("reconnect_timeout")
<1> DEFINE Goal == \A q \in Role : timer'[q].pc \in {"commit", "apply"} =>
             \/ timer[q].pc \in {"commit", "apply"} /\ timer'[q].end = timer[q].end
             \/ timer'[q].pc = "commit" /\ timer'[q].end = ExpiryEnd("reconnect_timeout")
<1>1. CASE UNCHANGED timer
  BY <1>1
<1>2. ASSUME NEW r \in Role,
             Pause(r) \/ TimerFires(r) \/ TimerRead(r) \/ TimerCommit(r) \/ TimerError(r)
             \/ TimerApply(r)
      PROVE  Goal
  <2> USE DEF TypeOK, Pending
  <2>1. CASE Pause(r) \/ TimerFires(r)
    BY <2>1 DEF Pause, TimerFires
  <2>2. CASE TimerRead(r)
    BY <2>2 DEF TimerRead, Idle
  <2>3. CASE TimerCommit(r)
    BY <2>3 DEF TimerCommit, Idle
  <2>4. CASE TimerError(r) \/ TimerApply(r)
    BY <2>4 DEF TimerError, TimerApply, Idle
  <2>5. QED
    BY <1>2, <2>1, <2>2, <2>3, <2>4
<1>3. CASE Crash
  BY <1>3 DEF Crash, Idle
<1>4. QED
  BY <1>1, <1>2, <1>3, Tasks, Frames DEF TimerOf

\* So does a leaver, who makes the plan when the Mutex is acquired.
LEMMA AbandonPlans ==
    ASSUME TypeOK, [Next]_vars
    PROVE  \A l \in Leaver : abandon'[l].pc \in {"commit", "apply"} =>
             \/ abandon[l].pc \in {"commit", "apply"} /\ abandon'[l].end = abandon[l].end
             \/ abandon'[l].pc = "commit" /\ abandon'[l].end = AbandonEnd(l)
<1> DEFINE Goal == \A l \in Leaver : abandon'[l].pc \in {"commit", "apply"} =>
             \/ abandon[l].pc \in {"commit", "apply"} /\ abandon'[l].end = abandon[l].end
             \/ abandon'[l].pc = "commit" /\ abandon'[l].end = AbandonEnd(l)
<1>1. CASE UNCHANGED abandon
  BY <1>1
<1>2. ASSUME NEW l \in Leaver, abandon' = [abandon EXCEPT ![l].pc = "read"] PROVE Goal
  BY <1>2 DEF TypeOK, Pending
<1>3. ASSUME NEW l \in Leaver,
             AbandonRead(l) \/ AbandonCommit(l) \/ AbandonError(l) \/ AbandonApply(l)
      PROVE  Goal
  BY <1>3 DEF AbandonRead, AbandonCommit, AbandonError, AbandonApply, Idle, TypeOK, Pending
<1>4. ASSUME NEW r \in Role, Drop(r) \/ Leave(r) PROVE Goal
  <2>1. <<"lost", r>> \in Leaver /\ <<"leave", r>> \in Leaver
    BY DEF Leaver
  <2>2. \/ UNCHANGED abandon
        \/ \E l \in Leaver : abandon' = [abandon EXCEPT ![l].pc = "read"]
    BY <1>4, <2>1 DEF Drop, Leave
  <2>3. QED
    BY <1>1, <1>2, <2>2
<1>5. CASE Crash
  BY <1>5 DEF Crash, Idle
<1>6. QED
  BY <1>1, <1>3, <1>4, <1>5, Tasks, Frames DEF AbandonOf

\* The sweep plans the expiry its reason asks for.
LEMMA SweepPlans ==
    ASSUME TypeOK, [Next]_vars
    PROVE  sweep'.pc \in {"commit", "apply"} =>
             \/ /\ sweep.pc \in {"commit", "apply"}
                /\ sweep'.end = sweep.end /\ sweep'.reason = sweep.reason
             \/ /\ sweep.pc = "read" /\ sweep'.pc = "commit" /\ sweep'.reason = sweep.reason
                /\ sweep'.end = ExpiryEnd(sweep.reason)
<1> DEFINE Goal == sweep'.pc \in {"commit", "apply"} =>
             \/ /\ sweep.pc \in {"commit", "apply"}
                /\ sweep'.end = sweep.end /\ sweep'.reason = sweep.reason
             \/ /\ sweep.pc = "read" /\ sweep'.pc = "commit" /\ sweep'.reason = sweep.reason
                /\ sweep'.end = ExpiryEnd(sweep.reason)
<1>1. CASE UNCHANGED sweep
  BY <1>1
<1>2. CASE sweep' = Touched
  BY <1>2 DEF Touched, TypeOK, Sweep
<1>3. CASE sweep' = SweepIdle
  BY <1>3 DEF SweepIdle
<1>4. ASSUME NEW r \in Role, SocketOf(r) \/ TimerOf(r) PROVE sweep' \in {sweep, Touched}
  BY <1>4 DEF SocketOf, Connect, Greet, StartRead, StartCommit, StartError, StartApply, SubmitRead,
       SubmitCommit, SubmitError, SubmitApply, ChatRead, ChatCommit, ChatTouch,
       TimerOf, TimerFires, TimerRead, TimerCommit, TimerError, TimerApply
<1>5. ASSUME NEW l \in Leaver, AbandonOf(l) PROVE sweep' \in {sweep, Touched}
  BY <1>5 DEF AbandonOf, AbandonRead, AbandonCommit, AbandonError, AbandonApply
<1>6. CASE SweepOf
  <2> USE DEF TypeOK, Sweep
  <2>1. CASE SweepPick \/ SweepRecheck
    BY <2>1, <1>3 DEF SweepPick, SweepRecheck, SweepIdle
  <2>2. CASE SweepRead
    BY <2>2, <1>3 DEF SweepRead
  <2>3. CASE SweepCommit
    BY <2>3, <1>3 DEF SweepCommit
  <2>4. CASE SweepError \/ SweepRemove \/ SweepApply
    BY <2>4, <1>3 DEF SweepError, SweepRemove, SweepApply
  <2>5. QED
    BY <1>6, <2>1, <2>2, <2>3, <2>4 DEF SweepOf
<1>7. CASE Crash
  BY <1>3, <1>7 DEF Crash
<1>8. QED
  BY <1>1, <1>2, <1>4, <1>5, <1>6, <1>7, Tasks, Frames

\* Whatever end a task carries, its results fit its cause, and the cause is
\* one that this kind of task may give.
LEMMA PlansFitStep ==
    ASSUME TypeOK, SweepHasReason, PlansFit, [Next]_vars
    PROVE  PlansFit'
<1>1. ASSUME NEW r \in Role, socket'[r].end # NoEnd
      PROVE  socket'[r].end.cause = "game_completed" /\ Fits(socket'[r].end)
  BY <1>1, SocketPlans, PlansFitTheirCause DEF PlansFit
<1>2. ASSUME NEW r \in Role, timer'[r].pc \in {"commit", "apply"}
      PROVE  timer'[r].end.cause = "reconnect_timed_out" /\ Fits(timer'[r].end)
  BY <1>2, TimerPlans, PlansFitTheirCause DEF PlansFit, Reason, ExpiryCause
<1>3. ASSUME NEW l \in Leaver, abandon'[l].pc \in {"commit", "apply"}
      PROVE  /\ abandon'[l].end.cause \in {"participant_left", "reconnect_timed_out"}
             /\ Fits(abandon'[l].end)
  BY <1>3, AbandonPlans, PlansFitTheirCause DEF PlansFit
<1>4. ASSUME sweep'.pc \in {"commit", "apply"}
      PROVE  sweep'.end.cause = ExpiryCause(sweep'.reason) /\ Fits(sweep'.end)
  BY <1>4, SweepPlans, PlansFitTheirCause DEF PlansFit, SweepHasReason
<1>5. QED
  BY <1>1, <1>2, <1>3, <1>4 DEF PlansFit, Fits, Abstract!OutcomesOf

-----------------------------------------------------------------------------
(***************************************************************************)
(* What the transactions do to the outcome of a row.                       *)
(***************************************************************************)
SameOutcome(x, y) == y.lifecycle = x.lifecycle /\ y.cause = x.cause /\ y.results = x.results

\* y is x ended by e: the roles that have a participant row get their result.
EndedBy(x, y, e) ==
    /\ x.lifecycle # "ended" /\ y.lifecycle = "ended" /\ y.cause = e.cause
    /\ DOMAIN y.results = DOMAIN e.results \cap x.seats
    /\ \A r \in DOMAIN y.results : y.results[r] = e.results[r]

\* end_session and a completing commit_session_transition end a row that has
\* not ended, and leave one that has.
LEMMA EndOutcome ==
    ASSUME NEW x \in Row, NEW e \in Ends, NEW y, y = EndSession(x, e) \/ y = CommitCompletion(x, e)
    PROVE  IF x.lifecycle = "ended" THEN y = x ELSE EndedBy(x, y, e)
<1>1. CASE x.lifecycle = "ended"
  BY <1>1 DEF EndSession, CommitCompletion, NotEnded
<1>2. CASE x.lifecycle # "ended"
  <2>1. \E z \in Row : z.seats = x.seats /\ y = PersistTerminal(z, e)
    <3>1. AppendEvent(x, "terminal") \in Row /\ AppendEvent(x, "terminal").seats = x.seats
      BY StoreTypes DEF EventKind, AppendEvent, Row
    <3>2. x.events \o <<"action", "terminal">> \in Seq(EventKind)
      <4>1. <<"action", "terminal">> \in Seq(EventKind)
        BY DEF EventKind
      <4>2. QED
        BY <4>1 DEF Row
    <3>3. /\ [x EXCEPT !.events = @ \o <<"action", "terminal">>] \in Row
          /\ [x EXCEPT !.events = @ \o <<"action", "terminal">>].seats = x.seats
      BY <3>2 DEF Row
    <3>4. QED
      BY <1>2, <3>1, <3>3 DEF EndSession, CommitCompletion, NotEnded
  <2>2. QED
    BY <1>2, <2>1 DEF PersistTerminal, EndedBy, Row
<1>3. QED
  BY <1>1, <1>2

\* No other transaction touches cause and results; only start_session moves
\* the lifecycle.
LEMMA OtherOutcome ==
    ASSUME NEW x \in Row
    PROVE  /\ SameOutcome(x, CompleteInitialization(x))
           /\ \A r \in Role : SameOutcome(x, AddSeat(x, r))
           /\ SameOutcome(x, AppendEvent(x, "message"))
           /\ SameOutcome(x, CommitAction(x))
           /\ StartSession(x).cause = x.cause /\ StartSession(x).results = x.results
           /\ StartSession(x).lifecycle = IF Startable(x) THEN "running" ELSE x.lifecycle
<1>1. /\ SameOutcome(x, CompleteInitialization(x))
      /\ \A r \in Role : SameOutcome(x, AddSeat(x, r))
  BY DEF SameOutcome, CompleteInitialization, AddSeat, Row
<1>2. /\ SameOutcome(x, AppendEvent(x, "message"))
      /\ SameOutcome(x, CommitAction(x))
  BY DEF SameOutcome, AppendEvent, CommitAction, Row
<1>3. /\ StartSession(x).cause = x.cause /\ StartSession(x).results = x.results
      /\ StartSession(x).lifecycle = IF Startable(x) THEN "running" ELSE x.lifecycle
  BY DEF StartSession, Row
<1>4. QED
  BY <1>1, <1>2, <1>3

Quiet == SameOutcome(row, row')
Starts == /\ row.lifecycle = "forming" /\ row'.lifecycle = "running"
          /\ row'.cause = row.cause /\ row'.results = row.results

\* The writes of the row, by the task that makes them: an end comes from the
\* task that planned it, from a failed initialization or from a restart.
RowWrite ==
    \/ Quiet
    \/ Starts /\ \E r \in Role : StartCommit(r)
    \/ /\ CreateFails /\ row.lifecycle = "forming" /\ row'.lifecycle = "ended"
       /\ row'.cause = "technical_failure" /\ row'.results = row.results
    \/ \E r \in Role : /\ SubmitCommit(r) /\ session.live /\ socket[r].end # NoEnd
                       /\ EndedBy(row, row', socket[r].end)
    \/ \E r \in Role : TimerCommit(r) /\ EndedBy(row, row', timer[r].end)
    \/ \E l \in Leaver : AbandonCommit(l) /\ session.live /\ EndedBy(row, row', abandon[l].end)
    \/ SweepCommit /\ EndedBy(row, row', sweep.end)
    \/ Restart /\ EndedBy(row, row', SessionEnd("technical_failure",
                                               [r \in row.seats |-> "technical_failure"]))

\* Every step writes the row in one of these ways.
LEMMA RowWrites ==
    ASSUME TypeOK, NotYetVisible, [Next]_vars
    PROVE  RowWrite
<1>1. row \in Row
  BY DEF TypeOK
<1>2. CASE row' = row
  BY <1>2 DEF RowWrite, Quiet, SameOutcome
<1>3. CASE CreateFails
  <2>1. row' = FailInitialization(row, "technical_failure") /\ row.lifecycle = "forming"
    BY <1>3 DEF CreateFails, NotYetVisible
  <2>2. /\ row'.lifecycle = "ended" /\ row'.cause = "technical_failure"
        /\ row'.results = row.results
    BY <1>1, <2>1 DEF FailInitialization, AppendEvent, Row
  <2>3. QED
    BY <1>3, <2>1, <2>2 DEF RowWrite
<1>4. CASE CreateInitialized
  BY <1>1, <1>4, OtherOutcome DEF CreateInitialized, RowWrite, Quiet
<1>5. ASSUME NEW r \in Role, PersistSeat(r) PROVE RowWrite
  BY <1>1, <1>2, <1>5, OtherOutcome DEF PersistSeat, RowWrite, Quiet
<1>6. ASSUME NEW r \in Role, StartCommit(r) PROVE RowWrite
  <2>1. row' = StartSession(row)
    BY <1>6 DEF StartCommit
  <2>2. Quiet \/ Starts
    BY <1>1, <2>1, OtherOutcome DEF Startable, Quiet, Starts, SameOutcome
  <2>3. QED
    BY <1>6, <2>2 DEF RowWrite
<1>7. ASSUME NEW r \in Role, SubmitCommit(r) PROVE RowWrite
  <2>1. socket[r].end \in Ends
    BY DEF TypeOK, Pending, Ends
  <2>2. CASE session.live /\ socket[r].end # NoEnd
    <3>1. row' = CommitCompletion(row, socket[r].end)
      BY <1>7, <2>2 DEF SubmitCommit
    <3>2. row' = row \/ EndedBy(row, row', socket[r].end)
      BY <1>1, <2>1, <3>1, EndOutcome
    <3>3. QED
      BY <1>2, <1>7, <2>2, <3>2 DEF RowWrite
  <2>3. CASE session.live /\ socket[r].end = NoEnd
    BY <1>1, <1>7, <2>3, OtherOutcome DEF SubmitCommit, RowWrite, Quiet
  <2>4. CASE ~session.live
    BY <1>2, <1>7, <2>4 DEF SubmitCommit
  <2>5. QED
    BY <2>2, <2>3, <2>4
<1>8. ASSUME NEW r \in Role, ChatCommit(r) PROVE RowWrite
  BY <1>1, <1>2, <1>8, OtherOutcome DEF ChatCommit, RowWrite, Quiet
<1>9. ASSUME NEW r \in Role, TimerCommit(r) PROVE RowWrite
  <2>1. timer[r].end \in Ends
    BY DEF TypeOK, Pending, Ends
  <2>2. row' = row \/ EndedBy(row, row', timer[r].end)
    BY <1>1, <1>9, <2>1, EndOutcome DEF TimerCommit
  <2>3. QED
    BY <1>2, <1>9, <2>2 DEF RowWrite
<1>10. ASSUME NEW l \in Leaver, AbandonCommit(l) PROVE RowWrite
  <2>1. abandon[l].end \in Ends
    BY DEF TypeOK, Pending, Ends
  <2>2. CASE session.live
    <3>1. row' = EndSession(row, abandon[l].end)
      BY <1>10, <2>2 DEF AbandonCommit
    <3>2. row' = row \/ EndedBy(row, row', abandon[l].end)
      BY <1>1, <2>1, <3>1, EndOutcome
    <3>3. QED
      BY <1>2, <1>10, <2>2, <3>2 DEF RowWrite
  <2>3. CASE ~session.live
    BY <1>2, <1>10, <2>3 DEF AbandonCommit
  <2>4. QED
    BY <2>2, <2>3
<1>11. CASE SweepCommit
  <2>1. sweep.end \in Ends
    BY DEF TypeOK, Sweep, Ends
  <2>2. row' = row \/ EndedBy(row, row', sweep.end)
    BY <1>1, <1>11, <2>1, EndOutcome DEF SweepCommit
  <2>3. QED
    BY <1>2, <1>11, <2>2 DEF RowWrite
<1>12. CASE Restart
  <2> DEFINE e == SessionEnd("technical_failure", [r \in row.seats |-> "technical_failure"])
  <2>1. e \in Ends
    <3>1. row.seats \in SUBSET Role
      BY DEF TypeOK, Row
    <3>2. [r \in row.seats |-> "technical_failure"] \in [row.seats -> Outcome]
      BY DEF Outcome
    <3>3. QED
      BY <3>1, <3>2 DEF SessionEnd, End, Ends, Results, Cause
  <2>2. row' = EndSession(row, e)
    BY <1>12 DEF Restart
  <2> HIDE DEF e
  <2>3. row' = row \/ EndedBy(row, row', e)
    BY <1>1, <2>1, <2>2, EndOutcome
  <2>4. QED
    BY <1>2, <1>12, <2>3 DEF RowWrite, e
<1>13. CASE \/ CreateInsert \/ CreateInitializationError \/ CreateWithdraw \/ JoinFind \/ JoinAdd
            \/ Crash \/ (Outside /\ ~Restart)
  BY <1>2, <1>13 DEF CreateInsert, CreateInitializationError, CreateWithdraw, JoinFind, JoinAdd,
       Crash, Outside, Rest, Elapse, GraceElapses, vars
<1>14. ASSUME NEW r \in Role, NEW keepVoice \in BOOLEAN,
              \/ Connect(r) \/ Greet(r) \/ StartRead(r) \/ StartError(r) \/ StartApply(r)
              \/ SubmitRead(r) \/ SubmitError(r) \/ SubmitApply(r, keepVoice) \/ ChatRead(r)
              \/ ChatTouch(r) \/ TimerFires(r) \/ TimerRead(r) \/ TimerError(r) \/ TimerApply(r)
       PROVE  row' = row
  BY <1>14 DEF Connect, Greet, StartRead, StartError, StartApply, SubmitRead, SubmitError,
       SubmitApply, ChatRead, ChatTouch, TimerFires, TimerRead, TimerError, TimerApply
<1>15. ASSUME NEW l \in Leaver, AbandonRead(l) \/ AbandonError(l) \/ AbandonApply(l)
       PROVE  row' = row
  BY <1>15 DEF AbandonRead, AbandonError, AbandonApply
<1>16. CASE SweepPick \/ SweepRecheck \/ SweepRead \/ SweepError \/ SweepApply \/ SweepRemove
  BY <1>2, <1>16 DEF SweepPick, SweepRecheck, SweepRead, SweepError, SweepApply, SweepRemove
<1>17. CASE EntryStep
  BY <1>3, <1>4, <1>5, <1>13, <1>17 DEF EntryStep
<1>18. ASSUME NEW r \in Role, SocketOf(r) \/ TimerOf(r) PROVE RowWrite
  BY <1>2, <1>6, <1>7, <1>8, <1>9, <1>14, <1>18 DEF SocketOf, TimerOf
<1>19. ASSUME NEW l \in Leaver, AbandonOf(l) PROVE RowWrite
  BY <1>2, <1>10, <1>15, <1>19 DEF AbandonOf
<1>20. CASE SweepOf
  BY <1>11, <1>16, <1>20 DEF SweepOf
<1>21. QED
  BY <1>2, <1>12, <1>13, <1>17, <1>18, <1>19, <1>20, Tasks, Frames

-----------------------------------------------------------------------------
(***************************************************************************)
(* From the plan to the row, and from the row to memory.                   *)
(***************************************************************************)

\* The row is ended by a cause that the code knows, with results that fit
\* it, and by the two causes that need a game only when the game runs.
LEMMA OutcomeStep ==
    ASSUME TypeOK, SweepHasReason, NotYetVisible, PlansFit, DurableFirst, RowAhead, [Next]_vars
    PROVE  Quiet \/ Starts \/ \E c \in Cause : Abstract!EndWith(c)
<1>1. RowWrite
  BY RowWrites
<1>2. row \in Row /\ row.seats \subseteq Role /\ row.lifecycle \in {"forming", "running", "ended"}
  BY DEF TypeOK, Row, Lifecycle
<1>3. ASSUME NEW e, EndedBy(row, row', e), Fits(e), e.cause \in Cause,
             e.cause \in Abstract!NeedsGame => row.lifecycle # "forming"
      PROVE  \E c \in Cause : Abstract!EndWith(c)
  <2>1. Abstract!EndWith(e.cause)
    BY <1>2, <1>3 DEF EndedBy, Fits, Abstract!EndWith
  <2>2. QED
    BY <1>3, <2>1
<1>4. CASE /\ CreateFails /\ row.lifecycle = "forming" /\ row'.lifecycle = "ended"
           /\ row'.cause = "technical_failure" /\ row'.results = row.results
  <2>1. row'.results = << >>
    BY <1>4 DEF RowAhead
  <2>2. Abstract!EndWith("technical_failure")
    BY <1>4, <2>1 DEF Abstract!EndWith, Abstract!NeedsGame
  <2>3. QED
    BY <2>2 DEF Cause
<1>5. ASSUME NEW r \in Role, SubmitCommit(r), session.live, socket[r].end # NoEnd,
             EndedBy(row, row', socket[r].end)
      PROVE  \E c \in Cause : Abstract!EndWith(c)
  <2>1. row.lifecycle # "forming"
    BY <1>5 DEF SubmitCommit, DurableFirst
  <2>2. socket[r].end.cause = "game_completed" /\ Fits(socket[r].end)
    BY <1>5 DEF PlansFit
  <2>3. QED
    BY <1>3, <1>5, <2>1, <2>2 DEF Cause
<1>6. ASSUME NEW r \in Role, TimerCommit(r), EndedBy(row, row', timer[r].end)
      PROVE  \E c \in Cause : Abstract!EndWith(c)
  <2>1. timer[r].end.cause = "reconnect_timed_out" /\ Fits(timer[r].end)
    BY <1>6 DEF TimerCommit, PlansFit
  <2>2. QED
    BY <1>3, <1>6, <2>1 DEF Cause, Abstract!NeedsGame
<1>7. ASSUME NEW l \in Leaver, AbandonCommit(l), EndedBy(row, row', abandon[l].end)
      PROVE  \E c \in Cause : Abstract!EndWith(c)
  <2>1. /\ abandon[l].end.cause \in {"participant_left", "reconnect_timed_out"}
        /\ Fits(abandon[l].end)
    BY <1>7 DEF AbandonCommit, PlansFit
  <2>2. QED
    BY <1>3, <1>7, <2>1 DEF Cause, Abstract!NeedsGame
<1>8. CASE SweepCommit /\ EndedBy(row, row', sweep.end)
  <2>1. /\ sweep.end.cause = ExpiryCause(sweep.reason) /\ Fits(sweep.end)
        /\ sweep.reason \in Reason
        /\ sweep.reason = "idle_timeout" => row.lifecycle # "forming"
    BY <1>8 DEF SweepCommit, PlansFit, SweepHasReason, RowAhead
  <2>2. /\ ExpiryCause(sweep.reason) \in Cause
        /\ ExpiryCause(sweep.reason) \in Abstract!NeedsGame => sweep.reason = "idle_timeout"
    BY <2>1 DEF ExpiryCause, Reason, Cause, Abstract!NeedsGame
  <2>3. QED
    BY <1>3, <1>8, <2>1, <2>2
<1>9. CASE Restart /\ EndedBy(row, row', SessionEnd("technical_failure",
                                                  [r \in row.seats |-> "technical_failure"]))
  <2> DEFINE e == SessionEnd("technical_failure", [r \in row.seats |-> "technical_failure"])
  <2>1. e.cause = "technical_failure" /\ Fits(e)
    BY DEF SessionEnd, Fits, Abstract!OutcomesOf
  <2> HIDE DEF e
  <2>2. EndedBy(row, row', e)
    BY <1>9 DEF e
  <2>3. QED
    BY <1>3, <2>1, <2>2 DEF Cause, Abstract!NeedsGame
<1>10. QED
  BY <1>1, <1>4, <1>5, <1>6, <1>7, <1>8, <1>9 DEF RowWrite

\* A task writes an end to memory only after its own transaction found the
\* row not ended; a socket, after its transaction returned.
LEMMA AppliesFollowCommits ==
    ASSUME TypeOK, [Next]_vars
    PROVE  /\ \A r \in Role : timer'[r].pc = "apply" =>
                 timer[r].pc = "apply" \/ (TimerCommit(r) /\ NotEnded(row))
           /\ \A l \in Leaver : abandon'[l].pc = "apply" =>
                 abandon[l].pc = "apply" \/ (AbandonCommit(l) /\ session.live /\ NotEnded(row))
           /\ sweep'.pc = "apply" => sweep.pc = "apply" \/ (SweepCommit /\ NotEnded(row))
           /\ \A r \in Role : socket'[r].pc = "actApply" =>
                 /\ socket'[r].end = socket[r].end
                 /\ socket[r].pc = "actApply" \/ (SubmitCommit(r) /\ session.live)
<1>1. ASSUME NEW r \in Role, timer'[r].pc = "apply", timer[r].pc # "apply"
      PROVE  TimerCommit(r) /\ NotEnded(row)
  <2>1. ASSUME NEW q \in Role, TimerOf(q) \/ Pause(q) PROVE q = r /\ TimerCommit(r) /\ NotEnded(row)
    <3>1. \A p \in Role : p # q => timer'[p] = timer[p]
      BY <2>1 DEF TimerOf, Pause, TimerFires, TimerRead, TimerCommit, TimerError, TimerApply, TypeOK
    <3>2. q = r
      BY <1>1, <3>1
    <3>3. ~Pause(r) /\ ~TimerFires(r) /\ ~TimerRead(r)
      BY <1>1 DEF Pause, TimerFires, TimerRead, Idle, TypeOK, Pending
    <3>4. ~TimerError(r) /\ ~TimerApply(r)
      BY <1>1 DEF TimerError, TimerApply, Idle, TypeOK, Pending
    <3>5. TimerCommit(r) => NotEnded(row)
      BY <1>1 DEF TimerCommit, Idle, TypeOK, Pending
    <3>6. QED
      BY <2>1, <3>2, <3>3, <3>4, <3>5 DEF TimerOf
  <2>2. ~Crash /\ timer' # timer
    BY <1>1 DEF Crash, Idle
  <2>3. QED
    BY <2>1, <2>2, Tasks, Frames
<1>2. ASSUME NEW l \in Leaver, abandon'[l].pc = "apply", abandon[l].pc # "apply"
      PROVE  AbandonCommit(l) /\ session.live /\ NotEnded(row)
  <2>1. ASSUME NEW k \in Leaver, AbandonOf(k) PROVE k = l /\ AbandonCommit(l) /\ session.live /\ NotEnded(row)
    <3>1. \A j \in Leaver : j # k => abandon'[j] = abandon[j]
      BY <2>1 DEF AbandonOf, AbandonRead, AbandonCommit, AbandonError, AbandonApply, TypeOK
    <3>2. k = l
      BY <1>2, <3>1
    <3>3. ~AbandonRead(l) /\ ~AbandonError(l) /\ ~AbandonApply(l)
      BY <1>2 DEF AbandonRead, AbandonError, AbandonApply, Idle, TypeOK, Pending
    <3>4. AbandonCommit(l) => session.live /\ NotEnded(row)
      BY <1>2 DEF AbandonCommit, Idle, TypeOK, Pending
    <3>5. QED
      BY <2>1, <3>2, <3>3, <3>4 DEF AbandonOf
  <2>2. ASSUME NEW k \in Leaver PROVE abandon' # [abandon EXCEPT ![k].pc = "read"]
    BY <1>2 DEF TypeOK, Pending
  <2>3. ASSUME NEW r \in Role PROVE ~Drop(r) /\ ~Leave(r)
    <3>1. <<"lost", r>> \in Leaver /\ <<"leave", r>> \in Leaver
      BY DEF Leaver
    <3>2. QED
      BY <1>2, <2>2, <3>1 DEF Drop, Leave
  <2>4. ~Crash /\ abandon' # abandon
    BY <1>2 DEF Crash, Idle
  <2>5. QED
    BY <2>1, <2>3, <2>4, Tasks, Frames
<1>3. ASSUME sweep'.pc = "apply", sweep.pc # "apply" PROVE SweepCommit /\ NotEnded(row)
  <2>1. sweep' # sweep /\ sweep' # Touched /\ sweep' # SweepIdle
    BY <1>3 DEF Touched, SweepIdle, TypeOK, Sweep
  <2>2. ASSUME NEW r \in Role PROVE ~SocketOf(r) /\ ~TimerOf(r)
    BY <2>1 DEF SocketOf, Connect, Greet, StartRead, StartCommit, StartError, StartApply, SubmitRead,
         SubmitCommit, SubmitError, SubmitApply, ChatRead, ChatCommit, ChatTouch,
         TimerOf, TimerFires, TimerRead, TimerCommit, TimerError, TimerApply
  <2>3. ASSUME NEW l \in Leaver PROVE ~AbandonOf(l)
    BY <2>1 DEF AbandonOf, AbandonRead, AbandonCommit, AbandonError, AbandonApply
  <2>4. ~SweepPick /\ ~SweepRecheck /\ ~SweepRead /\ ~SweepError /\ ~SweepApply /\ ~SweepRemove
    BY <1>3, <2>1 DEF SweepPick, SweepRecheck, SweepRead, SweepError, SweepApply, SweepRemove,
         SweepIdle, TypeOK, Sweep
  <2>5. SweepCommit => NotEnded(row)
    BY <2>1 DEF SweepCommit
  <2>6. ~Crash
    BY <2>1 DEF Crash
  <2>7. QED
    BY <2>1, <2>2, <2>3, <2>4, <2>5, <2>6, Tasks, Frames DEF SweepOf
<1>4. ASSUME NEW r \in Role, socket'[r].pc = "actApply"
      PROVE  /\ socket'[r].end = socket[r].end
             /\ socket[r].pc = "actApply" \/ (SubmitCommit(r) /\ session.live)
  <2>1. CASE socket'[r] = socket[r]
    BY <1>4, <2>1
  <2>2. CASE socket'[r] # socket[r]
    <3>1. ~Crash
      BY <1>4 DEF Crash, Idle
    <3>2. ASSUME NEW q \in Role, Drop(q) \/ (SocketOf(q) /\ ~SubmitCommit(q)) PROVE FALSE
      <4>1. ASSUME NEW pc, SetSocket(q, pc), pc # "actApply" PROVE FALSE
        BY <1>4, <2>2, <4>1 DEF SetSocket, TypeOK
      <4>2. ~SubmitRead(q)
        BY <1>4, <2>2 DEF SubmitRead, TypeOK
      <4>3. ASSUME \/ Drop(q) \/ Connect(q) \/ Greet(q) \/ StartRead(q) \/ StartCommit(q)
                   \/ StartError(q) \/ StartApply(q) \/ SubmitError(q)
                   \/ (\E keepVoice \in BOOLEAN : SubmitApply(q, keepVoice))
                   \/ ChatRead(q) \/ ChatCommit(q) \/ ChatTouch(q)
            PROVE  \E pc \in SocketPc \ {"actApply"} : SetSocket(q, pc)
        BY <4>3 DEF Drop, Connect, Greet, StartRead, StartCommit, StartError, StartApply,
             SubmitError, SubmitApply, ChatRead, ChatCommit, ChatTouch, SocketReturns, SocketPc
      <4>4. QED
        BY <3>2, <4>1, <4>2, <4>3 DEF SocketOf
    <3>3. ASSUME NEW q \in Role, SubmitCommit(q)
          PROVE  q = r /\ session.live /\ socket'[r].end = socket[r].end
      <4>1. CASE session.live
        BY <2>2, <3>3, <4>1 DEF SubmitCommit, TypeOK, Pending
      <4>2. CASE ~session.live
        BY <1>4, <2>2, <3>3, <4>2 DEF SubmitCommit, SocketReturns, SetSocket, TypeOK
      <4>3. QED
        BY <4>1, <4>2
    <3>4. QED
      BY <2>2, <3>1, <3>2, <3>3, Tasks, Frames
  <2>3. QED
    BY <2>1, <2>2
<1>5. QED
  BY <1>1, <1>2, <1>3, <1>4

\* A cause and results are in the row exactly when it has ended; an expiry
\* about to be written to memory is the end the row was given.
LEMMA RowAheadStep ==
    ASSUME TypeOK, SweepHasReason, NotYetVisible, PlansFit, DurableFirst, RowAhead, [Next]_vars
    PROVE  RowAhead'
<1>1. row \in Row
  BY DEF TypeOK
<1>2. /\ row.lifecycle # "forming" => row'.lifecycle # "forming"
      /\ row.lifecycle = "ended" => /\ row'.lifecycle = "ended" /\ row'.cause = row.cause
                                    /\ row'.results = row.results
  BY <1>1, RowStep, TransactionAdvances
<1>3. /\ row'.lifecycle = "ended" <=> row'.cause # NoCause
      /\ row'.lifecycle # "ended" => row'.results = << >>
  <2>1. CASE Quiet \/ Starts
    BY <2>1 DEF Quiet, Starts, SameOutcome, RowAhead
  <2>2. ASSUME NEW c \in Cause, Abstract!EndWith(c)
        PROVE  row'.lifecycle = "ended" /\ row'.cause # NoCause
    BY <2>2 DEF Abstract!EndWith, Cause, NoCause
  <2>3. QED
    BY <2>1, <2>2, OutcomeStep
<1>4. ASSUME NEW r \in Role, timer'[r].pc = "apply" PROVE row'.cause = "reconnect_timed_out"
  <2>1. CASE timer[r].pc = "apply"
    BY <1>2, <2>1 DEF DurableFirst, RowAhead
  <2>2. CASE TimerCommit(r) /\ NotEnded(row)
    <3>1. row' = EndSession(row, timer[r].end) /\ timer[r].end \in Ends
      BY <2>2 DEF TimerCommit, TypeOK, Pending, Ends
    <3>2. row'.cause = timer[r].end.cause
      BY <1>1, <2>2, <3>1, EndOutcome DEF NotEnded, EndedBy
    <3>3. QED
      BY <2>2, <3>2 DEF TimerCommit, PlansFit
  <2>3. QED
    BY <1>4, <2>1, <2>2, AppliesFollowCommits
<1>5. ASSUME sweep'.pc = "apply" PROVE row'.cause = sweep'.end.cause
  <2>1. sweep'.end = sweep.end
    BY <1>5, SweepPlans
  <2>2. CASE sweep.pc = "apply"
    BY <1>2, <2>1, <2>2 DEF DurableFirst, RowAhead
  <2>3. CASE SweepCommit /\ NotEnded(row)
    <3>1. row' = EndSession(row, sweep.end) /\ sweep.end \in Ends
      BY <2>3 DEF SweepCommit, TypeOK, Sweep, Ends
    <3>2. QED
      BY <1>1, <2>1, <2>3, <3>1, EndOutcome DEF NotEnded, EndedBy
  <2>4. QED
    BY <1>5, <2>2, <2>3, AppliesFollowCommits
<1>6. ASSUME sweep'.pc # "idle", sweep'.reason = "idle_timeout" PROVE row'.lifecycle # "forming"
  <2>1. CASE SweepPick
    <3>1. session.live /\ session.lifecycle = "running"
      BY <1>6, <2>1 DEF SweepPick, CandidateReason, SweepIdle
    <3>2. QED
      BY <1>2, <3>1 DEF DurableFirst, DurableBeforeVisible
  <2>2. CASE ~SweepPick
    <3>1. sweep' = SweepIdle \/ (sweep.pc # "idle" /\ sweep'.reason = sweep.reason)
             \/ sweep' \in {sweep, Touched}
      <4>1. CASE SweepOf
        BY <2>2, <4>1 DEF SweepOf, SweepRecheck, SweepRead, SweepCommit, SweepError, SweepApply,
             SweepRemove, TypeOK, Sweep
      <4>2. ASSUME NEW r \in Role, SocketOf(r) \/ TimerOf(r) PROVE sweep' \in {sweep, Touched}
        BY <4>2 DEF SocketOf, Connect, Greet, StartRead, StartCommit, StartError, StartApply,
             SubmitRead, SubmitCommit, SubmitError, SubmitApply, ChatRead, ChatCommit, ChatTouch,
             TimerOf, TimerFires, TimerRead, TimerCommit, TimerError, TimerApply
      <4>3. ASSUME NEW l \in Leaver, AbandonOf(l) PROVE sweep' \in {sweep, Touched}
        BY <4>3 DEF AbandonOf, AbandonRead, AbandonCommit, AbandonError, AbandonApply
      <4>4. Crash => sweep' = SweepIdle
        BY DEF Crash
      <4>5. QED
        BY <4>1, <4>2, <4>3, <4>4, Tasks, Frames
    <3>2. sweep.pc # "idle" /\ sweep.reason = "idle_timeout"
      BY <1>6, <3>1 DEF SweepIdle, Touched, TypeOK, Sweep
    <3>3. QED
      BY <1>2, <3>2 DEF RowAhead
  <2>3. QED
    BY <2>1, <2>2
<1>7. QED
  BY <1>3, <1>4, <1>5, <1>6 DEF RowAhead

-----------------------------------------------------------------------------
(***************************************************************************)
(* The end committed under the Mutex is the one memory shows.              *)
(***************************************************************************)

\* Who enters or leaves the sections between acquiring and releasing the
\* Mutex, and what each finds there: a plan is only made while the session
\* has not ended, with the Mutex free.
LEMMA LockedMoves ==
    ASSUME TypeOK, [Next]_vars
    PROVE  /\ \A r \in Role : socket'[r].pc \in {"startCommit", "actCommit"} =>
                 \/ socket[r] = socket'[r]
                 \/ /\ lock = Free /\ session.live /\ ~Ended
                    /\ socket'[r].pc = "actCommit" => SubmitRead(r)
           /\ \A r \in Role : socket'[r].pc = "startApply" =>
                 socket[r].pc = "startApply" \/ (StartCommit(r) /\ Startable(row))
           /\ \A l \in Leaver : abandon'[l].pc = "commit" =>
                 \/ abandon[l].pc = "commit"
                 \/ lock = Free /\ session.live /\ ~Ended
           /\ \A r \in Role : socket[r].pc = "actApply" /\ socket'[r].pc # "actApply" =>
                 Crash \/ \E keepVoice \in BOOLEAN : SubmitApply(r, keepVoice)
           /\ \A l \in Leaver : abandon[l].pc = "apply" /\ abandon'[l].pc # "apply" =>
                 Crash \/ AbandonApply(l)
<1>1. ASSUME NEW r \in Role, socket'[r] # socket[r], ~Crash
      PROVE  SocketOf(r) \/ Drop(r)
  <2>1. ASSUME NEW q \in Role, SocketOf(q) \/ Drop(q) PROVE q = r
    <3>1. CASE \E pc : SetSocket(q, pc)
      BY <1>1, <3>1 DEF SetSocket, TypeOK
    <3>2. CASE SubmitRead(q)
      BY <1>1, <3>2 DEF SubmitRead, TypeOK
    <3>3. CASE SubmitCommit(q)
      BY <1>1, <3>3 DEF SubmitCommit, SocketReturns, SetSocket, TypeOK
    <3>4. ASSUME \/ Drop(q) \/ Connect(q) \/ Greet(q) \/ StartRead(q) \/ StartCommit(q)
                 \/ StartError(q) \/ StartApply(q) \/ SubmitError(q)
                 \/ (\E keepVoice \in BOOLEAN : SubmitApply(q, keepVoice))
                 \/ ChatRead(q) \/ ChatCommit(q) \/ ChatTouch(q)
          PROVE  \E pc : SetSocket(q, pc)
      BY <3>4 DEF Drop, Connect, Greet, StartRead, StartCommit, StartError, StartApply,
           SubmitError, SubmitApply, ChatRead, ChatCommit, ChatTouch, SocketReturns
    <3>5. QED
      BY <2>1, <3>1, <3>2, <3>3, <3>4 DEF SocketOf
  <2>2. QED
    BY <1>1, <2>1, Tasks, Frames
<1>2. ASSUME NEW r \in Role, socket'[r].pc \in {"startCommit", "actCommit"}, socket'[r] # socket[r]
      PROVE  /\ lock = Free /\ session.live /\ ~Ended
             /\ socket'[r].pc = "actCommit" => SubmitRead(r)
  <2>1. ~Crash
    BY <1>2 DEF Crash, Idle
  <2>2. StartRead(r) \/ SubmitRead(r)
    <3>1. ASSUME SetSocket(r, "idle") \/ SetSocket(r, "greet") \/ SetSocket(r, "open")
                 \/ SetSocket(r, "start") \/ SetSocket(r, "startApply")
                 \/ SetSocket(r, "chatCommit") \/ SetSocket(r, "chatTouch")
          PROVE  FALSE
      BY <1>2, <3>1 DEF SetSocket, TypeOK
    <3>2. ~SubmitCommit(r)
      BY <1>2, <3>1 DEF SubmitCommit, SocketReturns, TypeOK, Pending
    <3>3. ASSUME \/ Drop(r) \/ Connect(r) \/ Greet(r) \/ StartCommit(r)
                 \/ StartError(r) \/ StartApply(r) \/ SubmitError(r)
                 \/ (\E keepVoice \in BOOLEAN : SubmitApply(r, keepVoice))
                 \/ ChatRead(r) \/ ChatCommit(r) \/ ChatTouch(r)
          PROVE  FALSE
      BY <3>1, <3>3 DEF Drop, Connect, Greet, StartCommit, StartError, StartApply,
           SubmitError, SubmitApply, ChatRead, ChatCommit, ChatTouch, SocketReturns
    <3>4. QED
      BY <1>1, <1>2, <2>1, <3>2, <3>3 DEF SocketOf
  <2>3. CASE StartRead(r)
    BY <1>2, <2>3 DEF StartRead, SocketReturns, SetSocket, ReadyForGame, Ended, TypeOK
  <2>4. CASE SubmitRead(r)
    BY <2>4 DEF SubmitRead, ReadyForGame, Ended
  <2>5. QED
    BY <2>2, <2>3, <2>4
<1>3. ASSUME NEW r \in Role, socket'[r].pc = "startApply", socket[r].pc # "startApply"
      PROVE  StartCommit(r) /\ Startable(row)
  <2>1. ~Crash
    BY <1>3 DEF Crash, Idle
  <2>2. ASSUME NEW pc, SetSocket(r, pc), pc # "startApply" PROVE FALSE
    BY <1>3, <2>2 DEF SetSocket, TypeOK
  <2>3. ~SubmitRead(r) /\ ~SubmitCommit(r)
    BY <1>3, <2>2 DEF SubmitRead, SubmitCommit, SocketReturns, TypeOK, Pending
  <2>4. ASSUME \/ Drop(r) \/ Connect(r) \/ Greet(r) \/ StartRead(r)
               \/ StartError(r) \/ StartApply(r) \/ SubmitError(r)
               \/ (\E keepVoice \in BOOLEAN : SubmitApply(r, keepVoice))
               \/ ChatRead(r) \/ ChatCommit(r) \/ ChatTouch(r)
        PROVE  FALSE
    BY <2>2, <2>4 DEF Drop, Connect, Greet, StartRead, StartError, StartApply,
         SubmitError, SubmitApply, ChatRead, ChatCommit, ChatTouch, SocketReturns
  <2>5. StartCommit(r)
    BY <1>1, <1>3, <2>1, <2>3, <2>4 DEF SocketOf
  <2>6. QED
    BY <2>2, <2>5 DEF StartCommit, SocketReturns
<1>4. ASSUME NEW r \in Role, socket[r].pc = "actApply", socket'[r].pc # "actApply", ~Crash
      PROVE  \E keepVoice \in BOOLEAN : SubmitApply(r, keepVoice)
  BY <1>1, <1>4 DEF SocketOf, Drop, Connect, Greet, StartRead, StartCommit, StartError, StartApply,
       SubmitRead, SubmitCommit, SubmitError, ChatRead, ChatCommit, ChatTouch
<1>5. ASSUME NEW l \in Leaver, abandon'[l].pc # abandon[l].pc, ~Crash,
             abandon'[l].pc = "commit" \/ abandon[l].pc = "apply"
      PROVE  AbandonOf(l)
  <2>1. ASSUME NEW k \in Leaver, AbandonOf(k) PROVE k = l
    BY <1>5, <2>1 DEF AbandonOf, AbandonRead, AbandonCommit, AbandonError, AbandonApply, TypeOK
  <2>2. ASSUME NEW k \in Leaver, abandon[k].pc = "idle"
        PROVE  abandon' # [abandon EXCEPT ![k].pc = "read"]
    BY <1>5, <2>2 DEF TypeOK, Pending
  <2>3. ASSUME NEW r \in Role PROVE ~Drop(r) /\ ~Leave(r)
    <3>1. <<"lost", r>> \in Leaver /\ <<"leave", r>> \in Leaver
      BY DEF Leaver
    <3>2. abandon' # abandon
      BY <1>5
    <3>3. QED
      BY <2>2, <3>1, <3>2 DEF Drop, Leave
  <2>4. QED
    BY <1>5, <2>1, <2>3, Tasks, Frames
<1>6. ASSUME NEW l \in Leaver, abandon'[l].pc = "commit", abandon[l].pc # "commit"
      PROVE  lock = Free /\ session.live /\ ~Ended
  <2>1. ~Crash
    BY <1>6 DEF Crash, Idle
  <2>2. AbandonOf(l)
    BY <1>5, <1>6, <2>1
  <2>3. AbandonRead(l)
    BY <1>6, <2>2 DEF AbandonOf, AbandonCommit, AbandonError, AbandonApply, Idle, TypeOK, Pending
  <2>4. QED
    BY <1>6, <2>3 DEF AbandonRead, Idle, TypeOK
<1>7. ASSUME NEW l \in Leaver, abandon[l].pc = "apply", abandon'[l].pc # "apply", ~Crash
      PROVE  AbandonApply(l)
  BY <1>5, <1>7 DEF AbandonOf, AbandonRead, AbandonCommit, AbandonError
<1>8. QED
  BY <1>2, <1>3, <1>4, <1>6, <1>7

\* Who writes what memory shows of the lifecycle, the end and the moves.
LEMMA MemoryWrites ==
    ASSUME TypeOK, [Next]_vars, session'.live
    PROVE  \/ CreateInsert
           \/ /\ session.live /\ session'.moves = session.moves
              /\ session'.lifecycle = session.lifecycle /\ session'.end = session.end
           \/ /\ session.live /\ session'.moves = session.moves
              /\ \/ \E r \in Role : StartApply(r) \/ TimerApply(r)
                 \/ \E l \in Leaver : AbandonApply(l)
                 \/ SweepApply
           \/ session.live /\ \E r \in Role, keepVoice \in BOOLEAN : SubmitApply(r, keepVoice)
<1> USE DEF TypeOK, Session
<1>1. CASE UNCHANGED session
  BY <1>1
<1>2. CASE EntryStep
  BY <1>2 DEF EntryStep, CreateFails, CreateInitialized, CreateInitializationError,
       CreateWithdraw, NoSession, JoinFind, JoinAdd, PersistSeat
<1>3. ASSUME NEW r \in Role, NEW keepVoice \in BOOLEAN,
             Connect(r) \/ Drop(r) \/ Pause(r) \/ StartApply(r) \/ SubmitApply(r, keepVoice)
             \/ TimerApply(r)
      PROVE  /\ session.live
             /\ ~SubmitApply(r, keepVoice) => session'.moves = session.moves
             /\ \/ StartApply(r) \/ TimerApply(r) \/ SubmitApply(r, keepVoice)
                \/ session'.lifecycle = session.lifecycle /\ session'.end = session.end
  <2>1. CASE Connect(r) \/ Drop(r) \/ Pause(r)
    BY <2>1 DEF Connect, Drop, Pause
  <2>2. CASE StartApply(r) \/ TimerApply(r)
    BY <2>2 DEF StartApply, TimerApply, EndInMemory
  <2>3. CASE SubmitApply(r, keepVoice)
    BY <2>3 DEF SubmitApply
  <2>4. QED
    BY <1>3, <2>1, <2>2, <2>3
<1>4. ASSUME NEW r \in Role,
             \/ Greet(r) \/ StartRead(r) \/ StartCommit(r) \/ StartError(r) \/ SubmitRead(r)
             \/ SubmitCommit(r) \/ SubmitError(r) \/ ChatRead(r) \/ ChatCommit(r) \/ ChatTouch(r)
             \/ TimerFires(r) \/ TimerRead(r) \/ TimerCommit(r) \/ TimerError(r) \/ Leave(r)
      PROVE  UNCHANGED session
  BY <1>4 DEF Greet, StartRead, StartCommit, StartError, SubmitRead, SubmitCommit, SubmitError,
       ChatRead, ChatCommit, ChatTouch, TimerFires, TimerRead, TimerCommit, TimerError, Leave
<1>5. ASSUME NEW l \in Leaver, AbandonOf(l)
      PROVE  UNCHANGED session \/ (session.live /\ session'.moves = session.moves /\ AbandonApply(l))
  BY <1>5 DEF AbandonOf, AbandonRead, AbandonCommit, AbandonError, AbandonApply, EndInMemory
<1>6. CASE SweepOf
  <2>1. CASE SweepApply
    BY <2>1 DEF SweepApply, EndInMemory
  <2>2. CASE ~SweepApply
    BY <1>6, <2>2 DEF SweepOf, SweepPick, SweepRecheck, SweepRead, SweepCommit, SweepError,
         SweepRemove, NoSession
  <2>3. QED
    BY <2>1, <2>2
<1>7. ~Crash
  BY DEF Crash, NoSession
<1>8. QED
  BY <1>1, <1>2, <1>3, <1>4, <1>5, <1>6, <1>7, Tasks, Frames DEF SocketOf, TimerOf

\* The row gets a locked cause from a completing action or from a leave,
\* both of which hold the Mutex.
LEMMA LockedCauseComes ==
    ASSUME TypeOK, SweepHasReason, NotYetVisible, PlansFit, RowAhead, [Next]_vars,
           row'.cause \in LockedCause
    PROVE  \/ row.lifecycle = "ended" /\ row'.cause = row.cause /\ row'.results = row.results
           \/ \E r \in Role : /\ SubmitCommit(r) /\ session.live /\ socket[r].end # NoEnd
                              /\ EndedBy(row, row', socket[r].end)
           \/ \E l \in Leaver : AbandonCommit(l) /\ session.live /\ EndedBy(row, row', abandon[l].end)
<1>1. RowWrite
  BY RowWrites
<1>2. CASE Quiet \/ Starts
  BY <1>2 DEF Quiet, Starts, SameOutcome, RowAhead, LockedCause, NoCause
<1>3. ASSUME NEW r \in Role, TimerCommit(r), EndedBy(row, row', timer[r].end) PROVE FALSE
  BY <1>3 DEF TimerCommit, PlansFit, EndedBy, LockedCause
<1>4. CASE SweepCommit /\ EndedBy(row, row', sweep.end)
  BY <1>4 DEF SweepCommit, PlansFit, SweepHasReason, Reason, ExpiryCause, EndedBy, LockedCause
<1>5. CASE Restart /\ EndedBy(row, row', SessionEnd("technical_failure",
                                                  [r \in row.seats |-> "technical_failure"]))
  BY <1>5 DEF EndedBy, SessionEnd, LockedCause
<1>6. QED
  BY <1>1, <1>2, <1>3, <1>4, <1>5 DEF RowWrite, LockedCause

\* Agreement with the row after the step.
AgreesNext(e) ==
    /\ e.cause = row'.cause
    /\ \A r \in DOMAIN row'.results : r \in DOMAIN e.results /\ row'.results[r] = e.results[r]

\* A row that keeps its end keeps what agrees with it; one that is ended by
\* e agrees with e.
LEMMA Agreement ==
    /\ \A e : EndedBy(row, row', e) => AgreesNext(e)
    /\ row'.cause = row.cause /\ row'.results = row.results => \A e : Agrees(e) => AgreesNext(e)
BY DEF EndedBy, Agrees, AgreesNext

\* Once a locked cause is in the row, the holder of the Mutex brings it to
\* memory and nobody else writes a different end there.
LEMMA LockedEndPendingStep ==
    ASSUME TypeOK, SweepHasReason, MutexHeld, NotYetVisible, PlansFit, DurableFirst, RowAhead,
           LockedEndPending, [Next]_vars
    PROVE  LockedEndPending'
<1> DEFINE Kept == row.lifecycle = "ended" /\ row'.cause = row.cause /\ row'.results = row.results
           BySocket(q) == /\ SubmitCommit(q) /\ session.live /\ socket[q].end # NoEnd
                          /\ EndedBy(row, row', socket[q].end)
           ByLeaver(k) == AbandonCommit(k) /\ session.live /\ EndedBy(row, row', abandon[k].end)
<1>1. row'.cause \in LockedCause =>
        Kept \/ (\E q \in Role : BySocket(q)) \/ (\E k \in Leaver : ByLeaver(k))
  BY LockedCauseComes
<1>2. row.lifecycle = "ended" => Kept
  <2>1. row \in Row /\ Transaction(row, row')
    BY RowStep DEF TypeOK
  <2>2. QED
    BY <2>1, TransactionAdvances
<1>3. ASSUME NEW q \in Role, BySocket(q)
      PROVE  /\ lock = <<"socket", q>> /\ socket[q].pc = "actCommit" /\ socket'[q].pc = "actApply"
             /\ UNCHANGED abandon
             /\ \A r \in Role : r # q => socket'[r] = socket[r]
  BY <1>3 DEF SubmitCommit, MutexHeld, TypeOK, Pending
<1>4. ASSUME NEW k \in Leaver, ByLeaver(k)
      PROVE  /\ lock = k /\ abandon[k].pc = "commit" /\ abandon'[k].pc = "apply"
             /\ UNCHANGED socket
             /\ \A l \in Leaver : l # k => abandon'[l] = abandon[l]
  BY <1>4 DEF AbandonCommit, EndedBy, NotEnded, MutexHeld, TypeOK, Pending
<1>5. ASSUME Kept, row.cause \in LockedCause, lock = Free, session.live, ~Ended PROVE FALSE
  BY <1>5, Names DEF LockedEndPending, MutexHeld
<1>6. ASSUME NEW r \in Role, socket'[r].pc \in {"startCommit", "startApply", "actCommit"},
             row'.cause \in LockedCause
      PROVE  FALSE
  <2>1. \/ socket[r] = socket'[r] /\ socket[r].pc \in {"startCommit", "actCommit"}
        \/ lock = Free /\ session.live /\ ~Ended
        \/ socket[r].pc = "startApply" /\ socket'[r].pc = "startApply"
        \/ StartCommit(r) /\ Startable(row)
    BY <1>6, LockedMoves
  <2>2. CASE Kept
    <3>1. row.cause \in LockedCause
      BY <1>6, <2>2
    <3>2. socket[r].pc \notin {"startCommit", "startApply", "actCommit"}
      BY <3>1 DEF LockedEndPending
    <3>3. ~Startable(row)
      BY <2>2 DEF Startable
    <3>4. QED
      BY <1>5, <2>1, <2>2, <3>1, <3>2, <3>3
  <2>3. ASSUME NEW q \in Role, BySocket(q) PROVE FALSE
    <3>1. r # q
      BY <1>3, <1>6, <2>3
    <3>2. socket'[r] = socket[r]
      BY <1>3, <2>3, <3>1
    <3>3. lock = <<"socket", r>>
      BY <1>6, <3>2 DEF MutexHeld
    <3>4. QED
      BY <1>3, <2>3, <3>1, <3>3, Names
  <2>4. ASSUME NEW k \in Leaver, ByLeaver(k) PROVE FALSE
    <3>1. lock = <<"socket", r>>
      BY <1>4, <1>6, <2>4 DEF MutexHeld
    <3>2. QED
      BY <1>4, <2>4, <3>1, Names
  <2>5. QED
    BY <1>1, <1>6, <2>2, <2>3, <2>4
<1>7. ASSUME NEW r \in Role, socket'[r].pc = "actApply", row'.cause \in LockedCause
      PROVE  socket'[r].end # NoEnd /\ AgreesNext(socket'[r].end)
  <2>1. /\ socket'[r].end = socket[r].end
        /\ socket[r].pc = "actApply" \/ (SubmitCommit(r) /\ session.live)
    BY <1>7, AppliesFollowCommits
  <2>2. socket[r].pc \in {"actCommit", "actApply"} /\ lock = <<"socket", r>>
    BY <2>1 DEF SubmitCommit, MutexHeld
  <2>3. CASE Kept
    <3>1. row.cause \in LockedCause /\ socket[r].pc = "actApply"
      BY <1>7, <2>2, <2>3 DEF LockedEndPending
    <3>2. socket[r].end # NoEnd /\ Agrees(socket[r].end)
      BY <3>1 DEF LockedEndPending
    <3>3. QED
      BY <2>1, <2>3, <3>2, Agreement
  <2>4. ASSUME NEW q \in Role, BySocket(q) PROVE socket[r].end # NoEnd /\ AgreesNext(socket[r].end)
    <3>1. q = r
      BY <1>3, <2>2, <2>4, Names
    <3>2. QED
      BY <2>4, <3>1, Agreement
  <2>5. ASSUME NEW k \in Leaver, ByLeaver(k) PROVE FALSE
    BY <1>4, <2>2, <2>5, Names
  <2>6. QED
    BY <1>1, <1>7, <2>1, <2>3, <2>4, <2>5
<1>8. ASSUME NEW l \in Leaver, abandon'[l].pc = "commit", row'.cause \in LockedCause PROVE FALSE
  <2>1. abandon[l].pc = "commit" \/ (lock = Free /\ session.live /\ ~Ended)
    BY <1>8, LockedMoves
  <2>2. lock \in {l, Free}
    BY <2>1 DEF MutexHeld
  <2>3. CASE Kept
    BY <1>5, <1>8, <2>1, <2>3 DEF LockedEndPending
  <2>4. ASSUME NEW q \in Role, BySocket(q) PROVE FALSE
    BY <1>3, <2>2, <2>4, Names
  <2>5. ASSUME NEW k \in Leaver, ByLeaver(k) PROVE FALSE
    BY <1>4, <1>8, <2>2, <2>5, Names
  <2>6. QED
    BY <1>1, <1>8, <2>3, <2>4, <2>5
<1>9. ASSUME NEW l \in Leaver, abandon'[l].pc = "apply" PROVE AgreesNext(abandon'[l].end)
  <2>1. abandon'[l].end = abandon[l].end
    BY <1>9, AbandonPlans
  <2>2. CASE abandon[l].pc = "apply"
    <3>1. row.lifecycle = "ended" /\ Agrees(abandon[l].end)
      BY <2>2 DEF DurableFirst, LockedEndPending
    <3>2. QED
      BY <1>2, <2>1, <3>1, Agreement
  <2>3. CASE AbandonCommit(l) /\ session.live /\ NotEnded(row)
    <3>1. row' = EndSession(row, abandon[l].end) /\ abandon[l].end \in Ends /\ row \in Row
      BY <2>3 DEF AbandonCommit, TypeOK, Pending, Ends
    <3>2. EndedBy(row, row', abandon[l].end)
      BY <2>3, <3>1, EndOutcome DEF NotEnded
    <3>3. QED
      BY <2>1, <3>2, Agreement
  <2>4. QED
    BY <1>9, <2>2, <2>3, AppliesFollowCommits
<1>10. ASSUME row'.cause \in LockedCause, session'.live
       PROVE  IF session'.lifecycle = "ended" THEN AgreesNext(session'.end)
              ELSE \/ \E r \in Role : socket'[r].pc = "actApply"
                   \/ \E l \in Leaver : abandon'[l].pc = "apply"
  <2>1. CASE (\E q \in Role : BySocket(q)) \/ (\E k \in Leaver : ByLeaver(k))
    <3>1. session' = session /\ session.live /\ row.lifecycle # "ended"
      BY <2>1 DEF SubmitCommit, AbandonCommit, EndedBy
    <3>2. session'.lifecycle # "ended"
      BY <3>1 DEF DurableFirst, DurableBeforeVisible, Ended
    <3>3. QED
      BY <1>3, <1>4, <2>1, <3>2
  <2>2. CASE Kept
    <3>1. row.cause \in LockedCause /\ row.lifecycle = "ended"
      BY <1>10, <2>2
    <3>2. ~CreateInsert
      BY <3>1 DEF CreateInsert, NotYetVisible
    <3>3. session.live
      BY <1>10, <3>2, MemoryWrites
    <3>4. ASSUME NEW r \in Role, NEW keepVoice \in BOOLEAN, SubmitApply(r, keepVoice)
          PROVE  session'.lifecycle = "ended" /\ AgreesNext(session'.end)
      <4>1. socket[r].end # NoEnd /\ Agrees(socket[r].end)
        BY <3>1, <3>4 DEF SubmitApply, LockedEndPending
      <4>2. session'.lifecycle = "ended" /\ session'.end = socket[r].end
        BY <3>3, <3>4, <4>1 DEF SubmitApply, TypeOK, Session
      <4>3. QED
        BY <2>2, <4>1, <4>2, Agreement
    <3>5. ASSUME NEW l \in Leaver, AbandonApply(l)
          PROVE  session'.lifecycle = "ended" /\ AgreesNext(session'.end)
      <4>1. Agrees(abandon[l].end)
        BY <3>5 DEF AbandonApply, LockedEndPending
      <4>2. session'.lifecycle = "ended" /\ session'.end = abandon[l].end
        BY <3>3, <3>5 DEF AbandonApply, EndInMemory, TypeOK, Session
      <4>3. QED
        BY <2>2, <4>1, <4>2, Agreement
    <3>6. ~SweepApply /\ \A r \in Role : ~StartApply(r) /\ ~TimerApply(r)
      <4>1. ASSUME NEW r \in Role PROVE ~StartApply(r) /\ ~TimerApply(r)
        BY <3>1 DEF StartApply, TimerApply, LockedEndPending, RowAhead, LockedCause
      <4>2. ~SweepApply
        BY <3>1 DEF SweepApply, RowAhead, PlansFit, SweepHasReason, Reason, ExpiryCause, LockedCause
      <4>3. QED
        BY <4>1, <4>2
    <3>7. CASE session'.lifecycle = session.lifecycle /\ session'.end = session.end
      <4>1. CASE Ended
        <5>1. Agrees(session.end)
          BY <3>1, <3>3, <4>1 DEF LockedEndPending
        <5>2. QED
          BY <2>2, <3>7, <4>1, <5>1, Agreement DEF Ended
      <4>2. CASE ~Ended
        <5>1. session'.lifecycle # "ended"
          BY <3>7, <4>2 DEF Ended
        <5>2. ~Crash
          BY <1>10 DEF Crash, NoSession
        <5>3. \A r \in Role : socket[r].pc = "actApply" => socket'[r].pc = "actApply"
          BY <3>4, <5>1, <5>2, LockedMoves
        <5>4. \A l \in Leaver : abandon[l].pc = "apply" => abandon'[l].pc = "apply"
          BY <3>5, <5>1, <5>2, LockedMoves
        <5>5. QED
          BY <3>1, <3>3, <4>2, <5>1, <5>3, <5>4 DEF LockedEndPending
      <4>3. QED
        BY <4>1, <4>2
    <3>8. QED
      BY <1>10, <3>2, <3>4, <3>5, <3>6, <3>7, MemoryWrites
  <2>3. QED
    BY <1>1, <1>10, <2>1, <2>2
<1> HIDE DEF Kept, BySocket, ByLeaver
<1>11. QED
  BY <1>6, <1>7, <1>8, <1>9, <1>10 DEF LockedEndPending, AgreesNext, Agrees, Ended, LockedCause

-----------------------------------------------------------------------------
(***************************************************************************)
(* The log counts the moves.                                               *)
(***************************************************************************)
ActionsIn(x) == {i \in DOMAIN x.events : x.events[i] = "action"}

\* The log of a row is finite, and appending an action adds one to its count.
LEMMA AppendActions ==
    ASSUME NEW x \in Row, NEW k \in EventKind, NEW y, y.events = Append(x.events, k)
    PROVE  /\ IsFiniteSet(ActionsIn(x)) /\ Cardinality(ActionsIn(x)) \in Nat
           /\ Cardinality(ActionsIn(y)) = Cardinality(ActionsIn(x)) + (IF k = "action" THEN 1 ELSE 0)
<1>1. /\ x.events \in Seq(EventKind) /\ Len(x.events) \in Nat
      /\ DOMAIN x.events = 1..Len(x.events)
  BY DEF Row
<1>2. /\ DOMAIN y.events = 1..(Len(x.events) + 1)
      /\ \A i \in 1..Len(x.events) : y.events[i] = x.events[i]
      /\ y.events[Len(x.events) + 1] = k
  BY <1>1
<1>3. IsFiniteSet(ActionsIn(x)) /\ Cardinality(ActionsIn(x)) \in Nat
  <2>1. IsFiniteSet(1..Len(x.events))
    BY <1>1, FS_Interval
  <2>2. ActionsIn(x) \subseteq 1..Len(x.events)
    BY <1>1 DEF ActionsIn
  <2>3. QED
    BY <2>1, <2>2, FS_Subset, FS_CardinalityType
<1>4. CASE k = "action"
  <2>1. ActionsIn(y) = ActionsIn(x) \cup {Len(x.events) + 1}
    BY <1>1, <1>2, <1>4 DEF ActionsIn
  <2>2. Len(x.events) + 1 \notin ActionsIn(x)
    BY <1>1 DEF ActionsIn
  <2>3. QED
    BY <1>3, <1>4, <2>1, <2>2, FS_AddElement
<1>5. CASE k # "action"
  <2>1. ActionsIn(y) = ActionsIn(x)
    BY <1>1, <1>2, <1>5 DEF ActionsIn
  <2>2. QED
    BY <1>3, <1>5, <2>1
<1>6. QED
  BY <1>3, <1>4, <1>5

Logged(x) == Cardinality(ActionsIn(x))

\* Only a commit of an action to a row that has not ended changes the count.
LEMMA TransactionActions ==
    ASSUME NEW x \in Row
    PROVE  /\ Logged(x) \in Nat
           /\ Logged(CompleteInitialization(x)) = Logged(x)
           /\ Logged(FailInitialization(x, "technical_failure")) = Logged(x)
           /\ Logged(StartSession(x)) = Logged(x)
           /\ \A r \in Role : Logged(AddSeat(x, r)) = Logged(x)
           /\ Logged(AppendEvent(x, "message")) = Logged(x)
           /\ Logged(CommitAction(x)) = Logged(x) + (IF NotEnded(x) THEN 1 ELSE 0)
           /\ \A e \in Ends : Logged(EndSession(x, e)) = Logged(x)
           /\ \A e \in Ends : Logged(CommitCompletion(x, e)) = Logged(x) + (IF NotEnded(x) THEN 1 ELSE 0)
<1>1. ASSUME NEW z, z.events = x.events PROVE Logged(z) = Logged(x)
  BY <1>1 DEF Logged, ActionsIn
<1>2. ASSUME NEW k \in EventKind, NEW z, z.events = Append(x.events, k)
      PROVE  Logged(x) \in Nat /\ Logged(z) = Logged(x) + (IF k = "action" THEN 1 ELSE 0)
  BY <1>2, AppendActions DEF Logged
<1>3. Logged(x) \in Nat
  <2>1. "message" \in EventKind /\ AppendEvent(x, "message").events = Append(x.events, "message")
    BY DEF EventKind, AppendEvent, Row
  <2>2. QED
    BY <1>2, <2>1
<1>4. /\ CompleteInitialization(x).events = x.events
      /\ StartSession(x).events = x.events
      /\ \A r \in Role : AddSeat(x, r).events = x.events
  BY DEF CompleteInitialization, StartSession, AddSeat, Row
<1>5. /\ FailInitialization(x, "technical_failure").events = Append(x.events, "terminal")
      /\ AppendEvent(x, "message").events = Append(x.events, "message")
      /\ NotEnded(x) => CommitAction(x).events = Append(x.events, "action")
      /\ ~NotEnded(x) => CommitAction(x) = x
  BY DEF FailInitialization, AppendEvent, CommitAction, Row
<1>6. ASSUME NEW e \in Ends
      PROVE  Logged(EndSession(x, e)) = Logged(x)
  <2>1. CASE NotEnded(x)
    <3>1. EndSession(x, e).events = Append(x.events, "terminal") /\ "terminal" \in EventKind
      BY <2>1 DEF EndSession, PersistTerminal, AppendEvent, Row, EventKind
    <3>2. QED
      BY <1>2, <1>3, <3>1
  <2>2. CASE ~NotEnded(x)
    BY <2>2 DEF EndSession
  <2>3. QED
    BY <2>1, <2>2
<1>7. ASSUME NEW e \in Ends
      PROVE  Logged(CommitCompletion(x, e)) = Logged(x) + (IF NotEnded(x) THEN 1 ELSE 0)
  <2>1. CASE NotEnded(x)
    <3> DEFINE a == AppendEvent(x, "action")
               z == CommitCompletion(x, e)
    <3>1. a \in Row /\ a.events = Append(x.events, "action")
      BY StoreTypes DEF EventKind, AppendEvent, Row
    <3>2. z.events = Append(a.events, "terminal")
      <4>1. x.events \in Seq(EventKind) /\ "action" \in EventKind /\ "terminal" \in EventKind
        BY DEF Row, EventKind
      <4>2. Append(Append(x.events, "action"), "terminal") = x.events \o <<"action", "terminal">>
        BY <4>1
      <4>3. z.events = x.events \o <<"action", "terminal">>
        BY <2>1 DEF CommitCompletion, PersistTerminal, Row
      <4>4. QED
        BY <3>1, <4>2, <4>3
    <3> HIDE DEF a, z
    <3>3. "action" \in EventKind /\ "terminal" \in EventKind
      BY DEF EventKind
    <3>4. Logged(a) = Logged(x) + 1 /\ Logged(a) \in Nat
      BY <1>2, <1>3, <3>1, <3>3
    <3>5. Logged(z) = Logged(a)
      BY <3>1, <3>2, <3>3, <3>4, AppendActions DEF Logged
    <3>6. QED
      BY <2>1, <3>4, <3>5 DEF z
  <2>2. CASE ~NotEnded(x)
    BY <1>3, <2>2 DEF CommitCompletion
  <2>3. QED
    BY <2>1, <2>2
<1>8. /\ Logged(FailInitialization(x, "technical_failure")) = Logged(x)
      /\ Logged(AppendEvent(x, "message")) = Logged(x)
      /\ Logged(CommitAction(x)) = Logged(x) + (IF NotEnded(x) THEN 1 ELSE 0)
  BY <1>2, <1>3, <1>5 DEF EventKind
<1>9. /\ Logged(CompleteInitialization(x)) = Logged(x)
      /\ Logged(StartSession(x)) = Logged(x)
      /\ \A r \in Role : Logged(AddSeat(x, r)) = Logged(x)
  BY <1>1, <1>4
<1>10. QED
  BY <1>3, <1>6, <1>7, <1>8, <1>9

\* The count grows by one when a socket commits its action, and only then.
LEMMA LoggedStep ==
    ASSUME TypeOK, NotYetVisible, [Next]_vars
    PROVE  /\ Logged(row) \in Nat
           /\ (\E r \in Role : SubmitCommit(r)) /\ session.live /\ NotEnded(row) =>
                 Logged(row') = Logged(row) + 1
           /\ ~((\E r \in Role : SubmitCommit(r)) /\ session.live /\ NotEnded(row)) =>
                 Logged(row') = Logged(row)
<1>1. row \in Row /\ Logged(row) \in Nat
  BY TransactionActions DEF TypeOK
<1>2. ASSUME NEW r \in Role, SubmitCommit(r)
      PROVE  Logged(row') = Logged(row) + (IF session.live /\ NotEnded(row) THEN 1 ELSE 0)
  <2>1. socket[r].end \in Ends
    BY DEF TypeOK, Pending, Ends
  <2>2. CASE session.live
    <3>1. row' = CommitAction(row) \/ row' = CommitCompletion(row, socket[r].end)
      BY <1>2, <2>2 DEF SubmitCommit
    <3>2. QED
      BY <1>1, <2>1, <2>2, <3>1, TransactionActions
  <2>3. CASE ~session.live
    BY <1>1, <1>2, <2>3 DEF SubmitCommit
  <2>4. QED
    BY <2>2, <2>3
<1>3. ASSUME \A r \in Role : ~SubmitCommit(r) PROVE Logged(row') = Logged(row)
  <2>1. CASE row' = row
    BY <2>1
  <2>2. CASE EntryStep
    BY <1>1, <2>2, TransactionActions DEF EntryStep, CreateFails, CreateInsert, CreateInitialized,
         CreateInitializationError, CreateWithdraw, JoinFind, JoinAdd, PersistSeat
  <2>3. ASSUME NEW r \in Role, SocketOf(r)
        PROVE  row' = row \/ row' = StartSession(row) \/ row' = AppendEvent(row, "message")
    BY <1>3, <2>3 DEF SocketOf, Connect, Greet, StartRead, StartCommit, StartError, StartApply,
         SubmitRead, SubmitError, SubmitApply, ChatRead, ChatCommit, ChatTouch
  <2>4. ASSUME NEW r \in Role, TimerOf(r) PROVE \E e \in Ends : row' = row \/ row' = EndSession(row, e)
    <3>1. timer[r].end \in Ends
      BY DEF TypeOK, Pending, Ends
    <3>2. QED
      BY <2>4, <3>1 DEF TimerOf, TimerFires, TimerRead, TimerCommit, TimerError, TimerApply
  <2>5. ASSUME NEW l \in Leaver, AbandonOf(l) PROVE \E e \in Ends : row' = row \/ row' = EndSession(row, e)
    <3>1. abandon[l].end \in Ends
      BY DEF TypeOK, Pending, Ends
    <3>2. QED
      BY <2>5, <3>1 DEF AbandonOf, AbandonRead, AbandonCommit, AbandonError, AbandonApply
  <2>6. ASSUME SweepOf PROVE \E e \in Ends : row' = row \/ row' = EndSession(row, e)
    <3>1. sweep.end \in Ends
      BY DEF TypeOK, Sweep, Ends
    <3>2. QED
      BY <2>6, <3>1 DEF SweepOf, SweepPick, SweepRecheck, SweepRead, SweepCommit, SweepError,
           SweepApply, SweepRemove
  <2>7. CASE Restart
    <3> DEFINE e == SessionEnd("technical_failure", [r \in row.seats |-> "technical_failure"])
    <3>1. row.seats \in SUBSET Role
      BY DEF TypeOK, Row
    <3>2. [r \in row.seats |-> "technical_failure"] \in [row.seats -> Outcome]
      BY DEF Outcome
    <3>3. e \in Ends
      BY <3>1, <3>2 DEF SessionEnd, End, Ends, Results, Cause
    <3>4. row' = EndSession(row, e)
      BY <2>7 DEF Restart
    <3> HIDE DEF e
    <3>5. QED
      BY <1>1, <3>3, <3>4, TransactionActions
  <2>8. ASSUME Crash \/ (Outside /\ ~Restart) PROVE row' = row
    BY <2>8 DEF Crash, Outside, Rest, Elapse, GraceElapses, vars
  <2>9. QED
    BY <1>1, <2>1, <2>2, <2>3, <2>4, <2>5, <2>6, <2>7, <2>8, Tasks, Frames, TransactionActions
<1>4. QED
  BY <1>1, <1>2, <1>3

\* MovesAreLogged in terms of the count.
LEMMA MovesAreLoggedAsRow ==
    /\ MovesAreLogged <=>
         /\ session.live /\ NotEnded(row) =>
               Logged(row) = session.moves + (IF ActionCommitted THEN 1 ELSE 0)
         /\ row.cause = "game_completed" => Logged(row) = GameLength
    /\ MovesAreLogged' <=>
         /\ session'.live /\ NotEnded(row') =>
               Logged(row') = session'.moves + (IF ActionCommitted' THEN 1 ELSE 0)
         /\ row'.cause = "game_completed" => Logged(row') = GameLength
BY DEF MovesAreLogged, Logged, ActionsIn, Positions, NotEnded

\* Every step keeps the log and the moves in agreement.
LEMMA MovesFitStep ==
    ASSUME TypeOK, SweepHasReason, MutexHeld, NotYetVisible, PlansFit, RowAhead, MovesFit, [Next]_vars
    PROVE  MovesFit'
<1>1. /\ session.live /\ NotEnded(row) =>
             Logged(row) = session.moves + (IF ActionCommitted THEN 1 ELSE 0)
      /\ row.cause = "game_completed" => Logged(row) = GameLength
  BY MovesAreLoggedAsRow DEF MovesFit
<1>2. row \in Row /\ Logged(row) \in Nat /\ session.moves \in Nat
  BY LoggedStep DEF TypeOK, Session
<1>3. row.lifecycle = "ended" => row'.lifecycle = "ended"
  BY <1>2, RowStep, TransactionAdvances
<1>4. ASSUME NEW r \in Role, socket[r].pc = "actCommit" PROVE ~ActionCommitted
  BY <1>4, Names DEF MutexHeld, ActionCommitted
<1>5. CreateInsert => /\ row' = row /\ row.events = << >> /\ session'.moves = 0
                      /\ UNCHANGED socket /\ \A r \in Role : socket[r].pc = "idle"
  BY DEF CreateInsert, NotYetVisible, MovesFit, NoSession
<1>6. ASSUME session'.live, NotEnded(row')
      PROVE  Logged(row') = session'.moves + (IF ActionCommitted' THEN 1 ELSE 0)
  <2>1. NotEnded(row)
    BY <1>3, <1>6 DEF NotEnded
  <2>2. CASE CreateInsert
    <3>1. ~ActionCommitted'
      BY <1>5, <2>2 DEF ActionCommitted
    <3>2. Logged(row) = 0
      <4>1. row.events = << >>
        BY <1>5, <2>2
      <4>2. ActionsIn(row) = {}
        BY <4>1 DEF ActionsIn
      <4>3. QED
        BY <4>2, FS_EmptySet DEF Logged
    <3>3. QED
      BY <1>5, <2>2, <3>1, <3>2
  <2>3. ASSUME NEW r \in Role, NEW keepVoice \in BOOLEAN, SubmitApply(r, keepVoice), session.live
        PROVE  Logged(row') = session'.moves + (IF ActionCommitted' THEN 1 ELSE 0)
    <3>1. socket[r].pc = "actApply" /\ row' = row /\ session'.moves = session.moves + 1
      BY <2>3 DEF SubmitApply, TypeOK, Session
    <3>2. ActionCommitted
      BY <3>1 DEF ActionCommitted
    <3>3. \A q \in Role : q # r => socket[q].pc # "actApply"
      BY <3>1, Names DEF MutexHeld
    <3>4. \A q \in Role : socket'[q].pc # "actApply"
      BY <2>3, <3>3 DEF SubmitApply, SocketReturns, SetSocket, TypeOK
    <3>5. QED
      BY <1>1, <1>2, <2>1, <2>3, <3>1, <3>2, <3>4 DEF ActionCommitted
  <2>4. CASE /\ session.live /\ session'.moves = session.moves
             /\ ~ \E r \in Role, keepVoice \in BOOLEAN : SubmitApply(r, keepVoice)
    <3>1. CASE \E r \in Role : SubmitCommit(r)
      <4>1. PICK r \in Role : SubmitCommit(r)
        BY <3>1
      <4>2. socket[r].pc = "actCommit" /\ socket'[r].pc = "actApply"
        BY <2>4, <4>1 DEF SubmitCommit, TypeOK, Pending
      <4>3. ~ActionCommitted /\ ActionCommitted'
        BY <1>4, <4>2 DEF ActionCommitted
      <4>4. Logged(row') = Logged(row) + 1
        BY <2>1, <2>4, <3>1, LoggedStep
      <4>5. QED
        BY <1>1, <1>2, <2>1, <2>4, <4>3, <4>4
    <3>2. CASE ~ \E r \in Role : SubmitCommit(r)
      <4>1. Logged(row') = Logged(row)
        BY <3>2, LoggedStep
      <4>2. ~Crash
        BY <1>6 DEF Crash, NoSession
      <4>3. \A r \in Role : socket'[r].pc = "actApply" <=> socket[r].pc = "actApply"
        BY <2>4, <3>2, <4>2, AppliesFollowCommits, LockedMoves
      <4>4. ActionCommitted' <=> ActionCommitted
        BY <4>3 DEF ActionCommitted
      <4>5. QED
        BY <1>1, <2>1, <2>4, <4>1, <4>4
    <3>3. QED
      BY <3>1, <3>2
  <2>5. QED
    BY <1>6, <2>2, <2>3, <2>4, MemoryWrites
<1>7. ASSUME row'.cause = "game_completed" PROVE Logged(row') = GameLength
  <2>1. CASE row.lifecycle = "ended" /\ row'.cause = row.cause
    <3>1. Logged(row') = Logged(row)
      BY <2>1, LoggedStep DEF NotEnded
    <3>2. QED
      BY <1>1, <1>7, <2>1, <3>1
  <2>2. ASSUME NEW r \in Role, SubmitCommit(r), session.live, socket[r].end # NoEnd,
               EndedBy(row, row', socket[r].end)
        PROVE  Logged(row') = GameLength
    <3>1. socket[r].pc = "actCommit" /\ NotEnded(row)
      BY <2>2 DEF SubmitCommit, EndedBy, NotEnded
    <3>2. session.moves + 1 = GameLength
      BY <2>2, <3>1 DEF MovesFit
    <3>3. Logged(row) = session.moves
      BY <1>1, <1>2, <1>4, <2>2, <3>1
    <3>4. Logged(row') = Logged(row) + 1
      BY <2>2, <3>1, LoggedStep
    <3>5. QED
      BY <3>2, <3>3, <3>4
  <2>3. ASSUME NEW l \in Leaver, AbandonCommit(l), EndedBy(row, row', abandon[l].end) PROVE FALSE
    BY <1>7, <2>3 DEF AbandonCommit, PlansFit, EndedBy
  <2>4. QED
    BY <1>7, <2>1, <2>2, <2>3, LockedCauseComes DEF LockedCause
<1>8. ASSUME entry'["A"] = "build" PROVE row'.events = << >>
  <2>1. entry["A"] = "build"
    BY <1>8, BuildIsFirst
  <2>2. /\ up /\ ~session.live /\ entry["B"] = "outside" /\ sweep.pc = "idle" /\ row.events = << >>
        /\ \A r \in Role : socket[r].pc = "idle" /\ timer[r].pc = "idle"
        /\ \A l \in Leaver : abandon[l].pc = "idle"
    BY <2>1 DEF NotYetVisible, MovesFit
  <2>3. row' = row
    <3>1. CASE EntryStep
      <4>1. ~CreateFails /\ ~CreateInitialized
        BY <1>8, <2>1 DEF CreateFails, CreateInitialized, TypeOK, Role
      <4>2. ASSUME NEW r \in Role PROVE ~PersistSeat(r)
        BY <2>1, <2>2 DEF PersistSeat, Role
      <4>3. QED
        BY <3>1, <4>1, <4>2 DEF EntryStep, CreateInsert, CreateInitializationError, CreateWithdraw,
             JoinFind, JoinAdd
    <3>2. ASSUME NEW r \in Role, SocketOf(r) \/ TimerOf(r) PROVE FALSE
      BY <2>2, <3>2 DEF SocketOf, Connect, Greet, StartRead, StartCommit, StartError, StartApply,
           SubmitRead, SubmitCommit, SubmitError, SubmitApply, ChatRead, ChatCommit, ChatTouch,
           TimerOf, TimerFires, TimerRead, TimerCommit, TimerError, TimerApply
    <3>3. ASSUME NEW l \in Leaver PROVE ~AbandonOf(l)
      BY <2>2 DEF AbandonOf, AbandonRead, AbandonCommit, AbandonError, AbandonApply
    <3>4. ASSUME SweepOf \/ Crash \/ Outside PROVE row' = row
      BY <2>2, <3>4 DEF SweepOf, SweepPick, SweepRecheck, SweepRead, SweepCommit, SweepError,
           SweepApply, SweepRemove, Crash, Outside, Restart, Rest, Elapse, GraceElapses, vars
    <3>5. QED
      BY <3>1, <3>2, <3>3, <3>4, Tasks, Frames
  <2>4. QED
    BY <2>2, <2>3
<1>9. ASSUME NEW r \in Role, socket'[r].pc = "actCommit", socket'[r].end # NoEnd, session'.live
      PROVE  session'.moves + 1 = GameLength
  <2>1. CASE SubmitRead(r)
    <3>1. session' = session /\ socket'[r].end = PlannedEnd
      BY <2>1 DEF SubmitRead, TypeOK
    <3>2. QED
      BY <1>9, <3>1 DEF PlannedEnd
  <2>2. CASE socket[r] = socket'[r]
    <3>1. ~CreateInsert
      BY <1>5, <1>9, <2>2
    <3>2. ASSUME NEW q \in Role, NEW keepVoice \in BOOLEAN, SubmitApply(q, keepVoice) PROVE FALSE
      BY <1>9, <2>2, <3>2, Names DEF SubmitApply, MutexHeld
    <3>3. session.live /\ session'.moves = session.moves
      BY <1>9, <3>1, <3>2, MemoryWrites
    <3>4. QED
      BY <1>9, <2>2, <3>3 DEF MovesFit
  <2>3. QED
    BY <1>9, <2>1, <2>2, LockedMoves
<1>10. MovesAreLogged'
  BY <1>6, <1>7, MovesAreLoggedAsRow
<1>11. QED
  BY <1>8, <1>9, <1>10 DEF MovesFit

-----------------------------------------------------------------------------
(***************************************************************************)
(* The invariant, and the properties it was made for.                      *)
(***************************************************************************)

\* The whole invariant is inductive: every reachable state satisfies it, for
\* every length of the game and every number of messages, lost connections,
\* failed store calls and crashes.
THEOREM InvariantHolds == Spec => []IInv
<1>1. Init => IInv
  <2> SUFFICES ASSUME Init PROVE IInv
    OBVIOUS
  <2>1. TypeOK /\ SweepHasReason /\ NotYetVisible /\ OneTerminalEvent
    <3>1. SweepHasReason /\ NotYetVisible
      BY DEF Init, SweepHasReason, SweepIdle, NotYetVisible, NoSession, NewRow, Idle, Role
    <3>2. TerminalOnce(row)
      BY DEF Init, NewRow, TerminalOnce, TerminalAt
    <3>3. QED
      BY <3>1, <3>2, InitType, OneTerminalEventAsRow
  <2>2. MutexHeld /\ PlansFit /\ DurableFirst
    BY DEF Init, MutexHeld, PlansFit, DurableFirst, DurableBeforeVisible, NoSession, Idle, SweepIdle
  <2>3. RowAhead /\ LockedEndPending
    BY DEF Init, RowAhead, LockedEndPending, LockedCause, NewRow, NoCause, NoSession, Idle, SweepIdle
  <2>4. MovesFit
    <3>1. /\ row.events = << >> /\ ~session.live /\ row.cause # "game_completed"
          /\ \A r \in Role : socket[r].pc # "actCommit"
      BY DEF Init, NewRow, NoCause, NoSession, Idle
    <3>2. QED
      BY <3>1, MovesAreLoggedAsRow DEF MovesFit
  <2>5. QED
    BY <2>1, <2>2, <2>3, <2>4 DEF IInv
<1>2. IInv /\ [Next]_vars => IInv'
  <2> SUFFICES ASSUME IInv, [Next]_vars PROVE IInv'
    OBVIOUS
  <2>1. TypeOK' /\ SweepHasReason' /\ NotYetVisible' /\ MutexHeld'
    BY NextType, SweepReasonStep, NotYetVisibleStep, MutexHeldStep DEF IInv
  <2>2. PlansFit' /\ DurableFirst' /\ RowAhead'
    BY PlansFitStep, DurableFirstStep, RowAheadStep DEF IInv
  <2>3. LockedEndPending' /\ MovesFit'
    BY LockedEndPendingStep, MovesFitStep DEF IInv
  <2>4. OneTerminalEvent'
    <3>1. row \in Row /\ Transaction(row, row') /\ TerminalOnce(row)
      BY RowStep, OneTerminalEventAsRow DEF IInv, TypeOK
    <3>2. QED
      BY <3>1, TransactionTerminal, OneTerminalEventAsRow
  <2>5. QED
    BY <2>1, <2>2, <2>3, <2>4 DEF IInv
<1>3. QED
  BY <1>1, <1>2, PTL DEF Spec

\* A completed game or a leave that was committed under the Mutex is the end
\* that clients are shown, with the stored results: no expiry that was under
\* way takes its place.
THEOREM LockedEndIsShown == Spec => []LockedEndWins
<1>1. IInv => LockedEndWins
  BY DEF IInv, LockedEndPending, LockedCause, LockedEndWins, Agrees
<1>2. QED
  BY <1>1, InvariantHolds, PTL

\* Until the session ends the log has one accepted action per move, and a
\* game the row calls completed has all of its actions in the log.
THEOREM LogCountsMoves == Spec => []MovesAreLogged
<1>1. IInv => MovesAreLogged
  BY DEF IInv, MovesFit
<1>2. QED
  BY <1>1, InvariantHolds, PTL

\* The durable row, written by all tasks and by a restart, does what
\* SessionOutcome allows and nothing else.
THEOREM RowImplementsOutcome == Spec => ImplementsSessionOutcome
<1>1. Init => Abstract!Init
  BY DEF Init, NewRow, Abstract!Init
<1>2. IInv /\ [Next]_vars => [Abstract!Next]_<<row.lifecycle, row.cause, row.results>>
  <2> SUFFICES ASSUME IInv, [Next]_vars
               PROVE  Abstract!Next \/ UNCHANGED <<row.lifecycle, row.cause, row.results>>
    OBVIOUS
  <2>1. Quiet \/ Starts \/ \E c \in Cause : Abstract!EndWith(c)
    BY OutcomeStep DEF IInv
  <2>2. Quiet => UNCHANGED <<row.lifecycle, row.cause, row.results>>
    BY DEF Quiet, SameOutcome
  <2>3. Starts => Abstract!Start
    BY DEF Starts, Abstract!Start
  <2>4. QED
    BY <2>1, <2>2, <2>3 DEF Abstract!Next
<1>3. QED
  BY <1>1, <1>2, InvariantHolds, PTL DEF Spec, ImplementsSessionOutcome, Abstract!Spec

=============================================================================

------------------------- MODULE ConnectionsProofs --------------------------
(***************************************************************************)
(* Proofs about Connections, for any finite set of roles and any number of *)
(* connections that each of them opens.                                    *)
(***************************************************************************)
EXTENDS Connections, TLAPS

Results == [Role -> Outcome] \cup {NoResults}
ExpiryPc == {"idle", "armed", "read", "end", "remove"}
Session == [live : BOOLEAN, lifecycle : {"forming", "running", "ended"},
            paused : BOOLEAN, connected : SUBSET Role,
            deadline : [Role -> {0} \cup UNION {Generation(r) : r \in Role}],
            results : Results]
Expiry == [pc : ExpiryPc, results : Results]

\* A role opens its connections one after the other.
OpenedInOrder ==
    \A r \in Role : \A g \in Generation(r) : socket[<<r, g>>] # "none" =>
        \A h \in 1..(g - 1) : socket[<<r, h>>] # "none"

\* The invariant: OwnerIsNewest needs the order of the connections, to know
\* that the one that registers is the newest of its role.
IInv == TypeOK /\ OpenedInOrder /\ OwnerIsNewest /\ LostIsTimed

-----------------------------------------------------------------------------
\* Connections are the pairs of a role and one of its generations; the sweep
\* is none of them.
LEMMA ConnPairs ==
    /\ \A r \in Role : \A g \in Generation(r) : <<r, g>> \in Conn /\ <<r, g>> \in Expirer
    /\ \A r \in Role : Generation(r) \subseteq Nat \ {0}
    /\ \A r \in Role : \A g \in Generation(r) : 1..(g - 1) \subseteq Generation(r)
    /\ \A c \in Conn : \E r \in Role : \E g \in Generation(r) : c = <<r, g>>
    /\ Sweeper \in Expirer /\ Sweeper \notin Conn
<1>1. \A r \in Role : MaxGenerations[r] \in Nat
  BY GenerationsAssumption
<1>2. \A r \in Role : /\ Generation(r) \subseteq Nat \ {0}
                      /\ \A g \in Generation(r) : 1..(g - 1) \subseteq Generation(r)
  BY <1>1 DEF Generation
<1>3. \A r \in Role : \A g \in Generation(r) : <<r, g>> \in Conn
  BY DEF Conn
<1>4. \A c \in Conn : \E r \in Role : \E g \in Generation(r) : c = <<r, g>>
  BY DEF Conn
<1>5. Sweeper \notin Conn
  BY <1>2, <1>4 DEF Sweeper
<1>6. QED
  BY <1>2, <1>3, <1>4, <1>5 DEF Expirer

\* Two connections are the same when role and generation are.
LEMMA SameConn ==
    \A r, q, g, h : <<r, g>> = <<q, h>> <=> r = q /\ g = h
OBVIOUS

\* TypeOK, with the types of its parts named.
LEMMA TypeParts ==
    /\ TypeOK <=> /\ socket \in [Conn -> SocketPc]
                  /\ DOMAIN owner = Role /\ \A r \in Role : owner[r] \in {0} \cup Generation(r)
                  /\ signalled \subseteq Conn /\ session \in Session
                  /\ elapsed \subseteq Conn /\ expiry \in [Expirer -> Expiry]
    /\ TypeOK' <=> /\ socket' \in [Conn -> SocketPc]
                   /\ DOMAIN owner' = Role /\ \A r \in Role : owner'[r] \in {0} \cup Generation(r)
                   /\ signalled' \subseteq Conn /\ session' \in Session
                   /\ elapsed' \subseteq Conn /\ expiry' \in [Expirer -> Expiry]
BY DEF TypeOK, Session, Expiry, ExpiryPc, Results

\* No result, and a task at rest.
LEMMA RestTypes ==
    /\ NoResults \in Results
    /\ Idle \in Expiry /\ [Idle EXCEPT !.pc = "remove"] \in Expiry
    /\ Idle.pc = "idle"
BY DEF Results, Expiry, ExpiryPc, Idle

\* The steps of one connection, of an expiry and of the sweep.
ConnStep(r, g) ==
    \/ Register(r, g) \/ MarkConnected(r, g) \/ MaybeStart(r, g)
    \/ Close(r, g) \/ Unregister(r, g) \/ MarkDisconnected(r, g) \/ Pause(r, g)
    \/ Elapse(r, g) \/ TimerFires(r, g)

\* Every step keeps the state well typed.
LEMMA TypeStep ==
    ASSUME TypeOK, [Next]_vars
    PROVE  TypeOK'
<1>1. /\ socket \in [Conn -> SocketPc]
      /\ DOMAIN owner = Role /\ (\A r \in Role : owner[r] \in {0} \cup Generation(r))
      /\ signalled \subseteq Conn /\ session \in Session
      /\ elapsed \subseteq Conn /\ expiry \in [Expirer -> Expiry]
  BY TypeParts
<1>2. ASSUME NEW r \in Role, NEW g \in Generation(r), ConnStep(r, g) PROVE TypeOK'
  <2>1. <<r, g>> \in Conn /\ <<r, g>> \in Expirer
    BY ConnPairs
  <2>2. ASSUME NEW pc \in SocketPc, Goto(<<r, g>>, pc) PROVE socket' \in [Conn -> SocketPc]
    BY <1>1, <2>2 DEF Goto
  <2>3. ASSUME NEW pc \in ExpiryPc, expiry' = [expiry EXCEPT ![<<r, g>>].pc = pc]
        PROVE  expiry' \in [Expirer -> Expiry]
    BY <1>1, <2>3 DEF Expiry
  <2>4. CASE Register(r, g)
    <3>1. socket' \in [Conn -> SocketPc]
      BY <2>2, <2>4 DEF Register, SocketPc
    <3>2. DOMAIN owner' = Role /\ \A q \in Role : owner'[q] \in {0} \cup Generation(q)
      BY <1>1, <2>4 DEF Register
    <3>3. signalled' \subseteq Conn
      BY <1>1, <2>4, ConnPairs DEF Register
    <3>4. QED
      BY <1>1, <2>4, <3>1, <3>2, <3>3, TypeParts DEF Register
  <2>5. CASE MarkConnected(r, g) \/ MaybeStart(r, g)
    <3>1. socket' \in [Conn -> SocketPc]
      BY <2>2, <2>5 DEF MarkConnected, MaybeStart, SocketPc
    <3>2. session' \in Session
      <4>1. CASE MarkConnected(r, g)
        <5>1. (session.paused /\ session.connected \cup {r} # Role) \in BOOLEAN
          OBVIOUS
        <5>2. session.connected \cup {r} \subseteq Role
          BY <1>1 DEF Session
        <5>3. CASE session.live
          <6>1. session' = [session EXCEPT !.connected = session.connected \cup {r},
                                           !.deadline[r] = 0,
                                           !.paused = @ /\ session.connected \cup {r} # Role]
            BY <4>1, <5>3 DEF MarkConnected
          <6>2. session.deadline \in [Role -> {0} \cup UNION {Generation(q) : q \in Role}]
            BY <1>1 DEF Session
          <6>3. [session.deadline EXCEPT ![r] = 0] \in [Role -> {0} \cup UNION {Generation(q) : q \in Role}]
            BY <6>2
          <6>4. QED
            BY <1>1, <5>1, <5>2, <6>1, <6>3 DEF Session
        <5>4. CASE ~session.live
          BY <1>1, <4>1, <5>4 DEF MarkConnected
        <5>5. QED
          BY <5>3, <5>4
      <4>2. CASE MaybeStart(r, g)
        BY <1>1, <4>2 DEF MaybeStart, Session
      <4>3. QED
        BY <2>5, <4>1, <4>2
    <3>3. QED
      BY <1>1, <2>5, <3>1, <3>2, TypeParts DEF MarkConnected, MaybeStart
  <2>6. CASE Close(r, g) \/ Unregister(r, g)
    <3>1. socket' \in [Conn -> SocketPc]
      BY <2>2, <2>6 DEF Close, Unregister, SocketPc
    <3>2. DOMAIN owner' = Role /\ \A q \in Role : owner'[q] \in {0} \cup Generation(q)
      BY <1>1, <2>6 DEF Close, Unregister
    <3>3. QED
      BY <1>1, <2>6, <3>1, <3>2, TypeParts DEF Close, Unregister
  <2>7. CASE MarkDisconnected(r, g) \/ Pause(r, g)
    <3>1. socket' \in [Conn -> SocketPc]
      BY <2>2, <2>7 DEF MarkDisconnected, Pause, SocketPc
    <3>2. session' \in Session
      <4>1. g \in UNION {Generation(q) : q \in Role}
        OBVIOUS
      <4>2. CASE MarkDisconnected(r, g)
        <5>1. session.deadline \in [Role -> {0} \cup UNION {Generation(q) : q \in Role}]
          BY <1>1 DEF Session
        <5>2. [session.deadline EXCEPT ![r] = g] \in [Role -> {0} \cup UNION {Generation(q) : q \in Role}]
          BY <4>1, <5>1
        <5>3. session.connected \ {r} \subseteq Role
          BY <1>1 DEF Session
        <5>4. QED
          BY <1>1, <4>2, <5>2, <5>3 DEF MarkDisconnected, Session
      <4>3. CASE Pause(r, g)
        BY <1>1, <4>3 DEF Pause, Session
      <4>4. QED
        BY <2>7, <4>2, <4>3
    <3>3. expiry' \in [Expirer -> Expiry]
      BY <1>1, <2>3, <2>7 DEF MarkDisconnected, Pause, ExpiryPc
    <3>4. QED
      BY <1>1, <2>7, <3>1, <3>2, <3>3, TypeParts DEF MarkDisconnected, Pause
  <2>8. CASE Elapse(r, g) \/ TimerFires(r, g)
    <3>1. expiry' \in [Expirer -> Expiry]
      BY <1>1, <2>3, <2>8 DEF Elapse, TimerFires, ExpiryPc
    <3>2. QED
      BY <1>1, <2>1, <2>8, <3>1, TypeParts DEF Elapse, TimerFires
  <2>9. QED
    BY <1>2, <2>4, <2>5, <2>6, <2>7, <2>8 DEF ConnStep
<1>3. ASSUME NEW e \in Expirer, ExpireRead(e) \/ ExpireEnd(e) PROVE TypeOK'
  <2>1. [r \in Role |-> IF r \in session.connected THEN "partner_left" ELSE "connection_lost"] \in Results
    BY DEF Results, Outcome
  <2>2. CASE ExpireRead(e)
    <3>1. expiry' \in [Expirer -> Expiry]
      BY <1>1, <2>1, <2>2, RestTypes DEF ExpireRead, Expiry, ExpiryPc
    <3>2. QED
      BY <1>1, <2>2, <3>1, TypeParts DEF ExpireRead
  <2>3. CASE ExpireEnd(e)
    <3>1. expiry' \in [Expirer -> Expiry]
      BY <1>1, <2>3, RestTypes DEF ExpireEnd
    <3>2. expiry[e].results \in Results
      BY <1>1 DEF Expiry
    <3>3. session' \in Session
      BY <1>1, <2>3, <3>2 DEF ExpireEnd, Session
    <3>4. QED
      BY <1>1, <2>3, <3>1, <3>3, TypeParts DEF ExpireEnd
  <2>4. QED
    BY <1>3, <2>2, <2>3
<1>4. CASE SweepPick \/ CleanupPick
  <2>1. expiry' \in [Expirer -> Expiry]
    BY <1>1, <1>4, ConnPairs DEF SweepPick, CleanupPick, Expiry, ExpiryPc
  <2>2. QED
    BY <1>1, <1>4, <2>1, TypeParts DEF SweepPick, CleanupPick
<1>5. CASE Remove
  <2>1. expiry' \in [Expirer -> Expiry]
    BY <1>1, <1>5, RestTypes DEF Remove
  <2>2. session' \in Session
    BY <1>1, <1>5 DEF Remove, Session
  <2>3. signalled' \subseteq Conn
    BY <1>1, <1>5, ConnPairs DEF Remove
  <2>4. QED
    BY <1>1, <1>5, <2>1, <2>2, <2>3, TypeParts DEF Remove
<1>6. CASE Rest \/ UNCHANGED vars
  BY <1>1, <1>6, TypeParts DEF Rest, vars
<1>7. QED
  BY <1>2, <1>3, <1>4, <1>5, <1>6 DEF Next, ConnStep

-----------------------------------------------------------------------------
(***************************************************************************)
(* One speaker for each role.                                              *)
(***************************************************************************)

\* Only the steps of a connection move its socket, and never back to none.
LEMMA SocketMoves ==
    ASSUME TypeOK, [Next]_vars
    PROVE  \A q \in Role : \A h \in Generation(q) :
             /\ socket[<<q, h>>] # "none" => socket'[<<q, h>>] # "none"
             /\ socket'[<<q, h>>] # "none" => socket[<<q, h>>] # "none" \/ Register(q, h)
             /\ socket'[<<q, h>>] \in {"registered", "start", "open"} =>
                  socket[<<q, h>>] \in {"registered", "start", "open"} \/ Register(q, h)
<1> SUFFICES ASSUME NEW q \in Role, NEW h \in Generation(q)
             PROVE  /\ socket[<<q, h>>] # "none" => socket'[<<q, h>>] # "none"
                    /\ socket'[<<q, h>>] # "none" => socket[<<q, h>>] # "none" \/ Register(q, h)
                    /\ socket'[<<q, h>>] \in {"registered", "start", "open"} =>
                         socket[<<q, h>>] \in {"registered", "start", "open"} \/ Register(q, h)
  OBVIOUS
<1>1. CASE socket'[<<q, h>>] = socket[<<q, h>>]
  BY <1>1
<1>2. ASSUME NEW r \in Role, NEW g \in Generation(r), ConnStep(r, g), <<r, g>> # <<q, h>>
      PROVE  socket'[<<q, h>>] = socket[<<q, h>>]
  BY <1>2, ConnPairs DEF ConnStep, Register, MarkConnected, MaybeStart, Close, Unregister,
       MarkDisconnected, Pause, Elapse, TimerFires, Goto, TypeOK
<1>3. CASE ConnStep(q, h)
  BY <1>3, ConnPairs DEF ConnStep, Register, MarkConnected, MaybeStart, Close, Unregister,
       MarkDisconnected, Pause, Elapse, TimerFires, Goto, TypeOK
<1>4. ASSUME (\E e \in Expirer : ExpireRead(e) \/ ExpireEnd(e)) \/ SweepPick \/ CleanupPick \/ Remove
             \/ Rest \/ UNCHANGED vars
      PROVE  socket' = socket
  BY <1>4 DEF ExpireRead, ExpireEnd, SweepPick, CleanupPick, Remove, Rest, vars
<1>5. QED
  BY <1>1, <1>2, <1>3, <1>4, SameConn DEF Next, ConnStep

\* The order of the connections is kept.
LEMMA OrderStep ==
    ASSUME TypeOK, OpenedInOrder, [Next]_vars
    PROVE  OpenedInOrder'
<1> SUFFICES ASSUME NEW r \in Role, NEW g \in Generation(r), socket'[<<r, g>>] # "none",
                    NEW h \in 1..(g - 1)
             PROVE  socket'[<<r, h>>] # "none"
  BY DEF OpenedInOrder
<1>1. h \in Generation(r)
  BY ConnPairs
<1>2. socket[<<r, h>>] # "none"
  BY SocketMoves DEF OpenedInOrder, Register
<1>3. QED
  BY <1>1, <1>2, SocketMoves

\* The registered generation of a role changes only by a registration or when
\* its own socket is closing.
OwnerKept(q) ==
    \/ owner'[q] = owner[q]
    \/ \E g \in Generation(q) : Register(q, g) \/ (socket[<<q, g>>] = "closing" /\ owner[q] = g)

\* Who writes the registry and the shutdown channels.
LEMMA RegistryMoves ==
    ASSUME TypeOK, [Next]_vars
    PROVE  /\ session'.live => session.live /\ ~Remove
           /\ signalled \subseteq signalled'
           /\ \A q \in Role : Remove \/ OwnerKept(q)
<1>1. Remove => ~session'.live
  BY DEF Remove, TypeOK
<1>2. ASSUME NEW r \in Role, NEW g \in Generation(r), ConnStep(r, g)
      PROVE  /\ session'.live => session.live
             /\ signalled \subseteq signalled'
             /\ \A q \in Role : OwnerKept(q)
  <2>1. session'.live <=> session.live
    BY <1>2 DEF ConnStep, Register, MarkConnected, MaybeStart, Close, Unregister,
         MarkDisconnected, Pause, Elapse, TimerFires, TypeOK
  <2>2. signalled \subseteq signalled'
    BY <1>2 DEF ConnStep, Register, MarkConnected, MaybeStart, Close, Unregister,
         MarkDisconnected, Pause, Elapse, TimerFires
  <2>3. ASSUME NEW q \in Role PROVE OwnerKept(q)
    <3>1. CASE Register(r, g)
      <4>1. CASE q = r
        BY <3>1, <4>1 DEF OwnerKept
      <4>2. CASE q # r
        BY <3>1, <4>2 DEF OwnerKept, Register, TypeOK
      <4>3. QED
        BY <4>1, <4>2
    <3>2. CASE Unregister(r, g)
      <4>1. CASE q = r /\ owner[r] = g
        BY <3>2, <4>1 DEF OwnerKept, Unregister
      <4>2. CASE ~(q = r /\ owner[r] = g)
        BY <3>2, <4>2 DEF OwnerKept, Unregister, TypeOK
      <4>3. QED
        BY <4>1, <4>2
    <3>3. CASE MarkConnected(r, g) \/ MaybeStart(r, g) \/ Close(r, g)
      BY <3>3 DEF OwnerKept, MarkConnected, MaybeStart, Close
    <3>4. CASE MarkDisconnected(r, g) \/ Pause(r, g)
      BY <3>4 DEF OwnerKept, MarkDisconnected, Pause
    <3>5. CASE Elapse(r, g) \/ TimerFires(r, g)
      BY <3>5 DEF OwnerKept, Elapse, TimerFires
    <3>6. QED
      BY <1>2, <3>1, <3>2, <3>3, <3>4, <3>5 DEF ConnStep
  <2>4. QED
    BY <2>1, <2>2, <2>3
<1>3. ASSUME NEW e \in Expirer, ExpireRead(e) \/ ExpireEnd(e)
      PROVE  /\ session'.live => session.live
             /\ UNCHANGED <<owner, signalled>>
  BY <1>3 DEF ExpireRead, ExpireEnd, TypeOK
<1>4. CASE SweepPick \/ CleanupPick \/ Rest \/ UNCHANGED vars
  BY <1>1, <1>4 DEF SweepPick, CleanupPick, Rest, vars, OwnerKept
<1>5. CASE Remove
  BY <1>1, <1>5 DEF Remove
<1>6. CASE \E e \in Expirer : ExpireRead(e) \/ ExpireEnd(e)
  BY <1>1, <1>3, <1>6 DEF OwnerKept
<1>7. CASE \E r \in Role : \E g \in Generation(r) : ConnStep(r, g)
  BY <1>1, <1>2, <1>7
<1>8. QED
  BY <1>4, <1>5, <1>6, <1>7 DEF Next, ConnStep

\* No two sockets can go on speaking for one role.
LEMMA OwnerStep ==
    ASSUME TypeOK, OpenedInOrder, OwnerIsNewest, [Next]_vars
    PROVE  OwnerIsNewest'
<1> SUFFICES ASSUME session'.live, NEW r \in Role, NEW g \in Generation(r),
                    socket'[<<r, g>>] \in {"registered", "start", "open"}
             PROVE  IF \A h \in Generation(r) : h > g => socket'[<<r, h>>] = "none"
                    THEN owner'[r] = g ELSE <<r, g>> \in signalled'
  BY DEF OwnerIsNewest, Newest, InUse
<1>1. session.live /\ ~Remove /\ signalled \subseteq signalled'
  BY RegistryMoves
<1>2. CASE Register(r, g)
  <2>1. owner'[r] = g
    BY <1>2 DEF Register, TypeOK
  <2>2. ASSUME NEW h \in Generation(r), h > g PROVE socket'[<<r, h>>] = "none"
    <3>1. g \in 1..(h - 1)
      BY <2>2, ConnPairs
    <3>2. socket[<<r, h>>] = "none"
      BY <1>2, <3>1 DEF OpenedInOrder, Register
    <3>3. <<r, h>> # <<r, g>> /\ <<r, h>> \in Conn
      BY <2>2, ConnPairs
    <3>4. QED
      BY <1>2, <3>2, <3>3 DEF Register, Goto, TypeOK
  <2>3. QED
    BY <2>1, <2>2
<1>3. CASE ~Register(r, g)
  <2>1. socket[<<r, g>>] \in {"registered", "start", "open"}
    BY <1>3, SocketMoves
  <2>2. IF Newest(r, g) THEN owner[r] = g ELSE <<r, g>> \in signalled
    BY <1>1, <2>1 DEF OwnerIsNewest, InUse
  <2>3. CASE ~Newest(r, g)
    <3>1. \E h \in Generation(r) : h > g /\ socket'[<<r, h>>] # "none"
      BY <2>3, SocketMoves DEF Newest
    <3>2. QED
      BY <1>1, <2>2, <2>3, <3>1
  <2>4. CASE Newest(r, g)
    <3>1. owner[r] = g /\ g # 0
      BY <2>2, <2>4, ConnPairs
    <3>2. CASE \E h \in Generation(r) : Register(r, h)
      <4>1. PICK h \in Generation(r) : Register(r, h)
        BY <3>2
      <4>2. <<r, g>> \in signalled'
        BY <3>1, <4>1 DEF Register
      <4>3. h > g
        <5>1. socket[<<r, h>>] = "none" /\ h # g
          BY <1>3, <4>1 DEF Register
        <5>2. ~(h < g)
          <6>1. h < g => h \in 1..(g - 1)
            BY ConnPairs
          <6>2. QED
            BY <2>1, <5>1, <6>1 DEF OpenedInOrder
        <5>3. QED
          BY <5>1, <5>2, ConnPairs
      <4>4. socket'[<<r, h>>] # "none"
        BY <4>1, ConnPairs DEF Register, Goto, TypeOK
      <4>5. QED
        BY <4>2, <4>3, <4>4
    <3>3. CASE ~ \E h \in Generation(r) : Register(r, h)
      <4>1. owner'[r] = g
        BY <1>1, <2>1, <3>1, <3>3, RegistryMoves DEF OwnerKept
      <4>2. \A h \in Generation(r) : h > g => socket'[<<r, h>>] = "none"
        BY <2>4, <3>3, SocketMoves DEF Newest
      <4>3. QED
        BY <4>1, <4>2
    <3>4. QED
      BY <3>2, <3>3
  <2>5. QED
    BY <2>3, <2>4
<1>4. QED
  BY <1>2, <1>3

-----------------------------------------------------------------------------
(***************************************************************************)
(* Nobody who is marked lost is forgotten.                                 *)
(***************************************************************************)

\* What LostIsTimed promises for a role.
Timed(r) ==
    \/ \E g \in Generation(r) : socket[<<r, g>>] = "pausing"
    \/ \E g \in Generation(r) : expiry[<<r, g>>].pc # "idle"

MarkedLost(r) == session.deadline[r] # 0 /\ r \notin session.connected

\* The promise is handed on: the closing socket to its timer, the timer to
\* the expiry, the expiry to the end of the session.
LEMMA LostStep ==
    ASSUME TypeOK, LostIsTimed, [Next]_vars
    PROVE  LostIsTimed'
<1> SUFFICES ASSUME session'.live, session'.lifecycle # "ended",
                    NEW q \in Role, MarkedLost(q)'
             PROVE  Timed(q)'
  BY DEF LostIsTimed, Timed, MarkedLost
<1>1. session.live /\ session.lifecycle # "ended" /\ MarkedLost(q) => Timed(q)
  BY DEF LostIsTimed, Timed, MarkedLost
<1>2. ASSUME NEW r \in Role, NEW g \in Generation(r), ConnStep(r, g) PROVE Timed(q)'
  <2>1. <<r, g>> \in Conn /\ <<r, g>> \in Expirer
    BY ConnPairs
  <2>2. \A h \in Generation(q) : <<q, h>> \in Conn /\ <<q, h>> \in Expirer
    BY ConnPairs
  <2>3. ASSUME UNCHANGED <<session, expiry>>, NEW pc \in SocketPc, Goto(<<r, g>>, pc),
               socket[<<r, g>>] # "pausing"
        PROVE  Timed(q)'
    BY <1>1, <2>1, <2>2, <2>3 DEF Timed, MarkedLost, Goto, TypeOK
  <2>4. CASE Register(r, g) \/ Close(r, g) \/ Unregister(r, g)
    BY <2>3, <2>4 DEF Register, Close, Unregister, SocketPc
  <2>5. CASE MarkConnected(r, g)
    <3>1. session.live /\ session.lifecycle # "ended"
      BY <2>5 DEF MarkConnected, TypeOK
    <3>2. q # r /\ MarkedLost(q)
      BY <2>5, <3>1 DEF MarkConnected, MarkedLost, TypeOK
    <3>3. QED
      BY <1>1, <2>1, <2>2, <2>5, <3>1, <3>2 DEF MarkConnected, Timed, Goto, TypeOK
  <2>6. CASE MaybeStart(r, g)
    <3>1. session.live /\ session.lifecycle # "ended" /\ MarkedLost(q)
      BY <2>6 DEF MaybeStart, MarkedLost, TypeOK
    <3>2. QED
      BY <1>1, <2>1, <2>2, <2>6, <3>1 DEF MaybeStart, Timed, Goto, TypeOK
  <2>7. CASE MarkDisconnected(r, g)
    <3>1. socket'[<<r, g>>] = "pausing"
      BY <2>1, <2>7 DEF MarkDisconnected, Goto, TypeOK
    <3>2. CASE q = r
      BY <3>1, <3>2 DEF Timed
    <3>3. CASE q # r
      <4>1. session.live /\ session.lifecycle # "ended"
        BY <2>7 DEF MarkDisconnected, TypeOK
      <4>2. MarkedLost(q)
        BY <2>7, <3>3, <4>1 DEF MarkDisconnected, MarkedLost, TypeOK
      <4>3. QED
        BY <1>1, <2>1, <2>2, <2>7, <4>1, <4>2 DEF MarkDisconnected, Timed, Goto, TypeOK
    <3>4. QED
      BY <3>2, <3>3
  <2>8. CASE Pause(r, g)
    <3>1. expiry'[<<r, g>>].pc = "armed"
      BY <2>1, <2>8 DEF Pause, TypeOK
    <3>2. \A e \in Expirer : e # <<r, g>> => expiry'[e] = expiry[e]
      BY <2>8 DEF Pause, TypeOK
    <3>3. \A c \in Conn : c # <<r, g>> => socket'[c] = socket[c]
      BY <2>8 DEF Pause, Goto, TypeOK
    <3>4. session.live /\ session.lifecycle # "ended" /\ MarkedLost(q)
      BY <2>8 DEF Pause, MarkedLost, TypeOK
    <3>5. CASE q = r
      BY <3>1, <3>5 DEF Timed
    <3>6. CASE q # r
      BY <1>1, <2>2, <3>2, <3>3, <3>4, <3>6, SameConn DEF Timed
    <3>7. QED
      BY <3>5, <3>6
  <2>9. CASE Elapse(r, g)
    BY <1>1, <2>9 DEF Elapse, Timed, MarkedLost
  <2>10. CASE TimerFires(r, g)
    <3>1. session.live /\ session.lifecycle # "ended" /\ MarkedLost(q) /\ socket' = socket
      BY <2>10 DEF TimerFires, MarkedLost
    <3>2. CASE q = r
      <4>1. expiry'[<<r, g>>].pc = "read"
        BY <2>1, <2>10, <3>1, <3>2 DEF TimerFires, MarkedLost, TypeOK
      <4>2. QED
        BY <3>2, <4>1 DEF Timed
    <3>3. CASE q # r
      <4>1. \A e \in Expirer : e # <<r, g>> => expiry'[e] = expiry[e]
        BY <2>10 DEF TimerFires, TypeOK
      <4>2. QED
        BY <1>1, <2>2, <3>1, <3>3, <4>1, SameConn DEF Timed
    <3>4. QED
      BY <3>2, <3>3
  <2>11. QED
    BY <1>2, <2>4, <2>5, <2>6, <2>7, <2>8, <2>9, <2>10 DEF ConnStep
<1>3. ASSUME NEW e \in Expirer, ExpireRead(e) PROVE Timed(q)'
  <2>1. session.live /\ session.lifecycle # "ended" /\ MarkedLost(q) /\ socket' = socket
    BY <1>3 DEF ExpireRead, MarkedLost
  <2>2. expiry'[e].pc = "end"
    BY <1>3, <2>1 DEF ExpireRead, TypeOK
  <2>3. \A f \in Expirer : f # e => expiry'[f] = expiry[f]
    BY <1>3 DEF ExpireRead, TypeOK
  <2>4. QED
    BY <1>1, <2>1, <2>2, <2>3, ConnPairs DEF Timed
<1>4. ASSUME NEW e \in Expirer, ExpireEnd(e) PROVE FALSE
  BY <1>4 DEF ExpireEnd, TypeOK
<1>5. CASE SweepPick \/ CleanupPick
  <2>1. session.live /\ session.lifecycle # "ended" /\ MarkedLost(q) /\ socket' = socket
    BY <1>5 DEF SweepPick, CleanupPick, MarkedLost
  <2>2. \A f \in Expirer : f # Sweeper => expiry'[f] = expiry[f]
    BY <1>5 DEF SweepPick, CleanupPick, TypeOK
  <2>3. \A h \in Generation(q) : <<q, h>> \in Expirer /\ <<q, h>> # Sweeper
    BY ConnPairs
  <2>4. QED
    BY <1>1, <2>1, <2>2, <2>3 DEF Timed
<1>6. CASE Remove
  BY <1>6 DEF Remove, TypeOK
<1>7. CASE Rest \/ UNCHANGED vars
  BY <1>1, <1>7 DEF Rest, vars, Timed, MarkedLost
<1>8. QED
  BY <1>2, <1>3, <1>4, <1>5, <1>6, <1>7 DEF Next, ConnStep

-----------------------------------------------------------------------------
\* The first connections find no other.
LEMMA InitHolds == Init => IInv
<1> SUFFICES ASSUME Init PROVE IInv
  OBVIOUS
<1>1. socket \in [Conn -> SocketPc] /\ signalled \subseteq Conn /\ elapsed \subseteq Conn
  BY DEF Init, SocketPc
<1>2. DOMAIN owner = Role /\ \A r \in Role : owner[r] \in {0} \cup Generation(r)
  BY DEF Init
<1>3. expiry \in [Expirer -> Expiry]
  BY RestTypes DEF Init
<1>4. session \in Session
  BY RestTypes DEF Init, Session
<1>5. TypeOK
  BY <1>1, <1>2, <1>3, <1>4, TypeParts
<1>6. \A r \in Role : \A g \in Generation(r) : socket[<<r, g>>] = "none"
  BY ConnPairs DEF Init
<1>7. \A r \in Role : session.deadline[r] = 0
  BY DEF Init
<1>8. QED
  BY <1>5, <1>6, <1>7 DEF IInv, OpenedInOrder, OwnerIsNewest, InUse, LostIsTimed

\* In every reachable state the state is well typed, the registry names the
\* newest socket of a role as long as that one is in use and every older one
\* still in its loop has been told to stop, and whoever is marked disconnected
\* in a session that goes on has a pause, a timer or an expiry under way
\* (register_connection, unregister_connection, websocket_loop and
\* expire_live_session, for any roles and any number of connections).
THEOREM SocketsStayOrderly == Spec => []SocketsAreOrderly
<1>1. Init => IInv
  BY InitHolds
<1>2. IInv /\ [Next]_vars => IInv'
  BY TypeStep, OrderStep, OwnerStep, LostStep DEF IInv
<1>3. IInv => SocketsAreOrderly
  BY DEF IInv, SocketsAreOrderly
<1>4. QED
  BY <1>1, <1>2, <1>3, PTL DEF Spec

=============================================================================

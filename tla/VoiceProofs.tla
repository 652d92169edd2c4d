---------------------------- MODULE VoiceProofs ----------------------------
(***************************************************************************)
(* Proofs about audio between participants: the relay of frames (Voice),    *)
(* the transcription of one speaker (TranscriptStream, on the clock of     *)
(* TranscriptionClock) and a spoken agent message (Speech).  Each part has *)
(* its specification, its inductive invariant and its theorem.             *)
(***************************************************************************)
EXTENDS Voice, TranscriptStream, Speech, FiniteSetTheorems, TLAPS

-----------------------------------------------------------------------------
(* The audio sockets *)

\* What a socket's queue holds, and where a socket is that entered audio_sessions.
Message == [from : Sender \cup {None}, seq : Nat]
Registered == {"connected", "loop", "current", "accepts", "closing"}

\* The socket that entered audio_sessions last owns the relay until it leaves,
\* and nobody else does; who is in a registry is on its way through.
OwnerIsNewest ==
    \A r \in Role :
        /\ newest[r] \in Socket \cup {None}
        /\ newest[r] # None => RoleOf[newest[r]] = r
        /\ peer[r] # None => peer[r] = newest[r] /\ pc[peer[r]] \in Registered
        /\ newest[r] # None /\ pc[newest[r]] \in Registered => peer[r] = newest[r]
        /\ control[r] # None => RoleOf[control[r]] = r /\ pc[control[r]] \notin {"none", "done"}

\* What waits was said before: by a socket no later than its last frame, and
\* before the frame it has in hand; by the agent no later than the last one.
QueuedIsSaid ==
    \A s \in Socket : \A i \in DOMAIN queue[s] :
        /\ \A x \in Socket : queue[s][i].from = x =>
              /\ queue[s][i].seq <= last[x]
              /\ pc[x] \in {"current", "accepts"} => queue[s][i].seq < last[x]
        /\ queue[s][i].from = Agent => queue[s][i].seq <= spoken

\* A socket has no recognition before its loop; a role is ready by one of its
\* sockets, and a game that runs needed both.
ReadyIsHeard ==
    /\ \A s \in Socket : pc[s] \in {"none", "registered", "connected"} => asr[s] = "none"
    /\ transcribed =>
        /\ \A r \in Role : audioReady[r] => \E s \in Socket : RoleOf[s] = r /\ asr[s] = "ready"
        /\ life = "running" => \A r \in Role : audioReady[r]

\* The inductive invariant, with the types of what VoiceTypeOK leaves out.
VoiceTyped == VoiceTypeOK /\ newest \in [Role -> Socket \cup {None}] /\ spoken \in Nat
VoiceIInv ==
    /\ VoiceTyped
    /\ OwnerIsNewest /\ QueuedIsSaid /\ FramesKeepOrder /\ ReadyIsHeard

\* The bounds are numbers, roles are two, and a name is not a socket.
LEMMA VoiceBounds ==
    /\ RoleOf \in [Socket -> {"A", "B"}] /\ QueueCap \in Nat /\ QueueCap > 0
    /\ MaxFrame \in Nat /\ MaxSpoken \in Nat
    /\ None \notin Socket /\ Agent \notin Socket /\ None # Agent
BY VoiceAssumption, NamesAssumption DEF None, Agent

\* The partner of a role.
LEMMA OtherRole == other("A") = "B" /\ other("B") = "A"
<1>1. \A r \in Role : \E q \in Role : q # r
  BY DEF Role
<1>2. \A r \in Role : other(r) \in Role /\ other(r) # r
  BY <1>1 DEF other
<1>3. QED
  BY <1>2 DEF Role

\* Queues of messages in order, and what a new message may not overtake.
Queues == [Socket -> Seq(Message)]
InOrder(q) ==
    \A s \in Socket : \A i, j \in DOMAIN q[s] :
        i < j /\ q[s][i].from \in Sender /\ q[s][i].from = q[s][j].from => q[s][i].seq < q[s][j].seq
Fits(q) == \A s \in Socket : Len(q[s]) <= QueueCap
Follows(q, r, m) ==
    m.from \in Sender /\ peer[r] \in Socket =>
        \A i \in DOMAIN q[peer[r]] : q[peer[r]][i].from = m.from => q[peer[r]][i].seq < m.seq
\* Every message of the new queues is an old one or m, the latter at peer[r].
AddsOnly(q, new, r, m) ==
    \A s \in Socket : \A i \in DOMAIN new[s] :
        (i \in DOMAIN q[s] /\ new[s][i] = q[s][i]) \/ (s = peer[r] /\ new[s][i] = m)

\* try_send: queues stay typed, bounded and in order.
LEMMA SentInOrder ==
    ASSUME NEW q \in Queues, NEW r \in Role, NEW m \in Message, peer[r] \in Socket \cup {None},
           InOrder(q), Fits(q), Follows(q, r, m)
    PROVE  Sent(q, r, m) \in Queues /\ InOrder(Sent(q, r, m)) /\ Fits(Sent(q, r, m))
           /\ AddsOnly(q, Sent(q, r, m), r, m)
<1> DEFINE new == Sent(q, r, m)
<1> DEFINE p == peer[r]
<1>1. CASE p = None \/ ~(Len(q[p]) < QueueCap)
  <2>1. new = q
    BY <1>1 DEF Sent
  <2>2. QED
    BY <2>1 DEF AddsOnly
<1>2. CASE p # None /\ Len(q[p]) < QueueCap
  <2>1. p \in Socket
    BY <1>2
  <2>2. new = [q EXCEPT ![p] = Append(q[p], m)]
    BY <1>2 DEF Sent
  <2>3. /\ new \in Queues /\ new[p] = Append(q[p], m) /\ \A s \in Socket : s # p => new[s] = q[s]
    BY <2>1, <2>2 DEF Queues
  <2>4. q[p] \in Seq(Message) /\ Len(q[p]) \in Nat /\ DOMAIN q[p] = 1 .. Len(q[p])
    BY <2>1 DEF Queues
  <2>5. /\ DOMAIN new[p] = 1 .. Len(q[p]) + 1 /\ Len(new[p]) = Len(q[p]) + 1
        /\ new[p][Len(q[p]) + 1] = m /\ \A i \in 1 .. Len(q[p]) : new[p][i] = q[p][i]
    BY <2>3, <2>4
  <2> HIDE DEF new
  <2>6. AddsOnly(q, new, r, m)
    BY <2>1, <2>3, <2>4, <2>5 DEF AddsOnly
  <2>7. Fits(new)
    BY <1>2, <2>3, <2>4, <2>5, VoiceBounds DEF Fits
  <2>8. InOrder(new)
    <3> SUFFICES ASSUME NEW s \in Socket, NEW i \in DOMAIN new[s], NEW j \in DOMAIN new[s], i < j,
                        new[s][i].from \in Sender, new[s][i].from = new[s][j].from
                 PROVE  new[s][i].seq < new[s][j].seq
      BY DEF InOrder
    <3>1. CASE s # p
      BY <2>3, <3>1 DEF InOrder
    <3>2. CASE s = p
      <4>1. i \in 1 .. Len(q[p])
        BY <2>4, <2>5, <3>2
      <4>2. CASE j = Len(q[p]) + 1
        BY <2>1, <2>4, <2>5, <3>2, <4>1, <4>2 DEF Follows
      <4>3. CASE j \in 1 .. Len(q[p])
        BY <2>1, <2>4, <2>5, <3>2, <4>1, <4>3 DEF InOrder
      <4>4. QED
        BY <2>4, <2>5, <3>2, <4>2, <4>3
    <3>3. QED
      BY <3>1, <3>2
  <2>9. QED
    BY <2>3, <2>6, <2>7, <2>8 DEF new
<1>3. QED
  BY <1>1, <1>2

\* The queues of a state.
LEMMA QueuesOfState ==
    ASSUME VoiceIInv
    PROVE  /\ queue \in Queues /\ InOrder(queue) /\ Fits(queue)
           /\ \A s \in Socket : queue[s] \in Seq(Message) /\ Len(queue[s]) \in Nat /\ DOMAIN queue[s] = 1 .. Len(queue[s])
           /\ \A s \in Socket : \A i \in DOMAIN queue[s] : queue[s][i] \in Message
           /\ \A r \in Role : peer[r] \in Socket \cup {None}
           /\ \A s \in Socket : last[s] \in Nat
           /\ Status \in Message /\ Status.from \notin Sender
<1>1. queue \in Queues
  BY DEF VoiceIInv, VoiceTyped, VoiceTypeOK, Queues, Message
<1>2. \A s \in Socket : queue[s] \in Seq(Message)
  BY <1>1 DEF Queues
<1>3. \A s \in Socket : Len(queue[s]) \in Nat /\ DOMAIN queue[s] = 1 .. Len(queue[s])
                        /\ \A i \in DOMAIN queue[s] : queue[s][i] \in Message
  BY <1>2
<1>4. InOrder(queue) /\ Fits(queue)
  BY DEF VoiceIInv, VoiceTyped, VoiceTypeOK, FramesKeepOrder, InOrder, Fits
<1>5. Status \in Message /\ Status.from \notin Sender
  BY VoiceBounds DEF Status, Message, Sender
<1>6. \A r \in Role : peer[r] \in Socket \cup {None}
  BY DEF VoiceIInv, VoiceTyped, VoiceTypeOK
<1>7. \A s \in Socket : last[s] \in Nat
  BY VoiceBounds DEF VoiceIInv, VoiceTyped, VoiceTypeOK
<1>8. QED
  BY <1>1, <1>2, <1>3, <1>4, <1>5, <1>6, <1>7

\* A status of a participant waits like any other message.
LEMMA StatusIsSent ==
    ASSUME VoiceIInv, NEW r \in Role, queue' = Sent(queue, r, Status), UNCHANGED <<last, spoken>>,
           \A x \in Socket : pc'[x] \in {"current", "accepts"} => pc[x] \in {"current", "accepts"}
    PROVE  queue' \in Queues /\ InOrder(queue') /\ Fits(queue') /\ QueuedIsSaid'
<1>1. Follows(queue, r, Status)
  BY QueuesOfState DEF Follows
<1>2. queue' \in Queues /\ InOrder(queue') /\ Fits(queue') /\ AddsOnly(queue, queue', r, Status)
  BY <1>1, QueuesOfState, SentInOrder
<1>3. \A x \in Sender : Status.from # x
  BY QueuesOfState
<1>4. QueuedIsSaid'
  BY <1>2, <1>3 DEF VoiceIInv, QueuedIsSaid, AddsOnly, Sender
<1>5. QED
  BY <1>2, <1>4

\* Queues that stay as they are.
LEMMA QueuesKept ==
    ASSUME VoiceIInv, UNCHANGED <<queue, spoken>>,
           \A x \in Socket : last[x] <= last'[x] /\ last'[x] \in Nat,
           \A x \in Socket : pc'[x] \in {"current", "accepts"} => pc[x] \in {"current", "accepts"} \/ last[x] < last'[x]
    PROVE  queue' \in Queues /\ InOrder(queue') /\ Fits(queue') /\ QueuedIsSaid'
<1>1. queue' \in Queues /\ InOrder(queue') /\ Fits(queue')
  BY QueuesOfState DEF Queues, InOrder, Fits
<1>2. QueuedIsSaid'
  <2> SUFFICES ASSUME NEW s \in Socket, NEW i \in DOMAIN queue[s]
               PROVE  /\ \A x \in Socket : queue[s][i].from = x =>
                            /\ queue[s][i].seq <= last'[x]
                            /\ pc'[x] \in {"current", "accepts"} => queue[s][i].seq < last'[x]
                      /\ queue[s][i].from = Agent => queue[s][i].seq <= spoken
    BY DEF QueuedIsSaid
  <2>1. queue[s][i].seq \in Nat
    BY QueuesOfState DEF Message
  <2>2. QED
    BY <2>1, QueuesOfState DEF VoiceIInv, QueuedIsSaid
<1>3. QED
  BY <1>1, <1>2

\* The queues keep their order and hold what was said.
LEMMA QueuesStep ==
    ASSUME VoiceIInv, VoiceNext
    PROVE  queue' \in Queues /\ InOrder(queue') /\ Fits(queue') /\ QueuedIsSaid'
<1>1. CASE Session
  <2>1. /\ UNCHANGED <<queue, spoken>> /\ \A x \in Socket : last[x] <= last'[x] /\ last'[x] \in Nat
        /\ \A x \in Socket : pc'[x] \in {"current", "accepts"} => pc[x] \in {"current", "accepts"} \/ last[x] < last'[x]
    BY <1>1, QueuesOfState DEF VoiceIInv, VoiceTyped, VoiceTypeOK, Session, StartGame, End
  <2>2. QED
    BY <2>1, QueuesKept
<1>2. CASE publish_agent
  <2> DEFINE m == [from |-> Agent, seq |-> spoken + 1]
  <2> DEFINE q == Sent(queue, "A", m)
  <2>1. /\ "A" \in Role /\ "B" \in Role /\ m \in Message /\ m.from = Agent /\ m.seq = spoken + 1
        /\ Agent \in Sender /\ Agent \notin Socket /\ spoken \in Nat
    BY VoiceBounds DEF VoiceIInv, VoiceTyped, Role, Message, Sender
  <2>2. spoken' = spoken + 1 /\ queue' = Sent(q, "B", m) /\ UNCHANGED <<pc, last>>
    BY <1>2 DEF publish_agent, regVars
  <2>3. \A s \in Socket : \A i \in DOMAIN queue[s] : queue[s][i].from = Agent => queue[s][i].seq < spoken + 1
    BY <2>1, QueuesOfState DEF VoiceIInv, QueuedIsSaid, Message
  <2> HIDE DEF m
  <2>4. Follows(queue, "A", m)
    BY <2>1, <2>3 DEF Follows
  <2>5. q \in Queues /\ InOrder(q) /\ Fits(q) /\ AddsOnly(queue, q, "A", m)
    BY <2>1, <2>4, QueuesOfState, SentInOrder
  <2>6. peer["A"] \in Socket /\ peer["B"] \in Socket => peer["A"] # peer["B"]
    BY <2>1, VoiceBounds DEF VoiceIInv, OwnerIsNewest
  <2> HIDE DEF q
  <2>7. Follows(q, "B", m)
    <3> SUFFICES ASSUME peer["B"] \in Socket, NEW i \in DOMAIN q[peer["B"]], q[peer["B"]][i].from = m.from
                 PROVE  q[peer["B"]][i].seq < m.seq
      BY DEF Follows
    <3>1. i \in DOMAIN queue[peer["B"]] /\ q[peer["B"]][i] = queue[peer["B"]][i]
      BY <2>5, <2>6 DEF AddsOnly
    <3>2. QED
      BY <2>1, <2>3, <3>1
  <2>8. queue' \in Queues /\ InOrder(queue') /\ Fits(queue') /\ AddsOnly(q, queue', "B", m)
    BY <2>1, <2>2, <2>5, <2>7, QueuesOfState, SentInOrder
  <2>9. QueuedIsSaid'
    <3> SUFFICES ASSUME NEW t \in Socket, NEW i \in DOMAIN queue'[t]
                 PROVE  /\ \A x \in Socket : queue'[t][i].from = x =>
                              /\ queue'[t][i].seq <= last[x]
                              /\ pc[x] \in {"current", "accepts"} => queue'[t][i].seq < last[x]
                        /\ queue'[t][i].from = Agent => queue'[t][i].seq <= spoken + 1
      BY <2>2 DEF QueuedIsSaid
    <3>1. (i \in DOMAIN queue[t] /\ queue'[t][i] = queue[t][i]) \/ queue'[t][i] = m
      BY <2>5, <2>8 DEF AddsOnly
    <3>2. CASE i \in DOMAIN queue[t] /\ queue'[t][i] = queue[t][i]
      BY <2>1, <2>3, <3>2, QueuesOfState DEF VoiceIInv, QueuedIsSaid, Message
    <3>3. CASE queue'[t][i] = m
      BY <2>1, <3>3
    <3>4. QED
      BY <3>1, <3>2, <3>3
  <2>10. QED
    BY <2>8, <2>9
<1>3. ASSUME NEW s \in Socket, ConnectPeer(s)
      PROVE  queue' \in Queues /\ InOrder(queue') /\ Fits(queue') /\ QueuedIsSaid'
  <2>1. /\ UNCHANGED <<queue, spoken>> /\ \A x \in Socket : last[x] <= last'[x] /\ last'[x] \in Nat
        /\ \A x \in Socket : pc'[x] \in {"current", "accepts"} => pc[x] \in {"current", "accepts"} \/ last[x] < last'[x]
    BY <1>3, QueuesOfState DEF VoiceIInv, VoiceTyped, VoiceTypeOK, ConnectPeer
  <2>2. QED
    BY <2>1, QueuesKept
<1>4. ASSUME NEW s \in Socket, StartTranscription(s)
      PROVE  queue' \in Queues /\ InOrder(queue') /\ Fits(queue') /\ QueuedIsSaid'
  <2>1. RoleOf[s] \in Role /\ UNCHANGED <<last, spoken>>
        /\ (\A x \in Socket : pc'[x] \in {"current", "accepts"} => pc[x] \in {"current", "accepts"})
    BY <1>4, VoiceBounds DEF VoiceIInv, VoiceTyped, VoiceTypeOK, Role, StartTranscription
  <2>2. UNCHANGED queue \/ queue' = Sent(queue, RoleOf[s], Status)
    BY <1>4 DEF StartTranscription
  <2>3. \A x \in Socket : last[x] <= last'[x] /\ last'[x] \in Nat
    BY <2>1, QueuesOfState
  <2>4. QED
    BY <2>1, <2>2, <2>3, StatusIsSent, QueuesKept
<1>5. ASSUME NEW s \in Socket, ReadyWithoutTranscription(s)
      PROVE  queue' \in Queues /\ InOrder(queue') /\ Fits(queue') /\ QueuedIsSaid'
  <2>1. RoleOf[s] \in Role /\ queue' = Sent(queue, RoleOf[s], Status) /\ UNCHANGED <<last, spoken>>
        /\ \A x \in Socket : pc'[x] \in {"current", "accepts"} => pc[x] \in {"current", "accepts"}
    BY <1>5, VoiceBounds DEF VoiceIInv, VoiceTyped, VoiceTypeOK, Role, ReadyWithoutTranscription
  <2>2. QED
    BY <2>1, StatusIsSent
<1>6. ASSUME NEW s \in Socket, CheckCurrent(s)
      PROVE  queue' \in Queues /\ InOrder(queue') /\ Fits(queue') /\ QueuedIsSaid'
  <2>1. /\ UNCHANGED <<queue, spoken>> /\ \A x \in Socket : last[x] <= last'[x] /\ last'[x] \in Nat
        /\ \A x \in Socket : pc'[x] \in {"current", "accepts"} => pc[x] \in {"current", "accepts"} \/ last[x] < last'[x]
    BY <1>6, QueuesOfState DEF VoiceIInv, VoiceTyped, VoiceTypeOK, CheckCurrent
  <2>2. QED
    BY <2>1, QueuesKept
<1>7. ASSUME NEW s \in Socket, DropAudio(s)
      PROVE  queue' \in Queues /\ InOrder(queue') /\ Fits(queue') /\ QueuedIsSaid'
  <2>1. /\ UNCHANGED <<queue, spoken>> /\ \A x \in Socket : last[x] <= last'[x] /\ last'[x] \in Nat
        /\ \A x \in Socket : pc'[x] \in {"current", "accepts"} => pc[x] \in {"current", "accepts"} \/ last[x] < last'[x]
    BY <1>7, QueuesOfState DEF VoiceIInv, VoiceTyped, VoiceTypeOK, DropAudio
  <2>2. QED
    BY <2>1, QueuesKept
<1>8. ASSUME NEW s \in Socket, relay_partner(s)
      PROVE  queue' \in Queues /\ InOrder(queue') /\ Fits(queue') /\ QueuedIsSaid'
  <2> DEFINE m == [from |-> s, seq |-> last[s]]
  <2> DEFINE r == other(RoleOf[s])
  <2>1. r \in Role /\ m \in Message /\ m.from = s /\ m.seq = last[s] /\ s \in Sender /\ s # Agent /\ last[s] \in Nat
    BY VoiceBounds, OtherRole, QueuesOfState DEF Role, Message, Sender
  <2>2. pc[s] = "accepts" /\ queue' = Sent(queue, r, m) /\ pc' = [pc EXCEPT ![s] = "loop"] /\ UNCHANGED <<last, spoken>>
    BY <1>8 DEF relay_partner
  <2>3. Follows(queue, r, m)
    BY <2>1, <2>2, QueuesOfState DEF Follows, VoiceIInv, QueuedIsSaid
  <2>4. queue' \in Queues /\ InOrder(queue') /\ Fits(queue') /\ AddsOnly(queue, queue', r, m)
    BY <2>1, <2>2, <2>3, QueuesOfState, SentInOrder
  <2>5. pc'[s] = "loop" /\ \A x \in Socket \ {s} : pc'[x] = pc[x]
    BY <2>2 DEF VoiceIInv, VoiceTyped, VoiceTypeOK
  <2> HIDE DEF m, r
  <2>6. QueuedIsSaid'
    <3> SUFFICES ASSUME NEW t \in Socket, NEW i \in DOMAIN queue'[t]
                 PROVE  /\ \A x \in Socket : queue'[t][i].from = x =>
                              /\ queue'[t][i].seq <= last[x]
                              /\ pc'[x] \in {"current", "accepts"} => queue'[t][i].seq < last[x]
                        /\ queue'[t][i].from = Agent => queue'[t][i].seq <= spoken
      BY <2>2 DEF QueuedIsSaid
    <3>1. CASE i \in DOMAIN queue[t] /\ queue'[t][i] = queue[t][i]
      BY <2>5, <3>1 DEF VoiceIInv, QueuedIsSaid
    <3>2. CASE queue'[t][i] = m
      BY <2>1, <2>5, <3>2
    <3>3. QED
      BY <2>4, <3>1, <3>2 DEF AddsOnly
  <2>7. QED
    BY <2>4, <2>6
<1>9. ASSUME NEW s \in Socket, Cancelled(s)
      PROVE  queue' \in Queues /\ InOrder(queue') /\ Fits(queue') /\ QueuedIsSaid'
  <2>1. /\ UNCHANGED <<queue, spoken>> /\ \A x \in Socket : last[x] <= last'[x] /\ last'[x] \in Nat
        /\ \A x \in Socket : pc'[x] \in {"current", "accepts"} => pc[x] \in {"current", "accepts"} \/ last[x] < last'[x]
    BY <1>9, QueuesOfState DEF VoiceIInv, VoiceTyped, VoiceTypeOK, Cancelled
  <2>2. QED
    BY <2>1, QueuesKept
<1>10. ASSUME NEW s \in Socket, DisconnectPeer(s)
      PROVE  queue' \in Queues /\ InOrder(queue') /\ Fits(queue') /\ QueuedIsSaid'
  <2>1. /\ UNCHANGED <<queue, spoken>> /\ \A x \in Socket : last[x] <= last'[x] /\ last'[x] \in Nat
        /\ \A x \in Socket : pc'[x] \in {"current", "accepts"} => pc[x] \in {"current", "accepts"} \/ last[x] < last'[x]
    BY <1>10, QueuesOfState DEF VoiceIInv, VoiceTyped, VoiceTypeOK, DisconnectPeer
  <2>2. QED
    BY <2>1, QueuesKept
<1>11. ASSUME NEW s \in Socket, Unregister(s)
      PROVE  queue' \in Queues /\ InOrder(queue') /\ Fits(queue') /\ QueuedIsSaid'
  <2>1. queue' = [queue EXCEPT ![s] = <<>>] /\ pc' = [pc EXCEPT ![s] = "done"] /\ UNCHANGED <<last, spoken>>
    BY <1>11 DEF Unregister
  <2>2. queue' \in Queues /\ queue'[s] = <<>> /\ \A t \in Socket : t # s => queue'[t] = queue[t]
    BY <2>1, QueuesOfState DEF Queues
  <2>3. \A t \in Socket : \A i \in DOMAIN queue'[t] : t # s /\ i \in DOMAIN queue[t]
    BY <2>2
  <2>4. pc'[s] = "done" /\ \A x \in Socket : x # s => pc'[x] = pc[x]
    BY <2>1 DEF VoiceIInv, VoiceTyped, VoiceTypeOK
  <2>5. InOrder(queue')
    BY <2>2, <2>3, QueuesOfState DEF InOrder
  <2>6. Fits(queue')
    <3>1. Len(<<>>) = 0
      OBVIOUS
    <3>2. QED
      BY <2>2, <3>1, QueuesOfState, VoiceBounds DEF Fits
  <2>7. QueuedIsSaid'
    BY <2>1, <2>2, <2>3, <2>4 DEF VoiceIInv, QueuedIsSaid
  <2>8. QED
    BY <2>2, <2>5, <2>7, <2>6
<1>12. ASSUME NEW s \in Socket, Register(s)
      PROVE  queue' \in Queues /\ InOrder(queue') /\ Fits(queue') /\ QueuedIsSaid'
  <2>1. /\ UNCHANGED <<queue, spoken>> /\ \A x \in Socket : last[x] <= last'[x] /\ last'[x] \in Nat
        /\ \A x \in Socket : pc'[x] \in {"current", "accepts"} => pc[x] \in {"current", "accepts"} \/ last[x] < last'[x]
    BY <1>12, QueuesOfState DEF VoiceIInv, VoiceTyped, VoiceTypeOK, Register
  <2>2. QED
    BY <2>1, QueuesKept
<1>13. ASSUME NEW s \in Socket, BrowserCloses(s)
      PROVE  queue' \in Queues /\ InOrder(queue') /\ Fits(queue') /\ QueuedIsSaid'
  <2>1. /\ UNCHANGED <<queue, spoken>> /\ \A x \in Socket : last[x] <= last'[x] /\ last'[x] \in Nat
        /\ \A x \in Socket : pc'[x] \in {"current", "accepts"} => pc[x] \in {"current", "accepts"} \/ last[x] < last'[x]
    BY <1>13, QueuesOfState DEF VoiceIInv, VoiceTyped, VoiceTypeOK, BrowserCloses
  <2>2. QED
    BY <2>1, QueuesKept
<1>14. ASSUME NEW s \in Socket, SendOutbound(s)
      PROVE  queue' \in Queues /\ InOrder(queue') /\ Fits(queue') /\ QueuedIsSaid'
  <2>1. queue[s] # <<>> /\ queue' = [queue EXCEPT ![s] = Tail(queue[s])] /\ UNCHANGED <<pc, last, spoken>>
    BY <1>14 DEF SendOutbound
  <2>2. queue[s] \in Seq(Message) /\ Len(queue[s]) \in Nat /\ Len(queue[s]) > 0
    BY <2>1, QueuesOfState
  <2>3. /\ Tail(queue[s]) \in Seq(Message) /\ Len(Tail(queue[s])) = Len(queue[s]) - 1
        /\ DOMAIN Tail(queue[s]) = 1 .. Len(queue[s]) - 1
        /\ \A i \in 1 .. Len(queue[s]) - 1 : Tail(queue[s])[i] = queue[s][i + 1]
    BY <2>1, <2>2
  <2>4. queue' \in Queues /\ queue'[s] = Tail(queue[s]) /\ \A t \in Socket : t # s => queue'[t] = queue[t]
    BY <2>1, <2>3, QueuesOfState DEF Queues
  <2>5. \A i \in DOMAIN queue'[s] : i \in Nat /\ i + 1 \in DOMAIN queue[s] /\ queue'[s][i] = queue[s][i + 1]
    BY <2>2, <2>3, <2>4, QueuesOfState
  <2>6. Fits(queue')
    <3>1. \A t \in Socket : Len(queue[t]) <= QueueCap
      BY QueuesOfState DEF Fits
    <3>2. Len(queue'[s]) <= QueueCap
      BY <2>2, <2>3, <2>4, <3>1, VoiceBounds
    <3>3. QED
      BY <2>4, <3>1, <3>2 DEF Fits
  <2>7. InOrder(queue')
    <3> SUFFICES ASSUME NEW t \in Socket, NEW i \in DOMAIN queue'[t], NEW j \in DOMAIN queue'[t], i < j,
                        queue'[t][i].from \in Sender, queue'[t][i].from = queue'[t][j].from
                 PROVE  queue'[t][i].seq < queue'[t][j].seq
      BY DEF InOrder
    <3>1. CASE t # s
      BY <2>4, <3>1, QueuesOfState DEF InOrder
    <3>2. CASE t = s
      <4>1. i + 1 < j + 1 /\ i + 1 \in DOMAIN queue[s] /\ j + 1 \in DOMAIN queue[s]
        BY <2>5, <3>2
      <4>2. QED
        BY <2>5, <3>2, <4>1, QueuesOfState DEF InOrder
    <3>3. QED
      BY <3>1, <3>2
  <2>8. \A t \in Socket : \A i \in DOMAIN queue'[t] : \E j \in DOMAIN queue[t] : queue'[t][i] = queue[t][j]
    BY <2>4, <2>5
  <2>9. QueuedIsSaid'
    <3> SUFFICES ASSUME NEW t \in Socket, NEW i \in DOMAIN queue'[t]
                 PROVE  /\ \A x \in Socket : queue'[t][i].from = x =>
                              /\ queue'[t][i].seq <= last[x]
                              /\ pc[x] \in {"current", "accepts"} => queue'[t][i].seq < last[x]
                        /\ queue'[t][i].from = Agent => queue'[t][i].seq <= spoken
      BY <2>1 DEF QueuedIsSaid
    <3>1. PICK j \in DOMAIN queue[t] : queue'[t][i] = queue[t][j]
      BY <2>8
    <3>2. QED
      BY <3>1 DEF VoiceIInv, QueuedIsSaid
  <2>10. QED
    BY <2>4, <2>6, <2>7, <2>9
<1>15. ASSUME NEW s \in Socket, TranscriptionReady(s)
      PROVE  queue' \in Queues /\ InOrder(queue') /\ Fits(queue') /\ QueuedIsSaid'
  <2>1. RoleOf[s] \in Role /\ queue' = Sent(queue, RoleOf[s], Status) /\ UNCHANGED <<last, spoken>>
        /\ \A x \in Socket : pc'[x] \in {"current", "accepts"} => pc[x] \in {"current", "accepts"}
    BY <1>15, VoiceBounds DEF VoiceIInv, VoiceTyped, VoiceTypeOK, Role, TranscriptionReady
  <2>2. QED
    BY <2>1, StatusIsSent
<1>16. ASSUME NEW s \in Socket, TranscriptionFails(s)
      PROVE  queue' \in Queues /\ InOrder(queue') /\ Fits(queue') /\ QueuedIsSaid'
  <2>1. RoleOf[s] \in Role /\ queue' = Sent(queue, RoleOf[s], Status) /\ UNCHANGED <<last, spoken>>
        /\ \A x \in Socket : pc'[x] \in {"current", "accepts"} => pc[x] \in {"current", "accepts"}
    BY <1>16, VoiceBounds DEF VoiceIInv, VoiceTyped, VoiceTypeOK, Role, TranscriptionFails
  <2>2. QED
    BY <2>1, StatusIsSent
<1>17. ASSUME NEW s \in Socket, NEW seq \in 1..MaxFrame, ReceiveAudio(s, seq)
      PROVE  queue' \in Queues /\ InOrder(queue') /\ Fits(queue') /\ QueuedIsSaid'
  <2>1. /\ UNCHANGED <<queue, spoken>> /\ \A x \in Socket : last[x] <= last'[x] /\ last'[x] \in Nat
        /\ \A x \in Socket : pc'[x] \in {"current", "accepts"} => pc[x] \in {"current", "accepts"} \/ last[x] < last'[x]
    BY <1>17, QueuesOfState DEF VoiceIInv, VoiceTyped, VoiceTypeOK, ReceiveAudio
  <2>2. QED
    BY <2>1, QueuesKept
<1>18. QED
  BY <1>1, <1>2, <1>3, <1>4, <1>5, <1>6, <1>7, <1>8, <1>9, <1>10, <1>11, <1>12, <1>13, <1>14, <1>15, <1>16, <1>17 DEF VoiceNext, Step

\* Who owns the relay.
LEMMA OwnerStep ==
    ASSUME VoiceIInv, VoiceNext
    PROVE  OwnerIsNewest'
<1> USE DEF sessionVars, regVars
<1>1. CASE Session
  BY <1>1, VoiceBounds DEF Session, StartGame, End, VoiceIInv, VoiceTyped, VoiceTypeOK, OwnerIsNewest, Registered
<1>2. CASE publish_agent
  BY <1>2, VoiceBounds DEF publish_agent, VoiceIInv, VoiceTyped, VoiceTypeOK, OwnerIsNewest, Registered
<1>3. ASSUME NEW s \in Socket, ConnectPeer(s)
      PROVE  OwnerIsNewest'
  BY <1>3, VoiceBounds DEF ConnectPeer, VoiceIInv, VoiceTyped, VoiceTypeOK, OwnerIsNewest, Registered
<1>4. ASSUME NEW s \in Socket, StartTranscription(s)
      PROVE  OwnerIsNewest'
  BY <1>4, VoiceBounds DEF StartTranscription, VoiceIInv, VoiceTyped, VoiceTypeOK, OwnerIsNewest, Registered
<1>5. ASSUME NEW s \in Socket, ReadyWithoutTranscription(s)
      PROVE  OwnerIsNewest'
  BY <1>5, VoiceBounds DEF ReadyWithoutTranscription, VoiceIInv, VoiceTyped, VoiceTypeOK, OwnerIsNewest, Registered
<1>6. ASSUME NEW s \in Socket, CheckCurrent(s)
      PROVE  OwnerIsNewest'
  BY <1>6, VoiceBounds DEF CheckCurrent, VoiceIInv, VoiceTyped, VoiceTypeOK, OwnerIsNewest, Registered
<1>7. ASSUME NEW s \in Socket, DropAudio(s)
      PROVE  OwnerIsNewest'
  BY <1>7, VoiceBounds DEF DropAudio, VoiceIInv, VoiceTyped, VoiceTypeOK, OwnerIsNewest, Registered
<1>8. ASSUME NEW s \in Socket, relay_partner(s)
      PROVE  OwnerIsNewest'
  BY <1>8, VoiceBounds DEF relay_partner, VoiceIInv, VoiceTyped, VoiceTypeOK, OwnerIsNewest, Registered
<1>9. ASSUME NEW s \in Socket, Cancelled(s)
      PROVE  OwnerIsNewest'
  BY <1>9, VoiceBounds DEF Cancelled, VoiceIInv, VoiceTyped, VoiceTypeOK, OwnerIsNewest, Registered
<1>10. ASSUME NEW s \in Socket, DisconnectPeer(s)
      PROVE  OwnerIsNewest'
  BY <1>10, VoiceBounds DEF DisconnectPeer, VoiceIInv, VoiceTyped, VoiceTypeOK, OwnerIsNewest, Registered
<1>11. ASSUME NEW s \in Socket, Unregister(s)
      PROVE  OwnerIsNewest'
  BY <1>11, VoiceBounds DEF Unregister, VoiceIInv, VoiceTyped, VoiceTypeOK, OwnerIsNewest, Registered
<1>12. ASSUME NEW s \in Socket, Register(s)
      PROVE  OwnerIsNewest'
  BY <1>12, VoiceBounds DEF Register, VoiceIInv, VoiceTyped, VoiceTypeOK, OwnerIsNewest, Registered
<1>13. ASSUME NEW s \in Socket, BrowserCloses(s)
      PROVE  OwnerIsNewest'
  BY <1>13, VoiceBounds DEF BrowserCloses, VoiceIInv, VoiceTyped, VoiceTypeOK, OwnerIsNewest, Registered
<1>14. ASSUME NEW s \in Socket, SendOutbound(s)
      PROVE  OwnerIsNewest'
  BY <1>14, VoiceBounds DEF SendOutbound, VoiceIInv, VoiceTyped, VoiceTypeOK, OwnerIsNewest, Registered
<1>15. ASSUME NEW s \in Socket, TranscriptionReady(s)
      PROVE  OwnerIsNewest'
  BY <1>15, VoiceBounds DEF TranscriptionReady, VoiceIInv, VoiceTyped, VoiceTypeOK, OwnerIsNewest, Registered
<1>16. ASSUME NEW s \in Socket, TranscriptionFails(s)
      PROVE  OwnerIsNewest'
  BY <1>16, VoiceBounds DEF TranscriptionFails, VoiceIInv, VoiceTyped, VoiceTypeOK, OwnerIsNewest, Registered
<1>17. ASSUME NEW s \in Socket, NEW seq \in 1..MaxFrame, ReceiveAudio(s, seq)
      PROVE  OwnerIsNewest'
  BY <1>17, VoiceBounds DEF ReceiveAudio, VoiceIInv, VoiceTyped, VoiceTypeOK, OwnerIsNewest, Registered
<1>18. QED
  BY <1>1, <1>2, <1>3, <1>4, <1>5, <1>6, <1>7, <1>8, <1>9, <1>10, <1>11, <1>12, <1>13, <1>14, <1>15, <1>16, <1>17 DEF VoiceNext, Step

\* Readiness stays heard.
LEMMA ReadyStep ==
    ASSUME VoiceIInv, VoiceNext
    PROVE  ReadyIsHeard'
<1> USE DEF sessionVars, regVars
<1>1. CASE Session
  BY <1>1 DEF Session, StartGame, End, VoiceIInv, VoiceTyped, VoiceTypeOK, ReadyIsHeard
<1>2. CASE publish_agent
  BY <1>2 DEF publish_agent, VoiceIInv, VoiceTyped, VoiceTypeOK, ReadyIsHeard
<1>3. ASSUME NEW s \in Socket, ConnectPeer(s)
      PROVE  ReadyIsHeard'
  BY <1>3 DEF ConnectPeer, VoiceIInv, VoiceTyped, VoiceTypeOK, ReadyIsHeard
<1>4. ASSUME NEW s \in Socket, StartTranscription(s)
      PROVE  ReadyIsHeard'
  <2>1. UNCHANGED <<transcribed, life, audioReady>> /\ \A x \in Socket : asr[x] = "ready" => asr'[x] = "ready"
    BY <1>4 DEF StartTranscription, VoiceIInv, VoiceTyped, VoiceTypeOK, ReadyIsHeard
  <2>2. \A x \in Socket : pc'[x] \in {"none", "registered", "connected"} => asr'[x] = "none"
    BY <1>4 DEF StartTranscription, VoiceIInv, VoiceTyped, VoiceTypeOK, ReadyIsHeard
  <2>3. QED
    BY <2>1, <2>2 DEF VoiceIInv, ReadyIsHeard
<1>5. ASSUME NEW s \in Socket, ReadyWithoutTranscription(s)
      PROVE  ReadyIsHeard'
  BY <1>5 DEF ReadyWithoutTranscription, VoiceIInv, VoiceTyped, VoiceTypeOK, ReadyIsHeard
<1>6. ASSUME NEW s \in Socket, CheckCurrent(s)
      PROVE  ReadyIsHeard'
  BY <1>6 DEF CheckCurrent, VoiceIInv, VoiceTyped, VoiceTypeOK, ReadyIsHeard
<1>7. ASSUME NEW s \in Socket, DropAudio(s)
      PROVE  ReadyIsHeard'
  BY <1>7 DEF DropAudio, VoiceIInv, VoiceTyped, VoiceTypeOK, ReadyIsHeard
<1>8. ASSUME NEW s \in Socket, relay_partner(s)
      PROVE  ReadyIsHeard'
  BY <1>8 DEF relay_partner, VoiceIInv, VoiceTyped, VoiceTypeOK, ReadyIsHeard
<1>9. ASSUME NEW s \in Socket, Cancelled(s)
      PROVE  ReadyIsHeard'
  BY <1>9 DEF Cancelled, VoiceIInv, VoiceTyped, VoiceTypeOK, ReadyIsHeard
<1>10. ASSUME NEW s \in Socket, DisconnectPeer(s)
      PROVE  ReadyIsHeard'
  BY <1>10 DEF DisconnectPeer, VoiceIInv, VoiceTyped, VoiceTypeOK, ReadyIsHeard
<1>11. ASSUME NEW s \in Socket, Unregister(s)
      PROVE  ReadyIsHeard'
  BY <1>11 DEF Unregister, VoiceIInv, VoiceTyped, VoiceTypeOK, ReadyIsHeard
<1>12. ASSUME NEW s \in Socket, Register(s)
      PROVE  ReadyIsHeard'
  BY <1>12 DEF Register, VoiceIInv, VoiceTyped, VoiceTypeOK, ReadyIsHeard
<1>13. ASSUME NEW s \in Socket, BrowserCloses(s)
      PROVE  ReadyIsHeard'
  BY <1>13 DEF BrowserCloses, VoiceIInv, VoiceTyped, VoiceTypeOK, ReadyIsHeard
<1>14. ASSUME NEW s \in Socket, SendOutbound(s)
      PROVE  ReadyIsHeard'
  BY <1>14 DEF SendOutbound, VoiceIInv, VoiceTyped, VoiceTypeOK, ReadyIsHeard
<1>15. ASSUME NEW s \in Socket, TranscriptionReady(s)
      PROVE  ReadyIsHeard'
  BY <1>15 DEF TranscriptionReady, VoiceIInv, VoiceTyped, VoiceTypeOK, ReadyIsHeard
<1>16. ASSUME NEW s \in Socket, TranscriptionFails(s)
      PROVE  ReadyIsHeard'
  BY <1>16 DEF TranscriptionFails, VoiceIInv, VoiceTyped, VoiceTypeOK, ReadyIsHeard
<1>17. ASSUME NEW s \in Socket, NEW seq \in 1..MaxFrame, ReceiveAudio(s, seq)
      PROVE  ReadyIsHeard'
  BY <1>17 DEF ReceiveAudio, VoiceIInv, VoiceTyped, VoiceTypeOK, ReadyIsHeard
<1>18. QED
  BY <1>1, <1>2, <1>3, <1>4, <1>5, <1>6, <1>7, <1>8, <1>9, <1>10, <1>11, <1>12, <1>13, <1>14, <1>15, <1>16, <1>17 DEF VoiceNext, Step

\* Every variable keeps its type.
LEMMA VoiceTypesStep ==
    ASSUME VoiceIInv, VoiceNext
    PROVE  VoiceTyped'
<1> USE DEF sessionVars, regVars
<1>1. CASE Session
  BY <1>1, VoiceBounds, QueuesStep DEF Session, StartGame, End, VoiceIInv, VoiceTyped, VoiceTypeOK, Queues, Fits, Message, Role
<1>2. CASE publish_agent
  <2>1. spoken' \in Nat /\ queue' \in Queues /\ Fits(queue')
    BY <1>2, QueuesStep DEF publish_agent, VoiceIInv, VoiceTyped
  <2>2. UNCHANGED <<sessionVars, regVars, pc, told, last, asr>>
    BY <1>2 DEF publish_agent
  <2>3. QED
    BY <2>1, <2>2 DEF VoiceIInv, VoiceTyped, VoiceTypeOK, Queues, Fits, Message
<1>3. ASSUME NEW s \in Socket, ConnectPeer(s)
      PROVE  VoiceTyped'
  BY <1>3, VoiceBounds, QueuesStep DEF ConnectPeer, VoiceIInv, VoiceTyped, VoiceTypeOK, Queues, Fits, Message, Role
<1>4. ASSUME NEW s \in Socket, StartTranscription(s)
      PROVE  VoiceTyped'
  BY <1>4, VoiceBounds, QueuesStep DEF StartTranscription, VoiceIInv, VoiceTyped, VoiceTypeOK, Queues, Fits, Message, Role
<1>5. ASSUME NEW s \in Socket, ReadyWithoutTranscription(s)
      PROVE  VoiceTyped'
  BY <1>5, VoiceBounds, QueuesStep DEF ReadyWithoutTranscription, VoiceIInv, VoiceTyped, VoiceTypeOK, Queues, Fits, Message, Role
<1>6. ASSUME NEW s \in Socket, CheckCurrent(s)
      PROVE  VoiceTyped'
  BY <1>6, VoiceBounds, QueuesStep DEF CheckCurrent, VoiceIInv, VoiceTyped, VoiceTypeOK, Queues, Fits, Message, Role
<1>7. ASSUME NEW s \in Socket, DropAudio(s)
      PROVE  VoiceTyped'
  BY <1>7, VoiceBounds, QueuesStep DEF DropAudio, VoiceIInv, VoiceTyped, VoiceTypeOK, Queues, Fits, Message, Role
<1>8. ASSUME NEW s \in Socket, relay_partner(s)
      PROVE  VoiceTyped'
  BY <1>8, VoiceBounds, QueuesStep DEF relay_partner, VoiceIInv, VoiceTyped, VoiceTypeOK, Queues, Fits, Message, Role
<1>9. ASSUME NEW s \in Socket, Cancelled(s)
      PROVE  VoiceTyped'
  BY <1>9, VoiceBounds, QueuesStep DEF Cancelled, VoiceIInv, VoiceTyped, VoiceTypeOK, Queues, Fits, Message, Role
<1>10. ASSUME NEW s \in Socket, DisconnectPeer(s)
      PROVE  VoiceTyped'
  BY <1>10, VoiceBounds, QueuesStep DEF DisconnectPeer, VoiceIInv, VoiceTyped, VoiceTypeOK, Queues, Fits, Message, Role
<1>11. ASSUME NEW s \in Socket, Unregister(s)
      PROVE  VoiceTyped'
  BY <1>11, VoiceBounds, QueuesStep DEF Unregister, VoiceIInv, VoiceTyped, VoiceTypeOK, Queues, Fits, Message, Role
<1>12. ASSUME NEW s \in Socket, Register(s)
      PROVE  VoiceTyped'
  BY <1>12, VoiceBounds, QueuesStep DEF Register, VoiceIInv, VoiceTyped, VoiceTypeOK, Queues, Fits, Message, Role
<1>13. ASSUME NEW s \in Socket, BrowserCloses(s)
      PROVE  VoiceTyped'
  BY <1>13, VoiceBounds, QueuesStep DEF BrowserCloses, VoiceIInv, VoiceTyped, VoiceTypeOK, Queues, Fits, Message, Role
<1>14. ASSUME NEW s \in Socket, SendOutbound(s)
      PROVE  VoiceTyped'
  BY <1>14, VoiceBounds, QueuesStep DEF SendOutbound, VoiceIInv, VoiceTyped, VoiceTypeOK, Queues, Fits, Message, Role
<1>15. ASSUME NEW s \in Socket, TranscriptionReady(s)
      PROVE  VoiceTyped'
  BY <1>15, VoiceBounds, QueuesStep DEF TranscriptionReady, VoiceIInv, VoiceTyped, VoiceTypeOK, Queues, Fits, Message, Role
<1>16. ASSUME NEW s \in Socket, TranscriptionFails(s)
      PROVE  VoiceTyped'
  BY <1>16, VoiceBounds, QueuesStep DEF TranscriptionFails, VoiceIInv, VoiceTyped, VoiceTypeOK, Queues, Fits, Message, Role
<1>17. ASSUME NEW s \in Socket, NEW seq \in 1..MaxFrame, ReceiveAudio(s, seq)
      PROVE  VoiceTyped'
  <2>1. queue' \in Queues /\ Fits(queue')
    BY <1>17, QueuesStep
  <2>2. last' \in [Socket -> 0..MaxFrame] /\ UNCHANGED <<sessionVars, regVars, told, asr, spoken>>
    BY <1>17, VoiceBounds DEF ReceiveAudio, VoiceIInv, VoiceTyped, VoiceTypeOK
  <2>3. pc' = [pc EXCEPT ![s] = "current"]
    BY <1>17 DEF ReceiveAudio
  <2>4. QED
    BY <2>1, <2>2, <2>3 DEF VoiceIInv, VoiceTyped, VoiceTypeOK, Queues, Fits, Message
<1>18. QED
  BY <1>1, <1>2, <1>3, <1>4, <1>5, <1>6, <1>7, <1>8, <1>9, <1>10, <1>11, <1>12, <1>13, <1>14, <1>15, <1>16, <1>17 DEF VoiceNext, Step

\* The invariant holds at first.
LEMMA VoiceInitIInv ==
    ASSUME VoiceInit
    PROVE  VoiceIInv
<1>1. \A s \in Socket : queue[s] = <<>>
  BY DEF VoiceInit
<1>2. VoiceTyped
  BY <1>1, VoiceBounds DEF VoiceInit, VoiceTyped, VoiceTypeOK
<1>3. OwnerIsNewest
  BY DEF VoiceInit, OwnerIsNewest
<1>4. QueuedIsSaid /\ FramesKeepOrder
  BY <1>1 DEF QueuedIsSaid, FramesKeepOrder
<1>5. ReadyIsHeard
  BY DEF VoiceInit, ReadyIsHeard
<1>6. QED
  BY <1>2, <1>3, <1>4, <1>5 DEF VoiceIInv

\* And is kept by every step.
LEMMA VoiceStep ==
    ASSUME VoiceIInv, [VoiceNext]_voiceVars
    PROVE  VoiceIInv'
<1>1. CASE VoiceNext
  <2>1. QueuedIsSaid' /\ FramesKeepOrder'
    BY <1>1, QueuesStep DEF InOrder, FramesKeepOrder
  <2>2. QED
    BY <1>1, <2>1, OwnerStep, ReadyStep, VoiceTypesStep DEF VoiceIInv
<1>2. CASE UNCHANGED voiceVars
  <2>1. VoiceTyped'
    BY <1>2 DEF voiceVars, VoiceIInv, VoiceTyped, VoiceTypeOK
  <2>2. (OwnerIsNewest /\ ReadyIsHeard)'
    BY <1>2 DEF voiceVars, VoiceIInv, OwnerIsNewest, ReadyIsHeard
  <2>3. (QueuedIsSaid /\ FramesKeepOrder)'
    BY <1>2 DEF voiceVars, VoiceIInv, QueuedIsSaid, FramesKeepOrder
  <2>4. QED
    BY <2>1, <2>2, <2>3 DEF VoiceIInv
<1>3. QED
  BY <1>1, <1>2

\* It says what the relay promises.
LEMMA VoiceIsSound ==
    ASSUME VoiceIInv
    PROVE  RelayIsSound
<1>1. VoiceTypeOK /\ FramesKeepOrder
  BY DEF VoiceIInv, VoiceTyped
<1>2. LatestPeerStays
  BY DEF VoiceIInv, OwnerIsNewest, LatestPeerStays, InLoop, Registered
<1>3. NothingLeftRegistered
  <2> SUFFICES ASSUME NEW r \in Role, \A s \in Socket : RoleOf[s] = r => pc[s] \in {"none", "done"}
               PROVE  control[r] = None /\ peer[r] = None
    BY DEF NothingLeftRegistered
  <2>1. control[r] \in Socket \cup {None} /\ peer[r] \in Socket \cup {None}
    BY DEF VoiceIInv, VoiceTyped, VoiceTypeOK
  <2>2. QED
    BY <2>1 DEF VoiceIInv, OwnerIsNewest, Registered
<1>4. RunningIsTranscribed
  BY DEF VoiceIInv, ReadyIsHeard, RunningIsTranscribed
<1>5. QED
  BY <1>1, <1>2, <1>3, <1>4 DEF RelayIsSound

\* app.rs audio_websocket_loop, audio.rs: for any sockets of the two roles, opened
\* and closed in any order, the relay belongs to the newest, nothing is left in
\* the registries, frames keep their order, and no game runs untranscribed.
THEOREM RelayStaysSound == VoiceSpec => []RelayIsSound
<1>1. VoiceInit => VoiceIInv
  BY VoiceInitIInv
<1>2. VoiceIInv /\ [VoiceNext]_voiceVars => VoiceIInv'
  BY VoiceStep
<1>3. VoiceIInv => RelayIsSound
  BY VoiceIsSound
<1>4. QED
  BY <1>1, <1>2, <1>3, PTL DEF VoiceSpec

-----------------------------------------------------------------------------
(* The transcription *)

\* What the provider's task gathers, and a list whose entries have no other type.
Span == [start : Nat, end : Nat]
Fragment == [id : Nat, start : Nat, end : Nat, tokens : SUBSET Span]
Listed(s) == s \in Seq({s[i] : i \in DOMAIN s})

\* m is when frame i was heard: some frame was captured so late, none later.
IsCapture(ts, i, m) ==
    /\ \A j \in 1..i : ts[j] - ts[1] + FrameMs * (i - j) <= m
    /\ \E j \in 1..i : ts[j] - ts[1] + FrameMs * (i - j) = m

\* Frames the clock has let go; it still knows what begins after them.
Released == Len(supplied) - Len(clock.frames)
Known(t) == Released = 0 \/ FrameMs * Released < t

\* The types the promise leaves open; without silence detection nothing waits
\* for a boundary.
StreamTyped ==
    /\ StreamTypeOK
    /\ prov \in [phase : {"connecting", "started", "ended"}, queued : 0..InputCap, heard : Nat,
                 pending : Seq(Fragment), made : Nat, from : Nat, silence : BOOLEAN]
    /\ prov.silence \/ prov.pending = <<>>
    /\ clock \in [frames : Seq([audio : Nat, capture : Int]), first : Int, end : Nat]
    /\ task = [pc |-> task.pc, utterance |-> task.utterance]
    /\ Listed(events) /\ Listed(log)
    /\ sock.hand # NoFrame => sock.hand.ts \in Timestamps

\* The clock is as long as the audio the queue accepted, and each frame it still
\* holds has the moment at which it was heard.
ClockIsTrue ==
    /\ clock.end = FrameMs * Len(supplied)
    /\ supplied = <<>> => clock = NewClock
    /\ supplied # <<>> => clock.first = supplied[1] /\ Released \in 0 .. Len(supplied) - 1 /\ origin
    /\ \A k \in DOMAIN clock.frames :
           /\ clock.frames[k].audio = FrameMs * (Released + k - 1)
           /\ IsCapture(supplied, Released + k, clock.frames[k].capture)

\* A final covers audio that was sent, begins no later than the newest fragment,
\* and the clock has not let its beginning go.
Heard(f) ==
    /\ f.start < f.end /\ f.end <= FrameMs * prov.heard
    /\ f.start <= prov.from /\ Known(f.start)

\* Gathered fragments begin one after the other, and words lie in their fragment.
InTurn(parts) ==
    /\ \A i, j \in DOMAIN parts : i <= j => parts[i].start <= parts[j].start
    /\ parts # <<>> => \E i \in DOMAIN parts : \A j \in DOMAIN parts : parts[j].end <= parts[i].end
    /\ \A i \in DOMAIN parts : \A k \in parts[i].tokens :
           parts[i].start <= k.start /\ k.start <= k.end /\ k.end <= parts[i].end

\* What take_utterance makes of them.
IsUtterance(u) == u = [ids |-> u.ids, start |-> u.start, end |-> u.end, tokens |-> u.tokens, source |-> u.source]
IsFinal(u) ==
    /\ IsUtterance(u) /\ u.start \in Nat /\ u.end \in Nat /\ u.tokens \in SUBSET Span
    /\ u.source = {[start |-> u.start, end |-> u.end, tokens |-> u.tokens]}
    /\ \A k \in u.tokens : u.start <= k.start /\ k.start <= k.end /\ k.end <= u.end

\* Finals on their way begin one after the other, and before what is gathered:
\* releasing frames for one of them takes nothing from the next.
EventsInTurn ==
    \A i \in DOMAIN events : events[i].kind = "final" =>
        /\ IsFinal(events[i].utterance) /\ Heard(events[i].utterance)
        /\ \A p \in DOMAIN prov.pending : events[i].utterance.start <= prov.pending[p].start
        /\ \A j \in DOMAIN events : events[j].kind = "final" /\ i <= j =>
               events[i].utterance.start <= events[j].utterance.start
\* The provider's side: what it will say, gathers and has said.
FinalsAreHeard ==
    /\ prov.from <= FrameMs * prov.heard /\ Known(prov.from)
    /\ InTurn(prov.pending) /\ \A i \in DOMAIN prov.pending : Heard(prov.pending[i])
    /\ EventsInTurn

\* A mapped utterance has the times of the reference definition and holds its words.
IsTrue(v) ==
    /\ \A s \in v.source : /\ s.start \in Nat /\ s.end \in Nat /\ s.start < s.end /\ s.end <= FrameMs * Len(supplied)
                           /\ v.start = TrueStart(supplied, s.start) /\ v.end = TrueEnd(supplied, s.end)
    /\ \A k \in v.tokens : k.start < k.end => v.start <= k.start /\ k.end <= v.end

\* So has the one in the event task's hand, and every one in the log.
WhatIsStoredIsTrue ==
    /\ task.pc \in {"commit", "store"} => IsTrue(task.utterance)
    /\ \A i \in DOMAIN log : IsTrue(log[i])

\* A stored utterance's key stays taken; one about to be stored is not there yet.
KeysAreTaken ==
    /\ KeysMatchLog
    /\ \A i \in DOMAIN log : Key(log[i]) \in keys
    /\ task.pc = "store" => Key(task.utterance) \in keys /\ \A i \in DOMAIN log : Key(log[i]) # Key(task.utterance)

\* The inductive invariant of the transcription.
StreamIInv ==
    /\ StreamTyped /\ ClockIsTrue /\ FinalsAreHeard /\ WhatIsStoredIsTrue /\ KeysAreTaken
    /\ ~refused

-----------------------------------------------------------------------------
(* Frames and moments *)

\* The length of a frame.
LEMMA FrameLength == FrameMs \in Nat /\ FrameMs > 0
BY FrameAssumption

\* Multiples of it.
LEMMA Multiples ==
    ASSUME NEW a \in Int, NEW b \in Int
    PROVE  /\ FrameMs * a \in Int
           /\ FrameMs * (a + b) = FrameMs * a + FrameMs * b
           /\ FrameMs * (a - b) = FrameMs * a - FrameMs * b
           /\ a <= b => FrameMs * a <= FrameMs * b
           /\ FrameMs * 0 = 0 /\ FrameMs * 1 = FrameMs /\ a * FrameMs = FrameMs * a
<1>1. /\ FrameMs * a \in Int /\ FrameMs * (a + b) = FrameMs * a + FrameMs * b /\ a * FrameMs = FrameMs * a
      /\ FrameMs * (a - b) = FrameMs * a - FrameMs * b /\ FrameMs * 0 = 0 /\ FrameMs * 1 = FrameMs
  BY FrameLength
<1>2. a <= b => FrameMs * a <= FrameMs * b
  BY FrameLength
<1>3. QED
  BY <1>1, <1>2

\* They are numbers.
LEMMA MultInt == \A a \in Int : FrameMs * a \in Int
BY Multiples

\* They are in order.
LEMMA MultLe == \A a, b \in Int : a <= b => FrameMs * a <= FrameMs * b
BY Multiples

\* No frame has no length.
LEMMA MultZero == FrameMs * 0 = 0
BY FrameLength

\* One frame more.
LEMMA MultNext == \A a \in Int : FrameMs * (a + 1) = FrameMs * a + FrameMs
<1> SUFFICES ASSUME NEW a \in Int
             PROVE  FrameMs * (a + 1) = FrameMs * a + FrameMs
  OBVIOUS
<1>1. FrameMs * (a + 1) = FrameMs * a + FrameMs * 1 /\ FrameMs * 1 = FrameMs
  BY Multiples
<1>2. QED
  BY <1>1

\* A frame that starts before the end of another one is no later than it.
LEMMA FrameOrder ==
    ASSUME NEW a \in Int, NEW b \in Int, FrameMs * a < FrameMs * b + FrameMs
    PROVE  a <= b
<1> SUFFICES ASSUME a >= b + 1
             PROVE  FALSE
  OBVIOUS
<1>1. FrameMs * (b + 1) = FrameMs * b + FrameMs
  BY Multiples
<1>2. FrameMs * (b + 1) <= FrameMs * a
  BY Multiples
<1>3. FrameMs * a \in Int /\ FrameMs * b \in Int /\ FrameMs \in Int
  BY Multiples, FrameLength
<1>4. QED
  BY <1>1, <1>2, <1>3

\* Which frame a moment falls into.
LEMMA Quotient ==
    ASSUME NEW t \in Nat
    PROVE  t \div FrameMs \in Nat /\ FrameMs * (t \div FrameMs) <= t /\ t < FrameMs * (t \div FrameMs) + FrameMs
BY FrameLength

\* It is the only one.
LEMMA QuotientIs ==
    ASSUME NEW t \in Nat, NEW q \in Int, FrameMs * q <= t, t < FrameMs * q + FrameMs
    PROVE  t \div FrameMs = q
<1> DEFINE d == t \div FrameMs
<1>1. d \in Nat /\ FrameMs * d <= t /\ t < FrameMs * d + FrameMs
  BY Quotient
<1>2. FrameMs * d \in Int /\ FrameMs * q \in Int
  BY <1>1, Multiples
<1> HIDE DEF d
<1>3. d <= q
  BY <1>1, <1>2, FrameLength, FrameOrder
<1>4. q <= d
  BY <1>1, <1>2, FrameLength, FrameOrder
<1>5. QED
  BY <1>1, <1>3, <1>4 DEF d

\* The greatest and the least number of a set that has one.
LEMMA MaxIs ==
    ASSUME NEW S \in SUBSET Int, NEW m \in S, \A x \in S : x <= m
    PROVE  Max(S) = m
<1>1. \A x \in S : (\A y \in S : x >= y) => x = m
  OBVIOUS
<1>2. \A y \in S : m >= y
  OBVIOUS
<1>3. QED
  BY <1>1, <1>2 DEF Max

\* The least one.
LEMMA MinIs ==
    ASSUME NEW S \in SUBSET Int, NEW m \in S, \A x \in S : m <= x
    PROVE  Min(S) = m
<1>1. \A x \in S : (\A y \in S : x <= y) => x = m
  OBVIOUS
<1>2. QED
  BY <1>1 DEF Min

-----------------------------------------------------------------------------
(* When a frame was heard *)

\* The two parts of IsCapture make it.
LEMMA IsCaptureOf ==
    ASSUME NEW a, NEW k, NEW c, \A j \in 1..k : a[j] - a[1] + FrameMs * (k - j) <= c,
           \E j \in 1..k : a[j] - a[1] + FrameMs * (k - j) = c
    PROVE  IsCapture(a, k, c)
BY DEF IsCapture

\* The reference definition is the moment the invariant speaks of.
LEMMA CaptureIs ==
    ASSUME NEW ts \in Seq(Nat), NEW i \in 1 .. Len(ts), NEW m \in Int, IsCapture(ts, i, m)
    PROVE  CaptureOf(ts, i) = m
<1> DEFINE S == {ts[j] - ts[1] + FrameMs * (i - j) : j \in 1..i}
<1>1. \A j \in 1..i : ts[j] \in Nat /\ ts[1] \in Nat /\ i - j \in Int
  OBVIOUS
<1>2. \A j \in 1..i : FrameMs * (i - j) \in Int
  BY <1>1, Multiples
<1>3. S \in SUBSET Int
  <2>1. SUFFICES ASSUME NEW j \in 1..i PROVE ts[j] - ts[1] + FrameMs * (i - j) \in Int
    OBVIOUS
  <2> DEFINE x == FrameMs * (i - j)
  <2>2. x \in Int /\ ts[j] \in Nat /\ ts[1] \in Nat
    BY <1>1, <1>2
  <2> HIDE DEF x
  <2>3. ts[j] - ts[1] + x \in Int
    BY <2>2
  <2>4. QED
    BY <2>3 DEF x
<1>4. m \in S /\ \A x \in S : x <= m
  <2>1. \A j \in 1..i : ts[j] - ts[1] + FrameMs * (i - j) <= m
    BY DEF IsCapture
  <2>2. \E j \in 1..i : m = ts[j] - ts[1] + FrameMs * (i - j)
    BY DEF IsCapture
  <2>3. QED
    BY <2>1, <2>2
<1>5. Max(S) = m
  <2> HIDE DEF S
  <2> QED
    BY <1>3, <1>4, MaxIs
<1>6. QED
  BY <1>5 DEF CaptureOf

\* A frame that is supplied later changes nothing for the earlier ones.
LEMMA CaptureKept ==
    ASSUME NEW ts \in Seq(Nat), NEW x \in Nat, NEW i \in 1 .. Len(ts)
    PROVE  /\ CaptureOf(Append(ts, x), i) = CaptureOf(ts, i)
           /\ \A m \in Int : IsCapture(ts, i, m) => IsCapture(Append(ts, x), i, m)
<1>1. \A j \in 1..i : Append(ts, x)[j] = ts[j]
  OBVIOUS
<1>2. {Append(ts, x)[j] - Append(ts, x)[1] + FrameMs * (i - j) : j \in 1..i}
      = {ts[j] - ts[1] + FrameMs * (i - j) : j \in 1..i}
  BY <1>1
<1>3. CaptureOf(Append(ts, x), i) = CaptureOf(ts, i)
  BY <1>2 DEF CaptureOf
<1>4. 1 \in 1..i
  OBVIOUS
<1>5. \A m \in Int : IsCapture(ts, i, m) => IsCapture(Append(ts, x), i, m)
  BY <1>1, <1>4 DEF IsCapture
<1>6. QED
  BY <1>3, <1>5

\* Sums of numbers.
LEMMA Sums ==
    ASSUME NEW w \in Int, NEW p \in Int, NEW q \in Int, NEW m \in Int, NEW c \in Int
    PROVE  /\ w + (p + q) \in Int /\ w + (p + q) = (w + p) + q
           /\ w + p <= m => w + (p + q) <= m + q
           /\ w + p = m => w + (p + q) = m + q
           /\ w + p = m /\ w + (p + q) <= c => m + q <= c
OBVIOUS

\* The frame after the last one is heard when it is captured, or once that
\* one has played.
LEMMA CaptureNext ==
    ASSUME NEW ts \in Seq(Nat), ts # <<>>, NEW x \in Nat, NEW m \in Int, IsCapture(ts, Len(ts), m)
    PROVE  IsCapture(Append(ts, x), Len(ts) + 1, Max({x - ts[1], m + FrameMs}))
<1> DEFINE n == Len(ts)
<1> DEFINE a == Append(ts, x)
<1> DEFINE c == IF x - ts[1] > m + FrameMs THEN x - ts[1] ELSE m + FrameMs
<1>1. n \in Nat /\ n > 0 /\ a[n + 1] = x /\ a[1] = ts[1] /\ ts[1] \in Nat
      /\ \A j \in 1 .. n : a[j] = ts[j] /\ ts[j] \in Nat
  OBVIOUS
<1>2. Max({x - ts[1], m + FrameMs}) = c
  <2>1. {x - ts[1], m + FrameMs} \in SUBSET Int /\ c \in {x - ts[1], m + FrameMs} /\ \A y \in {x - ts[1], m + FrameMs} : y <= c
    BY <1>1, FrameLength
  <2> HIDE DEF c
  <2>2. QED
    BY <2>1, MaxIs
<1>3. \A j \in 1 .. n : FrameMs * (n + 1 - j) = FrameMs * (n - j) + FrameMs /\ FrameMs * (n - j) \in Int
  <2> SUFFICES ASSUME NEW j \in 1 .. n
               PROVE  FrameMs * (n + 1 - j) = FrameMs * (n - j) + FrameMs /\ FrameMs * (n - j) \in Int
    OBVIOUS
  <2> DEFINE d == n - j
  <2>1. d \in Int /\ n + 1 - j = d + 1
    BY <1>1
  <2>2. FrameMs * (d + 1) = FrameMs * d + FrameMs /\ FrameMs * d \in Int
    BY <2>1, Multiples
  <2>3. QED
    BY <2>1, <2>2
<1>4. FrameMs * (n + 1 - (n + 1)) = 0
  <2>1. n + 1 - (n + 1) = 0
    BY <1>1
  <2>2. QED
    BY <2>1, Multiples
<1>5. /\ \A j \in 1 .. n : ts[j] - ts[1] + FrameMs * (n - j) <= m
      /\ \E j \in 1 .. n : ts[j] - ts[1] + FrameMs * (n - j) = m
  BY DEF IsCapture
<1> HIDE DEF n, a
<1>6. \A j \in 1 .. n + 1 : a[j] - a[1] + FrameMs * (n + 1 - j) <= c
  <2> SUFFICES ASSUME NEW j \in 1 .. n + 1
               PROVE  a[j] - a[1] + FrameMs * (n + 1 - j) <= c
    OBVIOUS
  <2>1. CASE j \in 1 .. n
    <3> DEFINE p == FrameMs * (n - j)
    <3>1. a[j] - a[1] + FrameMs * (n + 1 - j) = ts[j] - ts[1] + (p + FrameMs) /\ ts[j] - ts[1] + p <= m /\ p \in Int
      BY <1>1, <1>3, <1>5, <2>1
    <3> HIDE DEF p
    <3>2. ts[j] - ts[1] \in Int /\ FrameMs \in Int
      BY <1>1, <2>1, FrameLength
    <3>3. ts[j] - ts[1] + (p + FrameMs) \in Int /\ ts[j] - ts[1] + (p + FrameMs) <= m + FrameMs
      BY <3>1, <3>2, Sums
    <3>4. m + FrameMs <= c /\ m + FrameMs \in Int /\ c \in Int
      BY <1>1, FrameLength
    <3> HIDE DEF c
    <3>5. QED
      BY <3>1, <3>3, <3>4
  <2>2. CASE j = n + 1
    BY <1>1, <1>4, <2>2, FrameLength
  <2>3. QED
    BY <1>1, <2>1, <2>2
<1>7. \E j \in 1 .. n + 1 : a[j] - a[1] + FrameMs * (n + 1 - j) = c
  <2>1. CASE x - ts[1] > m + FrameMs
    <3>1. n + 1 \in 1 .. n + 1 /\ a[n + 1] - a[1] + FrameMs * (n + 1 - (n + 1)) = c
      BY <1>1, <1>4, <2>1, FrameLength
    <3>2. QED
      BY <3>1
  <2>2. CASE ~(x - ts[1] > m + FrameMs)
    <3>1. PICK j \in 1 .. n : ts[j] - ts[1] + FrameMs * (n - j) = m
      BY <1>5
    <3> DEFINE p == FrameMs * (n - j)
    <3>2. a[j] - a[1] + FrameMs * (n + 1 - j) = ts[j] - ts[1] + (p + FrameMs) /\ ts[j] - ts[1] + p = m /\ p \in Int
      BY <1>1, <1>3, <3>1
    <3> HIDE DEF p
    <3>3. ts[j] - ts[1] \in Int /\ FrameMs \in Int
      BY <1>1, FrameLength
    <3>4. ts[j] - ts[1] + (p + FrameMs) = m + FrameMs
      <4> DEFINE w == ts[j] - ts[1]
      <4>1. w + p = m /\ w \in Int /\ p \in Int /\ FrameMs \in Int
        BY <3>2, <3>3
      <4> HIDE DEF w
      <4>2. w + (p + FrameMs) = m + FrameMs
        BY <4>1
      <4>3. QED
        BY <4>2 DEF w
    <3>5. j \in 1 .. n + 1 /\ a[j] - a[1] + FrameMs * (n + 1 - j) = c
      BY <1>1, <2>2, <3>2, <3>4
    <3>6. QED
      BY <3>5
  <2>3. QED
    BY <2>1, <2>2
<1>8. n + 1 \in Nat /\ c \in Int /\ n \in Nat
  BY <1>1, FrameLength
<1> HIDE DEF c
<1>9. \A j \in 1 .. n + 1 : a[j] - a[1] + FrameMs * ((n + 1) - j) <= c
  BY <1>6, <1>8
<1>10. \E j \in 1 .. n + 1 : a[j] - a[1] + FrameMs * ((n + 1) - j) = c
  BY <1>7, <1>8
<1>11. IsCapture(a, n + 1, c)
  BY <1>8, <1>9, <1>10 DEF IsCapture
<1>12. QED
  BY <1>2, <1>11 DEF n, a

\* Between two frames at least the audio between them has passed, and the
\* first frame is heard at once.
LEMMA CaptureOrder ==
    ASSUME NEW ts \in Seq(Nat), NEW i \in 1 .. Len(ts), NEW k \in 1 .. Len(ts), i <= k,
           NEW m \in Int, NEW c \in Int, IsCapture(ts, i, m), IsCapture(ts, k, c)
    PROVE  m + FrameMs * (k - i) <= c /\ FrameMs * (k - 1) <= c
<1>1. PICK j \in 1 .. i : ts[j] - ts[1] + FrameMs * (i - j) = m
  BY DEF IsCapture
<1>2. j \in 1 .. k /\ 1 \in 1 .. k /\ ts[j] \in Nat /\ ts[1] \in Nat
  OBVIOUS
<1>3. ts[j] - ts[1] + FrameMs * (k - j) <= c /\ ts[1] - ts[1] + FrameMs * (k - 1) <= c
  BY <1>2 DEF IsCapture
<1>4. FrameMs * (k - j) = FrameMs * (i - j) + FrameMs * (k - i)
  <2> DEFINE a == i - j
  <2> DEFINE b == k - i
  <2>1. a \in Int /\ b \in Int /\ k - j = a + b
    OBVIOUS
  <2>2. QED
    BY <2>1, Multiples
<1>5. FrameMs * (i - j) \in Int /\ FrameMs * (k - i) \in Int /\ FrameMs * (k - 1) \in Int
  <2>1. i - j \in Int /\ k - i \in Int /\ k - 1 \in Int
    OBVIOUS
  <2>2. QED
    BY <2>1, Multiples
<1> DEFINE p == FrameMs * (i - j)
<1> DEFINE q == FrameMs * (k - i)
<1> DEFINE r == FrameMs * (k - 1)
<1>6. /\ ts[j] - ts[1] + p = m /\ p \in Int /\ q \in Int /\ r \in Int
      /\ ts[j] - ts[1] + (p + q) <= c /\ ts[1] - ts[1] + r <= c
  BY <1>1, <1>3, <1>4, <1>5
<1> HIDE DEF p, q, r
<1>7. m + q <= c /\ r <= c
  <2>1. ts[j] - ts[1] \in Int /\ ts[1] - ts[1] = 0
    BY <1>2
  <2>2. QED
    <3> DEFINE w == ts[j] - ts[1]
    <3>1. w \in Int /\ w + p = m /\ w + (p + q) <= c
      BY <1>6, <2>1
    <3>2. r <= c
      BY <1>6, <2>1
    <3> HIDE DEF w
    <3>3. m + q <= c
      BY <1>6, <3>1, Sums
    <3>4. QED
      BY <3>2, <3>3
<1>8. QED
  BY <1>7 DEF q, r

-----------------------------------------------------------------------------
(* What the clock answers *)

\* What the invariant says of the clock and the queue's numbers.
LEMMA ClockFacts ==
    ASSUME StreamTyped, ClockIsTrue
    PROVE  /\ supplied \in Seq(Nat) /\ Len(supplied) \in Nat /\ (supplied = <<>> <=> Len(supplied) = 0)
           /\ Len(clock.frames) \in Nat /\ DOMAIN clock.frames = 1 .. Len(clock.frames)
           /\ Released \in Nat /\ Released + Len(clock.frames) = Len(supplied)
           /\ supplied # <<>> => Released < Len(supplied)
           /\ \A k \in 1 .. Len(clock.frames) : clock.frames[k].capture \in Int
           /\ prov.heard \in Nat /\ prov.heard <= Len(supplied)
           /\ FrameMs * prov.heard \in Int /\ FrameMs * Len(supplied) \in Int
           /\ FrameMs * prov.heard <= FrameMs * Len(supplied)
<1>1. supplied \in Seq(Nat)
  <2>1. supplied \in Seq(Timestamps)
    BY DEF StreamTyped, StreamTypeOK
  <2>2. Timestamps \subseteq Nat
    BY StreamAssumption
  <2>3. Len(supplied) \in Nat /\ DOMAIN supplied = 1..Len(supplied)
    BY <2>1
  <2>4. supplied \in [1..Len(supplied) -> Timestamps]
    BY <2>1, <2>3
  <2>5. supplied \in [1..Len(supplied) -> Nat]
    BY <2>2, <2>4
  <2>6. QED
    BY <2>3, <2>5
<1>2. /\ clock.frames \in Seq([audio : Nat, capture : Int])
      /\ prov.heard \in Nat /\ prov.queued \in 0..InputCap /\ prov.heard + prov.queued = Len(supplied)
  BY DEF StreamTyped, StreamTypeOK
<1>3. Len(supplied) \in Nat /\ (supplied = <<>> <=> Len(supplied) = 0)
  BY <1>1
<1>4. /\ Len(clock.frames) \in Nat /\ DOMAIN clock.frames = 1 .. Len(clock.frames)
      /\ \A k \in 1 .. Len(clock.frames) : clock.frames[k].capture \in Int
  <2> DEFINE F == [audio : Nat, capture : Int]
  <2> DEFINE fs == clock.frames
  <2>1. fs \in Seq(F) /\ \A f \in F : f.capture \in Int
    BY <1>2
  <2> HIDE DEF F, fs
  <2>2. Len(fs) \in Nat /\ DOMAIN fs = 1 .. Len(fs) /\ \A k \in 1 .. Len(fs) : fs[k] \in F
    BY <2>1
  <2>3. QED
    BY <2>1, <2>2 DEF fs
<1>5. /\ Released \in Nat /\ Released + Len(clock.frames) = Len(supplied)
      /\ supplied # <<>> => Released < Len(supplied)
  <2>1. CASE supplied = <<>>
    <3>1. Len(clock.frames) = 0
      BY <2>1 DEF ClockIsTrue, NewClock
    <3>2. QED
      BY <1>3, <2>1, <3>1 DEF Released
  <2>2. CASE supplied # <<>>
    BY <1>3, <1>4, <2>2 DEF ClockIsTrue, Released
  <2>3. QED
    BY <2>1, <2>2
<1>6. prov.heard <= Len(supplied)
  BY <1>2, <1>3, StreamAssumption
<1>7. /\ FrameMs * prov.heard \in Int /\ FrameMs * Len(supplied) \in Int
      /\ FrameMs * prov.heard <= FrameMs * Len(supplied)
  <2>1. prov.heard \in Int /\ Len(supplied) \in Int
    BY <1>2, <1>3
  <2>2. QED
    BY <1>6, <2>1, MultInt, MultLe
<1>8. QED
  BY <1>1, <1>2, <1>3, <1>4, <1>5, <1>6, <1>7

\* The frame of a moment t, as the clock chooses it and as the reference does.
FrameOf(t, end, i) ==
    /\ FrameMs * (i - 1) <= t /\ t <= FrameMs * i
    /\ t = 0 => i = 1
    /\ end /\ t > 0 => FrameMs * (i - 1) < t
    /\ ~end => t < FrameMs * i \/ i = Len(supplied)

\* boundary answers with the frame's capture time and what has passed of it.
LEMMA BoundaryIs ==
    ASSUME StreamTyped, ClockIsTrue, supplied # <<>>, NEW t \in Nat, t <= FrameMs * Len(supplied), Known(t),
           NEW end \in BOOLEAN
    PROVE  \E i \in Released + 1 .. Len(supplied) :
               /\ FrameOf(t, end, i)
               /\ boundary(clock, t, end) = clock.frames[i - Released].capture + t - FrameMs * (i - 1)
<1> DEFINE n == Len(supplied)
<1> DEFINE L == Len(clock.frames)
<1> DEFINE R == Released
<1> DEFINE s == IF end /\ t > 0 THEN t - 1 ELSE t
<1> DEFINE q == s \div FrameMs
<1>1. n \in Nat /\ n > 0 /\ L \in Nat /\ R \in Nat /\ R + L = n /\ R < n
  BY ClockFacts
<1>2. \A k \in 1 .. L : clock.frames[k].audio = FrameMs * (R + k - 1) /\ clock.frames[k].audio \in Int
                        /\ clock.frames[k].capture \in Int
  <2>1. \A k \in 1 .. L : clock.frames[k].audio = FrameMs * (R + k - 1) /\ clock.frames[k].capture \in Int
    BY ClockFacts DEF ClockIsTrue
  <2>2. \A k \in 1 .. L : R + k - 1 \in Int
    BY <1>1
  <2>3. QED
    BY <2>1, <2>2, Multiples
<1>3. s \in Nat /\ s <= t /\ (s = t \/ (end /\ s = t - 1))
  OBVIOUS
<1>4. q \in Nat /\ FrameMs * q <= s /\ s < FrameMs * q + FrameMs /\ FrameMs * q \in Int
  <2>1. q \in Nat /\ FrameMs * q <= s /\ s < FrameMs * q + FrameMs
    BY <1>3, Quotient
  <2> HIDE DEF q
  <2>2. QED
    BY <2>1, MultInt
<1> HIDE DEF q
<1> DEFINE Holds(f) == f.audio < t \/ (~end /\ f.audio = t) \/ (t = 0 /\ f.audio = 0)
<1>5. \A k \in 1 .. L : Holds(clock.frames[k]) <=> clock.frames[k].audio <= s
  <2> SUFFICES ASSUME NEW k \in 1 .. L
               PROVE  Holds(clock.frames[k]) <=> clock.frames[k].audio <= s
    OBVIOUS
  <2>1. clock.frames[k].audio \in Int /\ clock.frames[k].audio >= 0
    <3>1. R + k - 1 \in Nat /\ 0 <= R + k - 1
      BY <1>1
    <3>2. FrameMs * 0 <= FrameMs * (R + k - 1) /\ FrameMs * 0 = 0
      BY <3>1, MultLe, MultZero
    <3>3. QED
      BY <1>2, <3>2
  <2>2. QED
    BY <2>1
<1> HIDE DEF s
<1>6. \A k \in 1 .. L : clock.frames[k].audio <= s <=> R + k - 1 <= q
  <2> SUFFICES ASSUME NEW k \in 1 .. L
               PROVE  clock.frames[k].audio <= s <=> R + k - 1 <= q
    OBVIOUS
  <2> DEFINE a == R + k - 1
  <2>1. a \in Int /\ clock.frames[k].audio = FrameMs * a /\ FrameMs * a \in Int
    BY <1>1, <1>2
  <2> HIDE DEF a
  <2>2. a <= q => FrameMs * a <= s
    <3> SUFFICES ASSUME a <= q
                 PROVE  FrameMs * a <= s
      OBVIOUS
    <3>1. FrameMs * a <= FrameMs * q
      BY <1>4, <2>1, MultLe
    <3>2. FrameMs * a \in Int
      BY <2>1, MultInt
    <3>3. QED
      BY <1>3, <1>4, <3>1, <3>2
  <2>3. FrameMs * a <= s => a <= q
    BY <1>3, <1>4, <2>1, FrameOrder, FrameLength
  <2>4. QED
    BY <2>1, <2>2, <2>3 DEF a
<1>7. R <= q
  <2>1. CASE R = 0
    BY <1>4, <2>1
  <2>2. CASE FrameMs * R < t
    <3>1. FrameMs * R <= s /\ FrameMs * R \in Int
      BY <1>1, <1>3, <2>2, MultInt
    <3>2. QED
      BY <1>1, <1>3, <1>4, <3>1, FrameOrder, FrameLength
  <2>3. QED
    BY <2>1, <2>2 DEF Known
<1> DEFINE i == IF q + 1 <= n THEN q + 1 ELSE n
<1>8. i \in R + 1 .. n /\ i - R \in 1 .. L
  BY <1>1, <1>4, <1>7
<1>9. {k \in 1 .. L : Holds(clock.frames[k])} = 1 .. i - R
  <2>1. \A k \in 1 .. L : Holds(clock.frames[k]) <=> R + k - 1 <= q
    BY <1>5, <1>6
  <2>2. \A k \in 1 .. L : R + k - 1 <= q <=> k <= i - R
    BY <1>1, <1>4, <1>7
  <2> HIDE DEF Holds, i
  <2>3. QED
    <3>1. \A k \in 1 .. L : Holds(clock.frames[k]) <=> k <= i - R
      BY <2>1, <2>2
    <3>2. i - R \in Int /\ i - R <= L
      BY <1>1, <1>8
    <3> DEFINE j == i - R
    <3> HIDE DEF j
    <3>3. {k \in 1 .. L : Holds(clock.frames[k])} = {k \in 1 .. L : k <= j}
      BY <3>1 DEF j
    <3>4. {k \in 1 .. L : k <= j} = 1 .. j
      BY <1>1, <3>2 DEF j
    <3>5. QED
      BY <3>3, <3>4 DEF j
<1>10. Max(1 .. i - R) = i - R
  <2> HIDE DEF i
  <2>1. 1 .. i - R \in SUBSET Int /\ i - R \in 1 .. i - R /\ \A x \in 1 .. i - R : x <= i - R
    BY <1>1, <1>8
  <2>2. QED
    BY <2>1, MaxIs
<1>11. boundary(clock, t, end) = clock.frames[i - R].capture + t - clock.frames[i - R].audio
  <2>1. t \in 0 .. clock.end
    BY <1>1 DEF ClockIsTrue
  <2>2. 1 \in 1 .. i - R
    BY <1>1, <1>8
  <2> HIDE DEF i
  <2>3. QED
    BY <1>9, <1>10, <2>1, <2>2 DEF boundary
<1>12. clock.frames[i - R].audio = FrameMs * (i - 1)
  <2>1. R + (i - R) - 1 = i - 1
    BY <1>1, <1>8
  <2> HIDE DEF i
  <2>2. QED
    BY <1>2, <1>8, <2>1
<1>13. FrameOf(t, end, i)
  <2>1. FrameMs * (i - 1) <= s /\ FrameMs * (i - 1) \in Int
    <3>1. i - 1 \in Int /\ i - 1 <= q
      BY <1>1, <1>4
    <3>2. FrameMs * (i - 1) <= FrameMs * q /\ FrameMs * (i - 1) \in Int
      <4> DEFINE e == i - 1
      <4>1. e \in Int /\ e <= q /\ q \in Int
        BY <1>4, <3>1
      <4> HIDE DEF e
      <4>2. FrameMs * e <= FrameMs * q /\ FrameMs * e \in Int
        BY <4>1, MultInt, MultLe
      <4>3. QED
        BY <4>2 DEF e
    <3> HIDE DEF i
    <3>3. QED
      BY <1>3, <1>4, <3>2
  <2>2. FrameMs * (i - 1) <= t
    BY <1>3, <2>1
  <2>3. t <= FrameMs * i
    <3>1. CASE q + 1 <= n
      <4>1. FrameMs * (q + 1) = FrameMs * q + FrameMs
        BY <1>4, Multiples
      <4>2. t <= FrameMs * q + FrameMs
        BY <1>3, <1>4, FrameLength
      <4>3. QED
        BY <3>1, <4>1, <4>2
    <3>2. CASE ~(q + 1 <= n)
      BY <3>2
    <3>3. QED
      BY <3>1, <3>2
  <2>4. t = 0 => i = 1
    <3>1. ASSUME t = 0
          PROVE  q = 0
      <4>1. s = 0
        BY <1>3, <3>1
      <4>2. FrameMs * q < FrameMs * 0 + FrameMs
        <5>1. FrameMs * 0 = 0
          BY Multiples
        <5>2. QED
          BY <1>4, <4>1, <5>1, FrameLength
      <4>3. QED
        BY <1>4, <4>2, FrameOrder
    <3>2. QED
      BY <1>1, <3>1
  <2>5. end /\ t > 0 => FrameMs * (i - 1) < t
    <3>1. end /\ t > 0 => s < t
      BY DEF s
    <3>2. QED
      BY <1>3, <2>1, <3>1
  <2>6. ~end => t < FrameMs * i \/ i = n
    <3>1. CASE q + 1 <= n
      <4>1. FrameMs * (q + 1) = FrameMs * q + FrameMs
        BY <1>4, Multiples
      <4>2. ~end => s = t
        BY DEF s
      <4>3. QED
        BY <1>4, <3>1, <4>1, <4>2
    <3>2. CASE ~(q + 1 <= n)
      BY <3>2
    <3>3. QED
      BY <3>1, <3>2
  <2> HIDE DEF i
  <2>7. QED
    BY <2>2, <2>3, <2>4, <2>5, <2>6 DEF FrameOf
<1>14. QED
  <2> HIDE DEF i
  <2>1. QED
    BY <1>8, <1>11, <1>12, <1>13

\* The time of a moment in a frame that the clock holds.
Value(i, t) == clock.frames[i - Released].capture + t - FrameMs * (i - 1)

\* A frame the clock holds has its capture time.
LEMMA FrameHeld ==
    ASSUME StreamTyped, ClockIsTrue, NEW i \in Released + 1 .. Len(supplied)
    PROVE  /\ i \in 1 .. Len(supplied) /\ i - Released \in 1 .. Len(clock.frames)
           /\ clock.frames[i - Released].capture \in Int /\ FrameMs * (i - 1) \in Int
           /\ IsCapture(supplied, i, clock.frames[i - Released].capture)
           /\ CaptureOf(supplied, i) = clock.frames[i - Released].capture
           /\ \A t \in Nat : Value(i, t) \in Int
<1> DEFINE k == i - Released
<1>1. i \in 1 .. Len(supplied) /\ k \in 1 .. Len(clock.frames) /\ Released + k = i /\ i - 1 \in Int
  <2>1. /\ Released \in Nat /\ Len(supplied) \in Nat /\ Len(clock.frames) \in Nat
        /\ Released + Len(clock.frames) = Len(supplied)
    BY ClockFacts
  <2>2. QED
    BY <2>1
<1>2. clock.frames[k].capture \in Int /\ FrameMs * (i - 1) \in Int
  BY <1>1, ClockFacts, MultInt
<1> HIDE DEF k
<1>3. IsCapture(supplied, i, clock.frames[k].capture)
  BY <1>1, ClockFacts DEF ClockIsTrue
<1>4. CaptureOf(supplied, i) = clock.frames[k].capture
  BY <1>1, <1>2, <1>3, ClockFacts, CaptureIs
<1>5. \A t \in Nat : clock.frames[k].capture + t - FrameMs * (i - 1) \in Int
  BY <1>2
<1>6. QED
  BY <1>1, <1>2, <1>3, <1>4, <1>5 DEF k, Value

\* Later moments have later times, and none is negative.
LEMMA ValueOrder ==
    ASSUME StreamTyped, ClockIsTrue,
           NEW i \in Released + 1 .. Len(supplied), NEW k \in Released + 1 .. Len(supplied), i <= k,
           NEW s \in Nat, NEW t \in Nat, s <= t
    PROVE  Value(i, s) <= Value(k, t) /\ 0 <= Value(k, t)
<1> DEFINE m == clock.frames[i - Released].capture
<1> DEFINE c == clock.frames[k - Released].capture
<1> DEFINE p == FrameMs * (i - 1)
<1> DEFINE q == FrameMs * (k - 1)
<1> DEFINE d == FrameMs * (k - i)
<1>1. /\ i \in 1 .. Len(supplied) /\ k \in 1 .. Len(supplied) /\ m \in Int /\ c \in Int
      /\ p \in Int /\ q \in Int /\ IsCapture(supplied, i, m) /\ IsCapture(supplied, k, c)
  BY FrameHeld
<1>2. supplied \in Seq(Nat)
  BY ClockFacts
<1>3. m + d <= c /\ q <= c
  <2> HIDE DEF m, c
  <2>1. QED
    BY <1>1, <1>2, CaptureOrder
<1>4. d = q - p
  <2> DEFINE a == k - 1
  <2> DEFINE b == i - 1
  <2>1. a \in Int /\ b \in Int /\ k - i = a - b
    BY <1>1
  <2>2. FrameMs * (a - b) = FrameMs * a - FrameMs * b
    BY <2>1, Multiples
  <2>3. QED
    BY <2>1, <2>2
<1> HIDE DEF m, c, p, q, d
<1>5. m + s - p <= c + t - q /\ 0 <= c + t - q
  BY <1>1, <1>3, <1>4
<1>6. QED
  BY <1>5 DEF Value, m, c, p, q

\* A time is a number.
LEMMA ValueIsNat ==
    ASSUME StreamTyped, ClockIsTrue, NEW i \in Released + 1 .. Len(supplied), NEW t \in Nat
    PROVE  Value(i, t) \in Nat
<1>1. i \in 1 .. Len(supplied) /\ Value(i, t) \in Int
  BY FrameHeld
<1>2. i <= i /\ t <= t
  BY <1>1
<1>3. 0 <= Value(i, t)
  BY <1>2, ValueOrder
<1>4. QED
  BY <1>1, <1>3

\* The reference times are the clock's.
LEMMA TrueTimes ==
    ASSUME StreamTyped, ClockIsTrue, NEW i \in Released + 1 .. Len(supplied), NEW t \in Nat, NEW end \in BOOLEAN,
           FrameOf(t, end, i)
    PROVE  /\ ~end => TrueStart(supplied, t) = Value(i, t)
           /\ end => TrueEnd(supplied, t) = Value(i, t)
<1> DEFINE n == Len(supplied)
<1> DEFINE p == FrameMs * (i - 1)
<1> DEFINE d == t \div FrameMs
<1>1. i \in 1 .. n /\ n \in Nat /\ p \in Int /\ CaptureOf(supplied, i) = clock.frames[i - Released].capture
  BY FrameHeld, ClockFacts
<1>2. FrameMs * i = p + FrameMs /\ i - 1 \in Int
  <2> DEFINE a == i - 1
  <2>1. a \in Int /\ a + 1 = i
    BY <1>1
  <2> HIDE DEF a
  <2>2. FrameMs * (a + 1) = FrameMs * a + FrameMs
    BY <2>1, MultNext
  <2>3. QED
    BY <2>1, <2>2 DEF a
<1>3. p <= t
  BY DEF FrameOf
<1>4. ASSUME ~end
      PROVE  TrueStart(supplied, t) = Value(i, t)
  <2>1. d \in Nat /\ t < FrameMs * d + FrameMs
    BY Quotient
  <2>2. Min({d + 1, n}) = i
    <3>1. CASE t < FrameMs * i
      <4>1. d = i - 1
        BY <1>2, <1>3, <3>1, QuotientIs
      <4> HIDE DEF d
      <4>2. {d + 1, n} \in SUBSET Int /\ i \in {d + 1, n} /\ \A x \in {d + 1, n} : i <= x
        BY <1>1, <4>1
      <4>3. QED
        BY <4>2, MinIs
    <3>2. CASE i = n
      <4>1. i - 1 <= d
        <5>1. p < FrameMs * d + FrameMs
          <6>1. FrameMs * d \in Int
            BY <2>1, MultInt
          <6> HIDE DEF d, p
          <6>2. QED
            BY <1>1, <1>3, <2>1, <6>1, FrameLength
        <5> HIDE DEF d
        <5>2. QED
          BY <1>2, <2>1, <5>1, FrameOrder
      <4> HIDE DEF d
      <4>2. {d + 1, n} \in SUBSET Int /\ i \in {d + 1, n} /\ \A x \in {d + 1, n} : i <= x
        BY <1>1, <2>1, <3>2, <4>1
      <4>3. QED
        BY <4>2, MinIs
    <3>3. QED
      BY <1>4, <3>1, <3>2 DEF FrameOf
  <2>3. QED
    BY <1>1, <2>2 DEF TrueStart, Value
<1>5. ASSUME end
      PROVE  TrueEnd(supplied, t) = Value(i, t)
  <2>1. (IF t = 0 THEN 1 ELSE (t - 1) \div FrameMs + 1) = i
    <3>1. CASE t = 0
      BY <3>1 DEF FrameOf
    <3>2. CASE t # 0
      <4>1. t - 1 \in Nat /\ p <= t - 1 /\ t - 1 < p + FrameMs
        <5>1. p < t /\ t <= p + FrameMs
          BY <1>2, <1>5, <3>2 DEF FrameOf
        <5> HIDE DEF p
        <5>2. QED
          BY <1>1, <3>2, <5>1, FrameLength
      <4>2. (t - 1) \div FrameMs = i - 1
        BY <1>2, <4>1, QuotientIs
      <4>3. QED
        BY <1>1, <3>2, <4>2
    <3>3. QED
      BY <3>1, <3>2
  <2>2. QED
    BY <1>1, <2>1 DEF TrueEnd, Value
<1>6. QED
  BY <1>4, <1>5

\* A word, with its point or its two ends.
LEMMA WordIs ==
    ASSUME StreamTyped, ClockIsTrue, supplied # <<>>, NEW k \in Span, k.start <= k.end,
           k.end <= FrameMs * Len(supplied), Known(k.start)
    PROVE  \E i \in Released + 1 .. Len(supplied), j \in Released + 1 .. Len(supplied) :
               /\ mapToken(clock, k) = [start |-> Value(i, k.start), end |-> Value(j, k.end)]
               /\ Value(i, k.start) \in Nat /\ Value(j, k.end) \in Nat
               /\ k.start < k.end => FrameOf(k.start, FALSE, i) /\ FrameOf(k.end, TRUE, j)
               /\ k.start = k.end => i = j
<1>1. k.start \in Nat /\ k.end \in Nat
  BY DEF Span
<1>2. Known(k.end)
  <2>1. Released \in Nat
    BY ClockFacts
  <2>2. FrameMs * Released \in Int
    BY <2>1, MultInt
  <2>3. QED
    BY <1>1, <2>2 DEF Known
<1>3. k.start <= FrameMs * Len(supplied)
  BY <1>1, ClockFacts
<1>4. CASE k.start = k.end
  <2>1. PICK i \in Released + 1 .. Len(supplied) : boundary(clock, k.start, TRUE) = Value(i, k.start)
    BY <1>1, <1>3, BoundaryIs DEF Value
  <2>2. Value(i, k.start) \in Nat
    BY <1>1, ValueIsNat
  <2>3. mapToken(clock, k) = [start |-> Value(i, k.start), end |-> Value(i, k.end)]
    BY <1>4, <2>1 DEF mapToken
  <2>4. Value(i, k.end) \in Nat /\ ~(k.start < k.end)
    BY <1>1, <1>4, <2>2
  <2>5. QED
    BY <1>4, <2>2, <2>3, <2>4
<1>5. CASE k.start # k.end
  <2>1. PICK i \in Released + 1 .. Len(supplied) :
            FrameOf(k.start, FALSE, i) /\ boundary(clock, k.start, FALSE) = Value(i, k.start)
    BY <1>1, <1>3, BoundaryIs DEF Value
  <2>2. PICK j \in Released + 1 .. Len(supplied) :
            FrameOf(k.end, TRUE, j) /\ boundary(clock, k.end, TRUE) = Value(j, k.end)
    BY <1>1, <1>2, BoundaryIs DEF Value
  <2>3. Value(i, k.start) \in Nat /\ Value(j, k.end) \in Nat
    BY <1>1, ValueIsNat
  <2>4. mapToken(clock, k) = [start |-> Value(i, k.start), end |-> Value(j, k.end)]
    BY <1>5, <2>1, <2>2 DEF mapToken
  <2>5. QED
    BY <1>5, <2>1, <2>2, <2>3, <2>4
<1>6. QED
  BY <1>4, <1>5

\* The frames of two moments are in their order.
LEMMA FramesInOrder ==
    ASSUME StreamTyped, ClockIsTrue, NEW i \in Released + 1 .. Len(supplied), NEW j \in Released + 1 .. Len(supplied),
           NEW s \in Nat, NEW t \in Nat, NEW e \in BOOLEAN, NEW f \in BOOLEAN, FrameOf(s, e, i), FrameOf(t, f, j),
           (~f /\ s <= t) \/ s < t \/ (s <= t /\ e /\ s > 0)
    PROVE  i <= j
<1>1. i - 1 \in Int /\ j - 1 \in Int /\ i \in 1 .. Len(supplied) /\ j \in 1 .. Len(supplied)
  BY FrameHeld, ClockFacts
<1>2. CASE ~f /\ j = Len(supplied)
  BY <1>1, <1>2
<1>3. CASE f \/ t < FrameMs * j
  <2>1. FrameMs * (i - 1) < FrameMs * j
    <3>1. FrameMs * (i - 1) <= s /\ t <= FrameMs * j /\ (e /\ s > 0 => FrameMs * (i - 1) < s)
      BY DEF FrameOf
    <3>2. FrameMs * (i - 1) \in Int /\ FrameMs * j \in Int
      BY <1>1, MultInt
    <3>3. QED
      BY <1>3, <3>1, <3>2
  <2>2. FrameMs * j = FrameMs * (j - 1) + FrameMs
    <3> DEFINE a == j - 1
    <3>1. a \in Int /\ a + 1 = j
      BY <1>1
    <3> HIDE DEF a
    <3>2. FrameMs * (a + 1) = FrameMs * a + FrameMs
      BY <3>1, MultNext
    <3>3. QED
      BY <3>1, <3>2 DEF a
  <2>3. i - 1 <= j - 1
    BY <1>1, <2>1, <2>2, FrameOrder
  <2>4. QED
    BY <1>1, <2>3
<1>4. QED
  BY <1>2, <1>3 DEF FrameOf

\* TranscriptionClock::map places every utterance that was heard, at the time it
\* was captured, with its words inside.
LEMMA MapIsTrue ==
    ASSUME StreamTyped, ClockIsTrue, NEW u, IsFinal(u), Heard(u)
    PROVE  mapped(clock, u) /\ supplied # <<>> /\ IsTrue(map(clock, u)) /\ IsUtterance(map(clock, u))
<1>1. /\ u.start \in Nat /\ u.end \in Nat /\ u.start < u.end /\ u.end <= FrameMs * prov.heard /\ Known(u.start)
      /\ u.tokens \in SUBSET Span /\ u.source = {[start |-> u.start, end |-> u.end, tokens |-> u.tokens]}
      /\ \A k \in u.tokens : u.start <= k.start /\ k.start <= k.end /\ k.end <= u.end
      /\ u = [ids |-> u.ids, start |-> u.start, end |-> u.end, tokens |-> u.tokens, source |-> u.source]
  BY DEF IsFinal, Heard, IsUtterance
<1>2. u.end <= FrameMs * Len(supplied) /\ FrameMs * Len(supplied) \in Int
  BY <1>1, ClockFacts
<1>3. supplied # <<>>
  <2> SUFFICES ASSUME supplied = <<>>
               PROVE  FALSE
    OBVIOUS
  <2>1. Len(supplied) = 0
    BY ClockFacts
  <2>2. FrameMs * Len(supplied) = 0
    BY <2>1, MultZero
  <2>3. QED
    BY <1>1, <1>2, <2>2
<1>4. Known(u.end) /\ \A k \in u.tokens : k.start \in Nat /\ k.end \in Nat /\ Known(k.start) /\ Known(k.end)
  <2>1. Released \in Nat
    BY ClockFacts
  <2>2. FrameMs * Released \in Int
    BY <2>1, MultInt
  <2>3. \A k \in u.tokens : k.start \in Nat /\ k.end \in Nat
    BY <1>1 DEF Span
  <2>4. QED
    BY <1>1, <2>2, <2>3 DEF Known
<1>5. u.start <= FrameMs * Len(supplied)
  BY <1>1, <1>2
<1>6. PICK i \in Released + 1 .. Len(supplied) :
          FrameOf(u.start, FALSE, i) /\ boundary(clock, u.start, FALSE) = Value(i, u.start)
  BY <1>1, <1>3, <1>5, BoundaryIs DEF Value
<1>7. PICK j \in Released + 1 .. Len(supplied) :
          FrameOf(u.end, TRUE, j) /\ boundary(clock, u.end, TRUE) = Value(j, u.end)
  BY <1>1, <1>2, <1>3, <1>4, BoundaryIs DEF Value
<1> DEFINE v == map(clock, u)
<1>8. /\ v.start = Value(i, u.start) /\ v.end = Value(j, u.end) /\ v.source = u.source
      /\ v.tokens = {mapToken(clock, k) : k \in u.tokens} /\ IsUtterance(v)
  <2>1. v = [ids |-> u.ids, start |-> Value(i, u.start), end |-> Value(j, u.end),
             tokens |-> {mapToken(clock, k) : k \in u.tokens}, source |-> u.source]
    <3> DEFINE z == {mapToken(clock, k) : k \in u.tokens}
    <3>1. v = [u EXCEPT !.start = boundary(clock, u.start, FALSE), !.end = boundary(clock, u.end, TRUE), !.tokens = z]
      BY DEF map
    <3> HIDE DEF z, v
    <3>2. v = [ids |-> u.ids, start |-> boundary(clock, u.start, FALSE), end |-> boundary(clock, u.end, TRUE),
               tokens |-> z, source |-> u.source]
      BY <1>1, <3>1
    <3>3. QED
      BY <1>6, <1>7, <3>2 DEF z
  <2> HIDE DEF v
  <2>2. QED
    BY <2>1 DEF IsUtterance
<1> HIDE DEF v
<1>9. i <= j
  BY <1>1, <1>6, <1>7, FramesInOrder
<1>10. v.start <= v.end /\ v.start \in Nat /\ v.end \in Nat
  <2>1. u.start <= u.end
    BY <1>1
  <2>2. Value(i, u.start) \in Nat /\ Value(j, u.end) \in Nat
    BY <1>1, ValueIsNat
  <2>3. Value(i, u.start) <= Value(j, u.end)
    BY <1>1, <1>9, <2>1, ValueOrder
  <2>4. QED
    BY <1>8, <2>2, <2>3
<1>11. ASSUME NEW w \in v.tokens
       PROVE  /\ w.start \in Nat /\ w.end \in Nat
              /\ w.start < w.end => v.start <= w.start /\ w.end <= v.end
  <2>1. PICK k \in u.tokens : w = mapToken(clock, k)
    BY <1>8
  <2>2. k \in Span /\ k.start \in Nat /\ k.end \in Nat /\ Known(k.start)
        /\ u.start <= k.start /\ k.start <= k.end /\ k.end <= u.end /\ k.end <= FrameMs * Len(supplied)
    BY <1>1, <1>2, <1>4
  <2>3. PICK a \in Released + 1 .. Len(supplied), b \in Released + 1 .. Len(supplied) :
               /\ mapToken(clock, k) = [start |-> Value(a, k.start), end |-> Value(b, k.end)]
               /\ Value(a, k.start) \in Nat /\ Value(b, k.end) \in Nat
               /\ k.start < k.end => FrameOf(k.start, FALSE, a) /\ FrameOf(k.end, TRUE, b)
               /\ k.start = k.end => a = b
    BY <1>3, <2>2, WordIs
  <2>4. w.start = Value(a, k.start) /\ w.end = Value(b, k.end)
    BY <2>1, <2>3
  <2>5. CASE k.start < k.end
    <3>1. i <= a
      BY <1>1, <1>6, <2>2, <2>3, <2>5, FramesInOrder
    <3>2. b <= j
      <4>1. k.end > 0 /\ FrameOf(k.end, TRUE, b) /\ FrameOf(u.end, TRUE, j)
        <5>1. k.end > 0
          BY <2>2, <2>5
        <5>2. FrameOf(k.end, TRUE, b)
          BY <2>3, <2>5
        <5>3. QED
          BY <1>7, <5>1, <5>2
      <4>2. QED
        BY <1>1, <2>2, <4>1, FramesInOrder
    <3>3. Value(i, u.start) <= Value(a, k.start)
      BY <1>1, <2>2, <3>1, ValueOrder
    <3>4. Value(b, k.end) <= Value(j, u.end)
      BY <1>1, <2>2, <3>2, ValueOrder
    <3>5. QED
      BY <1>8, <2>3, <2>4, <3>3, <3>4
  <2>6. CASE k.start = k.end
    BY <2>2, <2>3, <2>4, <2>6
  <2>7. QED
    BY <2>2, <2>5, <2>6
<1>12. mapped(clock, u)
  <2>1. \A n \in Nat : n # Refused
    BY DEF Refused
  <2>2. QED
    BY <1>10, <1>11, <2>1 DEF mapped, v
<1>13. v.start = TrueStart(supplied, u.start) /\ v.end = TrueEnd(supplied, u.end)
  BY <1>1, <1>6, <1>7, <1>8, TrueTimes
<1>14. IsTrue(v)
  BY <1>1, <1>2, <1>8, <1>11, <1>13 DEF IsTrue
<1>15. QED
  BY <1>3, <1>8, <1>12, <1>14 DEF v

-----------------------------------------------------------------------------
(* How the clock moves *)

ClockType == [frames : Seq([audio : Nat, capture : Int]), first : Int, end : Nat]

\* record: the frame's audio begins where the clock ends, and it is heard when
\* it was captured or when the frame before it has played.
LEMMA RecordIsTrue ==
    ASSUME StreamTyped, ClockIsTrue, NEW x \in Nat, clock' = record(clock, x), supplied' = Append(supplied, x), origin'
    PROVE  clock' \in ClockType /\ ClockIsTrue' /\ Released' = Released
<1> DEFINE n == Len(supplied)
<1> DEFINE L == Len(clock.frames)
<1> DEFINE fs == clock.frames
<1>1. /\ n \in Nat /\ L \in Nat /\ Released \in Nat /\ Released + L = n /\ supplied \in Seq(Nat)
      /\ DOMAIN fs = 1 .. L /\ fs \in Seq([audio : Nat, capture : Int])
      /\ (supplied = <<>> <=> n = 0) /\ (supplied # <<>> => Released < n)
      /\ \A k \in 1 .. L : fs[k].capture \in Int
  BY ClockFacts DEF StreamTyped
<1>2. /\ Len(supplied') = n + 1 /\ supplied' # <<>> /\ supplied'[n + 1] = x
      /\ (n > 0 => supplied'[1] = supplied[1]) /\ (n = 0 => supplied'[1] = x)
  <2>1. supplied' = Append(supplied, x) /\ supplied \in Seq(Nat) /\ n \in Nat
    BY <1>1
  <2>2. Len(supplied') = n + 1 /\ supplied'[n + 1] = x
    BY <2>1
  <2>3. supplied' # <<>>
    <3>1. Len(<<>>) = 0 /\ n + 1 # 0
      BY <2>1
    <3>2. QED
      BY <2>2, <3>1
  <2>4. n > 0 => supplied'[1] = supplied[1]
    BY <2>1
  <2>5. n = 0 => supplied'[1] = x
    BY <2>1
  <2>6. QED
    BY <2>2, <2>3, <2>4, <2>5
<1>3. FrameMs * (n + 1) = FrameMs * n + FrameMs /\ FrameMs * n \in Nat /\ clock.end = FrameMs * n
  <2>1. FrameMs * 0 <= FrameMs * n /\ FrameMs * 0 = 0 /\ FrameMs * n \in Int
    BY <1>1, MultInt, MultLe, MultZero
  <2>2. FrameMs * (n + 1) = FrameMs * n + FrameMs
    BY <1>1, MultNext
  <2>3. QED
    BY <2>1, <2>2 DEF ClockIsTrue
<1> DEFINE o == IF clock.first = NoTime THEN x ELSE clock.first
<1> DEFINE at == IF fs = <<>> THEN x - o ELSE Max({x - o, fs[L].capture + FrameMs})
<1> DEFINE f == [audio |-> clock.end, capture |-> at]
<1>4. clock' = [frames |-> Append(fs, f), first |-> o, end |-> clock.end + FrameMs]
  BY DEF record
<1>5. o = supplied'[1] /\ o \in Nat
  <2>1. CASE n = 0
    BY <1>1, <1>2, <2>1 DEF ClockIsTrue, NewClock
  <2>2. CASE n > 0
    <3>1. clock.first = supplied[1] /\ supplied[1] \in Nat
      BY <1>1, <2>2 DEF ClockIsTrue
    <3>2. clock.first # NoTime
      BY <3>1 DEF NoTime
    <3>3. QED
      BY <1>2, <2>2, <3>1, <3>2
  <2>3. QED
    BY <1>1, <2>1, <2>2
<1> HIDE DEF o
<1>6. at \in Int /\ IsCapture(supplied', n + 1, at)
  <2>1. CASE n = 0
    <3>1. fs = <<>> /\ at = 0
      BY <1>1, <1>2, <1>5, <2>1 DEF ClockIsTrue, NewClock
    <3>2. n + 1 = 1 /\ supplied'[1] = x
      BY <1>2, <2>1
    <3>3. FrameMs * (1 - 1) = 0
      <4>1. 1 - 1 = 0
        OBVIOUS
      <4>2. QED
        BY <4>1, MultZero
    <3> HIDE DEF at
    <3>4. \A j \in 1 .. 1 : j = 1
      OBVIOUS
    <3>5. /\ \A j \in 1 .. 1 : supplied'[j] - supplied'[1] + FrameMs * (1 - j) <= 0
          /\ \E j \in 1 .. 1 : supplied'[j] - supplied'[1] + FrameMs * (1 - j) = 0
      BY <3>2, <3>3, <3>4
    <3>6. IsCapture(supplied', 1, 0)
      BY <3>5 DEF IsCapture
    <3>7. QED
      BY <3>1, <3>2, <3>6
  <2>2. CASE n > 0
    <3> DEFINE m == fs[L].capture
    <3>1. supplied # <<>> /\ L \in 1 .. L /\ m \in Int /\ Released + L = Len(supplied)
      BY <1>1, <2>2
    <3>2. IsCapture(supplied, Len(supplied), m)
      BY <1>1, <3>1 DEF ClockIsTrue
    <3>3. fs # <<>>
      BY <1>1, <3>1
    <3>4. o = supplied[1]
      BY <1>2, <1>5, <2>2
    <3>5. at = Max({x - supplied[1], m + FrameMs})
      BY <3>3, <3>4
    <3>6. IsCapture(Append(supplied, x), Len(supplied) + 1, Max({x - supplied[1], m + FrameMs}))
      BY <1>1, <3>1, <3>2, CaptureNext
    <3>7. at \in Int
      <4>1. x - o \in Int /\ m + FrameMs \in Int
        BY <1>5, <3>1, FrameLength
      <4>2. at \in {x - o, m + FrameMs}
        <5>1. \E c \in {x - o, m + FrameMs} : \A y \in {x - o, m + FrameMs} : y <= c
          BY <4>1
        <5>2. Max({x - o, m + FrameMs}) \in {x - o, m + FrameMs}
          BY <4>1, <5>1, MaxIs
        <5>3. QED
          BY <3>3, <5>2
      <4>3. QED
        BY <4>1, <4>2
    <3>8. QED
      BY <3>5, <3>6, <3>7
  <2>3. QED
    BY <1>1, <2>1, <2>2
<1> HIDE DEF at
<1>7. f \in [audio : Nat, capture : Int]
  BY <1>3, <1>6
<1> DEFINE fs2 == Append(fs, f)
<1>8. /\ fs2 \in Seq([audio : Nat, capture : Int]) /\ Len(fs2) = L + 1 /\ DOMAIN fs2 = 1 .. L + 1
      /\ fs2[L + 1] = f /\ \A k \in 1 .. L : fs2[k] = fs[k]
  <2> DEFINE T == [audio : Nat, capture : Int]
  <2>1. fs \in Seq(T) /\ f \in T
    BY <1>1, <1>7
  <2> HIDE DEF T, f, fs
  <2>2. fs2 \in Seq(T) /\ Len(fs2) = Len(fs) + 1 /\ DOMAIN fs2 = 1 .. Len(fs) + 1
        /\ fs2[Len(fs) + 1] = f /\ \A k \in 1 .. Len(fs) : fs2[k] = fs[k]
    BY <2>1
  <2>3. QED
    BY <2>2 DEF T, fs
<1> HIDE DEF fs2
<1>9. clock'.frames = fs2 /\ clock'.first = o /\ clock'.end = clock.end + FrameMs /\ clock' \in ClockType
  BY <1>3, <1>4, <1>5, <1>8, FrameLength DEF ClockType, fs2
<1>10. Released' = Released
  <2>1. Released' = Len(supplied') - Len(clock'.frames)
    BY DEF Released
  <2>2. Released' = (n + 1) - (L + 1)
    BY <1>2, <1>8, <1>9, <2>1
  <2> DEFINE r == Released
  <2>3. r \in Nat /\ r + L = n /\ L \in Nat /\ n \in Nat
    BY <1>1
  <2> HIDE DEF n, L, r
  <2>4. (n + 1) - (L + 1) = r
    BY <2>3
  <2>5. QED
    BY <2>2, <2>4 DEF r
<1>11. ASSUME NEW k \in 1 .. L + 1
       PROVE  /\ fs2[k].audio = FrameMs * (Released + k - 1)
              /\ IsCapture(supplied', Released + k, fs2[k].capture)
  <2>1. CASE k \in 1 .. L
    <3>1. fs2[k] = fs[k] /\ fs[k].capture \in Int /\ Released + k \in 1 .. Len(supplied)
      BY <1>1, <1>8, <2>1
    <3>2. fs[k].audio = FrameMs * (Released + k - 1) /\ IsCapture(supplied, Released + k, fs[k].capture)
      BY <1>1, <2>1 DEF ClockIsTrue
    <3>3. IsCapture(supplied', Released + k, fs[k].capture)
      BY <1>1, <3>1, <3>2, CaptureKept
    <3>4. QED
      BY <3>1, <3>2, <3>3
  <2>2. CASE k = L + 1
    <3>1. Released + k - 1 = n /\ Released + k = n + 1 /\ fs2[k] = f
      <4>1. fs2[k] = f
        BY <1>8, <2>2
      <4>2. Released \in Nat /\ Released + L = n /\ L \in Nat /\ n \in Nat
        BY <1>1
      <4> HIDE DEF n, L, f
      <4>3. QED
        BY <2>2, <4>1, <4>2
    <3>2. QED
      BY <1>3, <1>6, <3>1
  <2>3. k \in 1 .. L \/ k = L + 1
    <3>1. L \in Nat
      BY <1>1
    <3> HIDE DEF L
    <3>2. QED
      BY <3>1
  <2>4. QED
    BY <2>1, <2>2, <2>3
<1>12. ClockIsTrue'
  <2>1. Released \in 0 .. Len(supplied') - 1
    BY <1>1, <1>2
  <2>2. clock'.end = FrameMs * Len(supplied')
    BY <1>2, <1>3, <1>9
  <2>3. QED
    BY <1>2, <1>5, <1>8, <1>9, <1>10, <1>11, <2>1, <2>2 DEF ClockIsTrue
<1>13. QED
  BY <1>9, <1>10, <1>12

\* discard_before: what is released ends before the moment t.
LEMMA DiscardIsTrue ==
    ASSUME StreamTyped, ClockIsTrue, supplied # <<>>, NEW t \in Nat, t < FrameMs * Len(supplied), Known(t),
           clock' = discard_before(clock, t), UNCHANGED <<supplied, origin>>
    PROVE  clock' \in ClockType /\ ClockIsTrue' /\ (Released' = 0 \/ FrameMs * Released' < t)
<1> DEFINE n == Len(supplied)
<1> DEFINE L == Len(clock.frames)
<1> DEFINE fs == clock.frames
<1> DEFINE R == Released
<1>1. /\ n \in Nat /\ L \in Nat /\ R \in Nat /\ R + L = n /\ R < n
      /\ DOMAIN fs = 1 .. L /\ fs \in Seq([audio : Nat, capture : Int])
  BY ClockFacts DEF StreamTyped
<1> DEFINE gone == {i \in 1 .. L - 1 : fs[i + 1].audio < t}
<1>2. \E g \in 0 .. L - 1 : gone = 1 .. g /\ (R + g = 0 \/ FrameMs * (R + g) < t)
  <2>1. \A i \in 1 .. L - 1 : fs[i + 1].audio = FrameMs * (R + i)
    <3> SUFFICES ASSUME NEW i \in 1 .. L - 1
                 PROVE  fs[i + 1].audio = FrameMs * (R + i)
      OBVIOUS
    <3>1. i + 1 \in 1 .. L /\ R + (i + 1) - 1 = R + i
      BY <1>1
    <3>2. fs[i + 1].audio = FrameMs * (R + (i + 1) - 1)
      BY <1>1, <3>1 DEF ClockIsTrue
    <3>3. QED
      BY <3>1, <3>2
  <2>2. CASE t = 0
    <3>1. R = 0
      <4>1. FrameMs * 0 <= FrameMs * R /\ FrameMs * 0 = 0 /\ FrameMs * R \in Int
        BY <1>1, MultInt, MultLe, MultZero
      <4>2. QED
        BY <2>2, <4>1 DEF Known
    <3>2. \A i \in 1 .. L - 1 : ~(fs[i + 1].audio < t)
      <4> SUFFICES ASSUME NEW i \in 1 .. L - 1
                   PROVE  ~(fs[i + 1].audio < t)
        OBVIOUS
      <4>1. R + i \in Int /\ 0 <= R + i
        BY <1>1
      <4>2. FrameMs * 0 <= FrameMs * (R + i) /\ FrameMs * 0 = 0 /\ FrameMs * (R + i) \in Int
        BY <4>1, MultInt, MultLe, MultZero
      <4>3. QED
        BY <2>1, <2>2, <4>2
    <3>3. gone = {} /\ 1 .. 0 = {}
      BY <3>2
    <3>4. 0 \in 0 .. L - 1 /\ R + 0 = 0
      BY <1>1, <3>1
    <3>5. QED
      BY <3>3, <3>4
  <2>3. CASE t > 0
    <3> DEFINE q == (t - 1) \div FrameMs
    <3>1. q \in Nat /\ FrameMs * q <= t - 1 /\ t - 1 < FrameMs * q + FrameMs
      <4>1. t - 1 \in Nat
        BY <2>3
      <4>2. QED
        BY <4>1, Quotient
    <3> HIDE DEF q
    <3>2. FrameMs * q \in Int /\ FrameMs * n \in Int
      BY <1>1, <3>1, MultInt
    <3>3. q < n
      <4> SUFFICES ASSUME n <= q
                   PROVE  FALSE
        BY <1>1, <3>1
      <4>1. FrameMs * n <= FrameMs * q
        BY <1>1, <3>1, MultLe
      <4>2. QED
        BY <3>1, <3>2, <4>1
    <3>4. R <= q
      <4>1. CASE R = 0
        BY <3>1, <4>1
      <4>2. CASE FrameMs * R < t
        <5>1. FrameMs * R \in Int
          BY <1>1, MultInt
        <5>2. FrameMs * R < FrameMs * q + FrameMs
          BY <3>1, <3>2, <4>2, <5>1, FrameLength
        <5>3. QED
          BY <1>1, <3>1, <5>2, FrameOrder
      <4>3. QED
        BY <4>1, <4>2 DEF Known
    <3>5. \A i \in 1 .. L - 1 : fs[i + 1].audio < t <=> i <= q - R
      <4> SUFFICES ASSUME NEW i \in 1 .. L - 1
                   PROVE  FrameMs * (R + i) < t <=> i <= q - R
        BY <2>1
      <4> DEFINE a == R + i
      <4>1. a \in Int
        BY <1>1
      <4>2. i <= q - R <=> a <= q
        BY <1>1, <3>1
      <4> HIDE DEF a
      <4>3. FrameMs * a \in Int
        BY <4>1, MultInt
      <4>4. ASSUME a <= q
            PROVE  FrameMs * a < t
        <5>1. FrameMs * a <= FrameMs * q
          BY <3>1, <4>1, <4>4, MultLe
        <5>2. QED
          BY <3>1, <3>2, <4>3, <5>1
      <4>5. ASSUME FrameMs * a < t
            PROVE  a <= q
        <5>1. FrameMs * a < FrameMs * q + FrameMs
          BY <3>1, <3>2, <4>3, <4>5, FrameLength
        <5>2. QED
          BY <3>1, <4>1, <5>1, FrameOrder
      <4>6. QED
        BY <4>2, <4>4, <4>5 DEF a
    <3>6. q - R \in 0 .. L - 1 /\ R + (q - R) = q
      BY <1>1, <3>1, <3>3, <3>4
    <3> DEFINE g == q - R
    <3>7. gone = 1 .. g
      <4>1. g \in Int /\ g <= L - 1
        BY <3>6
      <4>2. gone = {i \in 1 .. L - 1 : i <= g}
        BY <3>5
      <4> HIDE DEF g
      <4>3. {i \in 1 .. L - 1 : i <= g} = 1 .. g
        BY <1>1, <4>1
      <4>4. QED
        BY <4>2, <4>3
    <3>8. FrameMs * (R + g) < t
      BY <3>1, <3>2, <3>6
    <3> HIDE DEF g
    <3>9. g \in 0 .. L - 1
      BY <3>6 DEF g
    <3>10. QED
      BY <3>7, <3>8, <3>9
  <2>4. QED
    BY <2>2, <2>3
<1>3. PICK g \in 0 .. L - 1 : gone = 1 .. g /\ (R + g = 0 \/ FrameMs * (R + g) < t)
  BY <1>2
<1>4. Cardinality(gone) = g
  <2>1. g \in Int /\ (IF 1 > g THEN 0 ELSE g - 1 + 1) = g
    BY <1>1
  <2>2. Cardinality(1 .. g) = IF 1 > g THEN 0 ELSE g - 1 + 1
    BY <2>1, FS_Interval
  <2>3. QED
    BY <1>3, <2>1, <2>2
<1> DEFINE fs2 == SubSeq(fs, g + 1, L)
<1>5. clock' = [clock EXCEPT !.frames = fs2]
  BY <1>4 DEF discard_before
<1>6. /\ fs2 \in Seq([audio : Nat, capture : Int]) /\ Len(fs2) = L - g /\ DOMAIN fs2 = 1 .. L - g
      /\ \A k \in 1 .. L - g : fs2[k] = fs[g + k]
  <2> DEFINE T == [audio : Nat, capture : Int]
  <2>1. fs \in Seq(T)
    BY <1>1
  <2>2. \A k \in 1 .. L - g : g + k \in 1 .. L /\ (g + 1) + k - 1 = g + k
    BY <1>1
  <2> HIDE DEF T, fs
  <2>3. fs2 \in Seq(T) /\ Len(fs2) = L - g /\ DOMAIN fs2 = 1 .. L - g
    BY <1>1, <2>1
  <2>4. \A k \in 1 .. L - g : fs2[k] = fs[g + k]
    BY <1>1, <2>1, <2>2
  <2>5. QED
    BY <2>3, <2>4 DEF T
<1> HIDE DEF fs2
<1>7. clock'.frames = fs2 /\ clock'.first = clock.first /\ clock'.end = clock.end /\ clock' \in ClockType
  BY <1>5, <1>6 DEF StreamTyped, ClockType
<1>8. Released' = R + g
  <2>1. Released' = Len(supplied) - Len(clock'.frames)
    BY DEF Released
  <2>2. Released' = n - (L - g)
    BY <1>6, <1>7, <2>1
  <2>3. R + L = n /\ L \in Nat /\ n \in Nat /\ R \in Nat /\ g \in Int
    BY <1>1
  <2> HIDE DEF n, L, R
  <2>4. n - (L - g) = R + g
    BY <2>3
  <2>5. QED
    BY <2>2, <2>4
<1>9. ASSUME NEW k \in 1 .. L - g
      PROVE  /\ fs2[k].audio = FrameMs * ((R + g) + k - 1)
             /\ IsCapture(supplied, (R + g) + k, fs2[k].capture)
  <2>1. g + k \in 1 .. L /\ R + (g + k) = (R + g) + k /\ R + (g + k) - 1 = (R + g) + k - 1
    <3>1. L \in Nat /\ R \in Nat /\ g \in 0 .. L - 1
      BY <1>1
    <3> HIDE DEF L, R
    <3>2. QED
      BY <3>1
  <2>2. fs[g + k].audio = FrameMs * (R + (g + k) - 1) /\ IsCapture(supplied, R + (g + k), fs[g + k].capture)
    BY <1>1, <2>1 DEF ClockIsTrue
  <2>3. QED
    BY <1>6, <2>1, <2>2
<1>10. ClockIsTrue'
  <2>1. R + g \in 0 .. Len(supplied) - 1
    <3>1. L \in Nat /\ R \in Nat /\ g \in 0 .. L - 1 /\ n \in Nat /\ R + L = n
      BY <1>1
    <3> HIDE DEF n, L, R
    <3>2. R + g \in 0 .. n - 1
      BY <3>1
    <3>3. QED
      BY <3>2 DEF n
  <2>2. clock'.end = FrameMs * Len(supplied') /\ clock'.first = supplied'[1] /\ origin' /\ supplied' = supplied
    BY <1>7 DEF ClockIsTrue
  <2>3. QED
    BY <1>6, <1>7, <1>8, <1>9, <2>1, <2>2 DEF ClockIsTrue
<1>11. Released' = 0 \/ FrameMs * Released' < t
  BY <1>3, <1>8
<1>12. QED
  BY <1>7, <1>10, <1>11

-----------------------------------------------------------------------------
(* Lists and utterances *)

\* A list with one more entry, and without its first one.
LEMMA AppendListed ==
    ASSUME NEW s, Listed(s), NEW x
    PROVE  /\ Listed(Append(s, x)) /\ Len(s) \in Nat /\ Len(Append(s, x)) = Len(s) + 1
           /\ DOMAIN s = 1 .. Len(s) /\ DOMAIN Append(s, x) = 1 .. Len(s) + 1
           /\ Append(s, x)[Len(s) + 1] = x /\ \A i \in DOMAIN s : Append(s, x)[i] = s[i]
<1> DEFINE R == {s[i] : i \in DOMAIN s}
<1> DEFINE T == R \cup {x}
<1> DEFINE a == Append(s, x)
<1>1. s \in Seq(R)
  BY DEF Listed
<1> HIDE DEF R
<1>2. s \in Seq(T) /\ x \in T
  <2>1. Len(s) \in Nat /\ DOMAIN s = 1 .. Len(s) /\ \A i \in 1 .. Len(s) : s[i] \in R
    BY <1>1
  <2>2. \A i \in 1 .. Len(s) : s[i] \in T
    BY <2>1
  <2>3. s \in Seq(T)
    BY <1>1, <2>1, <2>2
  <2>4. QED
    BY <2>3
<1> HIDE DEF T
<1>3. /\ Len(s) \in Nat /\ DOMAIN s = 1 .. Len(s) /\ a \in Seq(T) /\ Len(a) = Len(s) + 1
      /\ DOMAIN a = 1 .. Len(s) + 1 /\ a[Len(s) + 1] = x /\ \A i \in 1 .. Len(s) : a[i] = s[i]
  BY <1>2
<1> HIDE DEF a
<1>4. Listed(a)
  <2> DEFINE Q == {a[i] : i \in DOMAIN a}
  <2>1. \A i \in 1 .. Len(a) : a[i] \in Q
    BY <1>3
  <2> HIDE DEF Q
  <2>2. a \in Seq(Q)
    BY <1>3, <2>1
  <2>3. QED
    BY <2>2 DEF Listed, Q
<1>5. QED
  BY <1>3, <1>4 DEF a

\* The rest of a list.
LEMMA TailListed ==
    ASSUME NEW s, Listed(s), s # <<>>
    PROVE  /\ Listed(Tail(s)) /\ Len(s) \in Nat /\ Len(s) > 0 /\ Len(Tail(s)) = Len(s) - 1
           /\ DOMAIN s = 1 .. Len(s) /\ DOMAIN Tail(s) = 1 .. Len(s) - 1 /\ Head(s) = s[1] /\ 1 \in DOMAIN s
           /\ \A i \in DOMAIN Tail(s) : i \in Nat /\ i + 1 \in DOMAIN s /\ Tail(s)[i] = s[i + 1]
<1> DEFINE R == {s[i] : i \in DOMAIN s}
<1> DEFINE a == Tail(s)
<1>1. s \in Seq(R)
  BY DEF Listed
<1> HIDE DEF R
<1>2. /\ Len(s) \in Nat /\ Len(s) > 0 /\ DOMAIN s = 1 .. Len(s) /\ a \in Seq(R) /\ Len(a) = Len(s) - 1
      /\ DOMAIN a = 1 .. Len(s) - 1 /\ Head(s) = s[1] /\ \A i \in 1 .. Len(s) - 1 : a[i] = s[i + 1]
  BY <1>1
<1> HIDE DEF a
<1>3. Listed(a)
  <2> DEFINE Q == {a[i] : i \in DOMAIN a}
  <2>1. \A i \in 1 .. Len(a) : a[i] \in Q
    BY <1>2
  <2> HIDE DEF Q
  <2>2. a \in Seq(Q)
    BY <1>2, <2>1
  <2>3. QED
    BY <2>2 DEF Listed, Q
<1>4. QED
  BY <1>2, <1>3 DEF a

\* take_utterance: from fragments in turn, one utterance that begins with the
\* first of them and holds the words of all.
LEMMA UtteranceTaken ==
    ASSUME NEW parts \in Seq(Fragment), parts # <<>>, InTurn(parts),
           \A i \in DOMAIN parts : parts[i].start < parts[i].end,
           NEW u, u = take_utterance(parts)
    PROVE  /\ IsFinal(u) /\ u.start < u.end /\ 1 \in DOMAIN parts /\ u.start = parts[1].start
           /\ \E i \in DOMAIN parts : u.end = parts[i].end
<1>1. /\ Len(parts) \in Nat /\ Len(parts) > 0 /\ DOMAIN parts = 1 .. Len(parts) /\ 1 \in DOMAIN parts
      /\ \A i \in DOMAIN parts : parts[i] \in Fragment
  OBVIOUS
<1>2. \A i \in DOMAIN parts : parts[i].start \in Nat /\ parts[i].end \in Nat /\ parts[i].tokens \in SUBSET Span
  BY <1>1 DEF Fragment
<1>3. /\ \A i, j \in DOMAIN parts : i <= j => parts[i].start <= parts[j].start
      /\ \A i \in DOMAIN parts : \A k \in parts[i].tokens :
            parts[i].start <= k.start /\ k.start <= k.end /\ k.end <= parts[i].end
  BY DEF InTurn
<1>4. PICK l \in DOMAIN parts : \A j \in DOMAIN parts : parts[j].end <= parts[l].end
  BY DEF InTurn
<1> DEFINE P == ToSet(parts)
<1>5. P = {parts[i] : i \in DOMAIN parts}
  BY DEF ToSet
<1> HIDE DEF P
<1>6. Min({p.start : p \in P}) = parts[1].start
  <2> DEFINE S == {p.start : p \in P}
  <2>1. S \in SUBSET Int /\ parts[1].start \in S
    BY <1>1, <1>2, <1>5
  <2>2. \A x \in S : parts[1].start <= x
    BY <1>1, <1>3, <1>5
  <2> HIDE DEF S
  <2>3. Min(S) = parts[1].start
    BY <2>1, <2>2, MinIs
  <2>4. QED
    BY <2>3 DEF S
<1>7. Max({p.end : p \in P}) = parts[l].end
  <2> DEFINE S == {p.end : p \in P}
  <2>1. S \in SUBSET Int /\ parts[l].end \in S
    BY <1>1, <1>2, <1>5
  <2>2. \A x \in S : x <= parts[l].end
    BY <1>4, <1>5
  <2> HIDE DEF S
  <2>3. Max(S) = parts[l].end
    BY <2>1, <2>2, MaxIs
  <2>4. QED
    BY <2>3 DEF S
<1> DEFINE words == UNION {p.tokens : p \in P}
<1>8. words \in SUBSET Span /\ \A k \in words : parts[1].start <= k.start /\ k.start <= k.end /\ k.end <= parts[l].end
  <2>1. ASSUME NEW k \in words
        PROVE  k \in Span /\ parts[1].start <= k.start /\ k.start <= k.end /\ k.end <= parts[l].end
    <3>1. PICK i \in DOMAIN parts : k \in parts[i].tokens
      BY <1>5
    <3>2. k \in Span /\ parts[i].start <= k.start /\ k.start <= k.end /\ k.end <= parts[i].end
      BY <1>2, <1>3, <3>1
    <3>3. parts[1].start <= parts[i].start /\ parts[i].end <= parts[l].end /\ k.start \in Nat /\ k.end \in Nat
      BY <1>1, <1>3, <1>4, <3>2 DEF Span
    <3>4. QED
      BY <1>1, <1>2, <3>2, <3>3
  <2>2. QED
    BY <2>1
<1> HIDE DEF words
<1>9. /\ u = [ids |-> u.ids, start |-> u.start, end |-> u.end, tokens |-> u.tokens, source |-> u.source]
      /\ u.start = parts[1].start /\ u.end = parts[l].end /\ u.tokens = words
      /\ u.source = {[start |-> parts[1].start, end |-> parts[l].end, tokens |-> words]}
  BY <1>6, <1>7 DEF take_utterance, P, words
<1>10. IsFinal(u)
  BY <1>1, <1>2, <1>8, <1>9 DEF IsFinal, IsUtterance
<1>11. u.start < u.end
  <2>1. parts[1].start < parts[1].end /\ parts[1].end <= parts[l].end
    BY <1>1, <1>4
  <2>2. parts[1].start \in Nat /\ parts[1].end \in Nat /\ parts[l].end \in Nat
    BY <1>1, <1>2
  <2>3. QED
    BY <1>9, <2>1, <2>2
<1>12. QED
  BY <1>1, <1>9, <1>10, <1>11

-----------------------------------------------------------------------------
(* The provider's finals *)

\* What is heard after the step, and what stays heard in it: the provider only
\* hears more, and the clock keeps its frames.
HeardThen(f) ==
    /\ f.start < f.end /\ f.end <= FrameMs * prov'.heard
    /\ f.start <= prov'.from /\ (Released' = 0 \/ FrameMs * Released' < f.start)
HearsOn ==
    /\ prov.heard <= prov'.heard /\ prov'.heard \in Nat
    /\ prov.from <= prov'.from /\ prov'.from \in Nat
    /\ Released' = Released

\* Nothing of what was heard is lost by such a step.
LEMMA HeardKept ==
    ASSUME StreamTyped, HearsOn, NEW f, f.start \in Nat, f.end \in Nat, Heard(f)
    PROVE  HeardThen(f)
<1>1. prov.heard \in Nat /\ prov.from \in Nat
  BY DEF StreamTyped
<1>2. FrameMs * prov.heard <= FrameMs * prov'.heard /\ FrameMs * prov.heard \in Int /\ FrameMs * prov'.heard \in Int
  BY <1>1, MultInt, MultLe DEF HearsOn
<1>3. f.start < f.end /\ f.end <= FrameMs * prov.heard /\ f.start <= prov.from /\ Known(f.start)
  BY DEF Heard
<1>4. Released' = 0 \/ FrameMs * Released' < f.start
  BY <1>3 DEF Known, HearsOn
<1>5. f.end <= FrameMs * prov'.heard /\ f.start <= prov'.from
  BY <1>1, <1>2, <1>3 DEF HearsOn
<1>6. QED
  BY <1>3, <1>4, <1>5 DEF HeardThen

\* Fragments of a state are numbered and heard.
LEMMA FragmentsOfState ==
    ASSUME StreamTyped
    PROVE  /\ prov.pending \in Seq(Fragment) /\ DOMAIN prov.pending = 1 .. Len(prov.pending) /\ Len(prov.pending) \in Nat
           /\ \A i \in DOMAIN prov.pending : /\ prov.pending[i] \in Fragment
                                             /\ prov.pending[i].start \in Nat /\ prov.pending[i].end \in Nat
           /\ prov.from \in Nat /\ prov.heard \in Nat /\ prov.made \in Nat
<1>1. prov.pending \in Seq(Fragment) /\ prov.from \in Nat /\ prov.heard \in Nat /\ prov.made \in Nat
  BY DEF StreamTyped
<1>2. /\ DOMAIN prov.pending = 1 .. Len(prov.pending) /\ Len(prov.pending) \in Nat
      /\ \A i \in DOMAIN prov.pending : prov.pending[i] \in Fragment
  BY <1>1
<1>3. \A f \in Fragment : f.start \in Nat /\ f.end \in Nat
  BY DEF Fragment
<1>4. QED
  BY <1>1, <1>2, <1>3

\* Events that stay where they are.
LEMMA EventsKept ==
    ASSUME StreamTyped, EventsInTurn, HearsOn, UNCHANGED events,
           \A i \in DOMAIN events : events[i].kind = "final" =>
               \A p \in DOMAIN prov'.pending : events[i].utterance.start <= prov'.pending[p].start
    PROVE  EventsInTurn'
<1>1. \A i \in DOMAIN events : events[i].kind = "final" => IsFinal(events[i].utterance) /\ Heard(events[i].utterance)
  BY DEF EventsInTurn
<1>2. \A i \in DOMAIN events : events[i].kind = "final" => HeardThen(events[i].utterance)
  BY <1>1, HeardKept DEF IsFinal
<1>3. \A i \in DOMAIN events' : events'[i].kind = "final" => Heard(events[i].utterance)'
  BY <1>2 DEF HeardThen, Heard, Known
<1>4. QED
  BY <1>1, <1>3 DEF EventsInTurn

\* Deliver: an event that is delivered comes after those that wait.
LEMMA EventsDelivered ==
    ASSUME StreamTyped, EventsInTurn, HearsOn, NEW e, events' = Append(events, e),
           \A i \in DOMAIN events : events[i].kind = "final" =>
               /\ \A p \in DOMAIN prov'.pending : events[i].utterance.start <= prov'.pending[p].start
               /\ e.kind = "final" => events[i].utterance.start <= e.utterance.start,
           e.kind = "final" => /\ IsFinal(e.utterance) /\ HeardThen(e.utterance)
                               /\ \A p \in DOMAIN prov'.pending : e.utterance.start <= prov'.pending[p].start
    PROVE  EventsInTurn'
<1> DEFINE n == Len(events)
<1>1. /\ n \in Nat /\ DOMAIN events = 1 .. n /\ DOMAIN events' = 1 .. n + 1 /\ events'[n + 1] = e
      /\ \A i \in 1 .. n : events'[i] = events[i]
  BY AppendListed DEF StreamTyped
<1>2. \A i \in 1 .. n : events[i].kind = "final" => IsFinal(events[i].utterance) /\ HeardThen(events[i].utterance)
  BY <1>1, HeardKept DEF EventsInTurn, IsFinal
<1> HIDE DEF n
<1>3. \A i \in 1 .. n + 1 : i \in 1 .. n \/ i = n + 1
  BY <1>1
<1> SUFFICES ASSUME NEW i \in 1 .. n + 1, events'[i].kind = "final"
             PROVE  /\ IsFinal(events'[i].utterance) /\ HeardThen(events'[i].utterance)
                    /\ \A p \in DOMAIN prov'.pending : events'[i].utterance.start <= prov'.pending[p].start
                    /\ \A j \in 1 .. n + 1 : events'[j].kind = "final" /\ i <= j =>
                           events'[i].utterance.start <= events'[j].utterance.start
  BY <1>1 DEF EventsInTurn, HeardThen, Heard, Known, IsFinal, IsUtterance
<1>4. CASE i \in 1 .. n
  <2>1. events'[i] = events[i] /\ i \in DOMAIN events
    BY <1>1, <1>4
  <2>2. \A j \in 1 .. n : events[j].kind = "final" /\ i <= j => events[i].utterance.start <= events[j].utterance.start
    BY <1>1, <2>1 DEF EventsInTurn
  <2>3. \A j \in 1 .. n + 1 : events'[j].kind = "final" /\ i <= j => events'[i].utterance.start <= events'[j].utterance.start
    BY <1>1, <1>3, <2>1, <2>2
  <2>4. QED
    BY <1>2, <1>4, <2>1, <2>3
<1>5. CASE i = n + 1
  <2>1. events'[i] = e /\ e.utterance.start \in Nat
    BY <1>1, <1>5 DEF IsFinal
  <2>2. \A j \in 1 .. n + 1 : i <= j => j = n + 1
    BY <1>1, <1>5
  <2>3. QED
    BY <1>1, <2>1, <2>2
<1>6. QED
  BY <1>3, <1>4, <1>5

\* An event that is taken leaves the others; those behind a final are not before
\* it, and stay known when the clock lets go what comes before it.
LEMMA EventsTaken ==
    ASSUME StreamTyped, EventsInTurn, events # <<>>, events' = Tail(events), UNCHANGED prov,
           Released' = Released \/ (/\ events[1].kind = "final"
                                    /\ Released' = 0 \/ FrameMs * Released' < events[1].utterance.start
                                    /\ Released' \in Nat)
    PROVE  EventsInTurn'
<1> DEFINE n == Len(events)
<1>1. /\ n \in Nat /\ n > 0 /\ DOMAIN events = 1 .. n /\ DOMAIN events' = 1 .. n - 1
      /\ \A i \in 1 .. n - 1 : i + 1 \in 1 .. n /\ events'[i] = events[i + 1]
  BY TailListed DEF StreamTyped
<1> HIDE DEF n
<1>2. \A i \in 1 .. n : events[i].kind = "final" =>
          /\ IsFinal(events[i].utterance) /\ Heard(events[i].utterance)
          /\ \A p \in DOMAIN prov.pending : events[i].utterance.start <= prov.pending[p].start
          /\ \A j \in 1 .. n : events[j].kind = "final" /\ i <= j =>
                 events[i].utterance.start <= events[j].utterance.start
  BY <1>1 DEF EventsInTurn
<1>3. \A i \in 1 .. n : events[i].kind = "final" => HeardThen(events[i].utterance)
  <2> SUFFICES ASSUME NEW i \in 1 .. n, events[i].kind = "final"
               PROVE  HeardThen(events[i].utterance)
    OBVIOUS
  <2> DEFINE u == events[i].utterance
  <2>1. IsFinal(u) /\ Heard(u) /\ u.start \in Nat
    BY <1>2 DEF IsFinal
  <2>2. Released' = 0 \/ FrameMs * Released' < u.start
    <3>1. CASE Released' = Released
      BY <2>1, <3>1 DEF Heard, Known
    <3>2. CASE /\ events[1].kind = "final"
               /\ Released' = 0 \/ FrameMs * Released' < events[1].utterance.start
               /\ Released' \in Nat
      <4>1. 1 \in 1 .. n /\ 1 <= i
        BY <1>1
      <4>2. events[1].utterance.start <= u.start /\ events[1].utterance.start \in Nat
        <5>1. events[1].utterance.start <= events[i].utterance.start /\ IsFinal(events[1].utterance)
          BY <1>2, <3>2, <4>1
        <5>2. QED
          BY <5>1 DEF IsFinal
      <4>3. FrameMs * Released' \in Int
        BY <3>2, MultInt
      <4>4. QED
        BY <2>1, <3>2, <4>2, <4>3
    <3>3. QED
      BY <3>1, <3>2
  <2>3. QED
    BY <2>1, <2>2 DEF Heard, HeardThen
<1> SUFFICES ASSUME NEW i \in 1 .. n - 1, events'[i].kind = "final"
             PROVE  /\ IsFinal(events'[i].utterance) /\ HeardThen(events'[i].utterance)
                    /\ \A p \in DOMAIN prov'.pending : events'[i].utterance.start <= prov'.pending[p].start
                    /\ \A j \in 1 .. n - 1 : events'[j].kind = "final" /\ i <= j =>
                           events'[i].utterance.start <= events'[j].utterance.start
  BY <1>1 DEF EventsInTurn, HeardThen, Heard, Known, IsFinal, IsUtterance
<1>4. i + 1 \in 1 .. n /\ events'[i] = events[i + 1]
  BY <1>1
<1>5. \A j \in 1 .. n - 1 : j + 1 \in 1 .. n /\ events'[j] = events[j + 1] /\ (i <= j => i + 1 <= j + 1)
  BY <1>1
<1>6. QED
  BY <1>2, <1>3, <1>4, <1>5

\* Where the frames of the clock begin, and how far the provider has come.
LEMMA HearingStep ==
    ASSUME StreamTyped, UNCHANGED <<supplied, clock>>,
           prov'.heard = prov.heard \/ prov'.heard = prov.heard + 1, prov'.from = prov.from
    PROVE  HearsOn
BY FragmentsOfState DEF HearsOn, Released

\* Pending fragments that stay, or are gone.
LEMMA FromAndPending ==
    ASSUME StreamTyped, FinalsAreHeard, HearsOn, prov'.from = prov.from,
           prov'.pending = prov.pending \/ prov'.pending = <<>>
    PROVE  /\ prov'.from <= FrameMs * prov'.heard /\ Known(prov.from)'
           /\ InTurn(prov'.pending) /\ \A i \in DOMAIN prov'.pending : HeardThen(prov'.pending[i])
<1>1. prov.from \in Nat /\ prov.heard \in Nat
  BY FragmentsOfState
<1>2. FrameMs * prov.heard <= FrameMs * prov'.heard /\ FrameMs * prov.heard \in Int /\ FrameMs * prov'.heard \in Int
  <2>1. prov.heard \in Int /\ prov'.heard \in Int /\ prov.heard <= prov'.heard
    BY <1>1 DEF HearsOn
  <2>2. QED
    BY <2>1, MultInt, MultLe
<1>3. prov'.from <= FrameMs * prov'.heard
  BY <1>1, <1>2 DEF FinalsAreHeard
<1>4. Known(prov.from)'
  BY DEF FinalsAreHeard, Known, HearsOn
<1>5. CASE prov'.pending = prov.pending
  <2>1. \A i \in DOMAIN prov.pending : HeardThen(prov.pending[i])
    BY FragmentsOfState, HeardKept DEF FinalsAreHeard
  <2>2. QED
    BY <1>3, <1>4, <1>5, <2>1 DEF FinalsAreHeard
<1>6. CASE prov'.pending = <<>>
  <2>1. DOMAIN prov'.pending = {}
    BY <1>6
  <2>2. QED
    BY <1>3, <1>4, <1>6, <2>1 DEF InTurn
<1>7. QED
  BY <1>5, <1>6

\* An event is taken and nothing else happens.
LEMMA TakenStep ==
    ASSUME StreamTyped, FinalsAreHeard, EventsInTurn, events # <<>>, events' = Tail(events),
           UNCHANGED <<prov, supplied, clock>>
    PROVE  FinalsAreHeard'
<1>1. Released' = Released
  BY DEF Released
<1>2. EventsInTurn'
  BY <1>1, EventsTaken
<1>3. QED
  BY <1>1, <1>2 DEF FinalsAreHeard, Heard, Known, InTurn

\* parse_fragment: a fragment lies in what was heard, behind the one before it.
LEMMA FragmentIsTyped ==
    ASSUME StreamTyped, NEW f \in Fragments, AddTranscript(f)
    PROVE  /\ f \in Fragment /\ f.start \in Nat /\ f.end \in Nat /\ f.start < f.end
           /\ prov.from <= f.start /\ f.end <= FrameMs * prov.heard
           /\ f.tokens = {[start |-> f.start, end |-> f.end], [start |-> f.start, end |-> f.start]}
<1>1. PICK s \in prov.from..(prov.heard * FrameMs), e \in prov.from..(prov.heard * FrameMs) :
          f = [id |-> IF prov.silence THEN prov.made + 1 ELSE 0, start |-> s, end |-> e,
               tokens |-> {[start |-> s, end |-> e], [start |-> s, end |-> s]}]
  BY DEF Fragments
<1>2. prov.from \in Nat /\ prov.heard \in Nat /\ prov.made \in Nat
  BY FragmentsOfState
<1>3. prov.heard * FrameMs = FrameMs * prov.heard /\ FrameMs * prov.heard \in Int
  BY <1>2, FrameLength
<1>4. s \in Nat /\ e \in Nat /\ prov.from <= s /\ e <= FrameMs * prov.heard
  BY <1>2, <1>3
<1>5. [start |-> s, end |-> e] \in Span /\ [start |-> s, end |-> s] \in Span
  BY <1>4 DEF Span
<1>6. (IF prov.silence THEN prov.made + 1 ELSE 0) \in Nat
  BY <1>2
<1>7. f \in Fragment
  BY <1>1, <1>4, <1>5, <1>6 DEF Fragment
<1>8. f.start < f.end
  BY DEF AddTranscript, ValidFragment
<1>9. QED
  BY <1>1, <1>4, <1>7, <1>8

\* Every step keeps finals in turn and heard.
LEMMA FinalsStep ==
    ASSUME StreamIInv, StreamNext
    PROVE  FinalsAreHeard'
<1> DEFINE Goal ==
      /\ prov'.from <= FrameMs * prov'.heard /\ (Released' = 0 \/ FrameMs * Released' < prov'.from)
      /\ InTurn(prov'.pending) /\ \A i \in DOMAIN prov'.pending : HeardThen(prov'.pending[i])
<1>1. /\ StreamTyped /\ ClockIsTrue /\ FinalsAreHeard /\ EventsInTurn
      /\ \A i \in DOMAIN events : events[i].kind = "final" =>
             /\ IsFinal(events[i].utterance) /\ Heard(events[i].utterance) /\ events[i].utterance.start \in Nat
             /\ events[i].utterance.start <= prov.from
             /\ \A p \in DOMAIN prov.pending : events[i].utterance.start <= prov.pending[p].start
  BY DEF StreamIInv, FinalsAreHeard, EventsInTurn, IsFinal, Heard
<1>2. Goal /\ EventsInTurn' => FinalsAreHeard'
  BY DEF FinalsAreHeard, HeardThen, Heard, Known, InTurn
<1> HIDE DEF Goal
<1>3. ASSUME UNCHANGED <<supplied, clock, prov, events>>
      PROVE  FinalsAreHeard'
  BY <1>1, <1>3 DEF FinalsAreHeard, EventsInTurn, Heard, Known, Released, InTurn, IsFinal, IsUtterance
<1>4. CASE SessionChanges
  BY <1>3, <1>4 DEF SessionChanges
<1>5. CASE SupplyFrame
  <2>1. CASE ~(prov.queued < InputCap /\ prov.phase # "ended")
    BY <1>3, <1>5, <2>1 DEF SupplyFrame
  <2>2. CASE prov.queued < InputCap /\ prov.phase # "ended"
    <3>1. /\ sock.hand.ts \in Nat /\ clock' = record(clock, sock.hand.ts) /\ supplied' = Append(supplied, sock.hand.ts)
          /\ origin' /\ UNCHANGED events /\ prov' = [prov EXCEPT !.queued = @ + 1]
      BY <1>1, <1>5, <2>2, StreamAssumption DEF SupplyFrame, StreamTyped
    <3>2. Released' = Released
      BY <1>1, <3>1, RecordIsTrue
    <3>3. prov'.heard = prov.heard /\ prov'.from = prov.from /\ prov'.pending = prov.pending
      BY <1>1, <3>1 DEF StreamTyped
    <3>4. HearsOn
      BY <1>1, <3>2, <3>3, FragmentsOfState DEF HearsOn
    <3>5. EventsInTurn'
      BY <1>1, <3>1, <3>3, <3>4, EventsKept
    <3>6. QED
      BY <1>1, <1>2, <3>3, <3>4, <3>5, FromAndPending DEF Goal, Known
  <2>3. QED
    BY <2>1, <2>2
<1>6. CASE CloseSocket
  BY <1>3, <1>6 DEF CloseSocket
<1>7. CASE AbortTask
  BY <1>3, <1>7 DEF AbortTask
<1>8. ASSUME NEW f, ReceiveFrame(f)
      PROVE  FinalsAreHeard'
  BY <1>3, <1>8 DEF ReceiveFrame
<1>9. CASE RecognitionStarted
  <2>1. /\ events' = Append(events, Event("ready", NoUtterance)) /\ UNCHANGED <<supplied, clock>>
        /\ prov' = [prov EXCEPT !.phase = "started"]
    BY <1>9 DEF RecognitionStarted, Deliver
  <2>2. prov'.heard = prov.heard /\ prov'.from = prov.from /\ prov'.pending = prov.pending
    BY <1>1, <2>1 DEF StreamTyped
  <2>3. HearsOn
    BY <1>1, <2>1, <2>2, HearingStep
  <2>4. Event("ready", NoUtterance).kind # "final"
    BY DEF Event
  <2>5. EventsInTurn'
    BY <1>1, <2>1, <2>2, <2>3, <2>4, EventsDelivered
  <2>6. QED
    BY <1>1, <1>2, <2>2, <2>3, <2>5, FromAndPending DEF Goal, Known
<1>10. CASE ProviderFails
  <2>1. /\ events' = Append(events, Event("failed", NoUtterance)) /\ UNCHANGED <<supplied, clock>>
        /\ prov' = [prov EXCEPT !.phase = "ended", !.pending = <<>>]
    BY <1>10 DEF ProviderFails, Deliver
  <2>2. prov'.heard = prov.heard /\ prov'.from = prov.from /\ prov'.pending = <<>> /\ DOMAIN prov'.pending = {}
    BY <1>1, <2>1 DEF StreamTyped
  <2>3. HearsOn
    BY <1>1, <2>1, <2>2, HearingStep
  <2>4. Event("failed", NoUtterance).kind # "final"
    BY DEF Event
  <2>5. EventsInTurn'
    BY <1>1, <2>1, <2>2, <2>3, <2>4, EventsDelivered
  <2>6. QED
    BY <1>1, <1>2, <2>2, <2>3, <2>5, FromAndPending DEF Goal, Known
<1>11. CASE WriteFrame
  <2>1. UNCHANGED <<supplied, clock, events>> /\ prov' = [prov EXCEPT !.queued = @ - 1, !.heard = @ + 1]
    BY <1>11 DEF WriteFrame
  <2>2. prov'.heard = prov.heard + 1 /\ prov'.from = prov.from /\ prov'.pending = prov.pending
    BY <1>1, <2>1 DEF StreamTyped
  <2>3. HearsOn
    BY <1>1, <2>1, <2>2, HearingStep
  <2>4. EventsInTurn'
    BY <1>1, <2>1, <2>2, <2>3, EventsKept
  <2>5. QED
    BY <1>1, <1>2, <2>2, <2>3, <2>4, FromAndPending DEF Goal, Known
<1>12. ASSUME prov.pending # <<>>, events' = Append(events, Event("final", take_utterance(prov.pending))),
              UNCHANGED <<supplied, clock>>,
              prov' = [prov EXCEPT !.pending = <<>>] \/ prov' = [prov EXCEPT !.phase = "ended", !.pending = <<>>]
       PROVE  FinalsAreHeard'
  <2>1. prov'.heard = prov.heard /\ prov'.from = prov.from /\ prov'.pending = <<>> /\ DOMAIN prov'.pending = {}
    <3>1. CASE prov' = [prov EXCEPT !.pending = <<>>]
      BY <1>1, <3>1 DEF StreamTyped
    <3>2. CASE prov' = [prov EXCEPT !.phase = "ended", !.pending = <<>>]
      BY <1>1, <3>2 DEF StreamTyped
    <3>3. QED
      BY <1>12, <3>1, <3>2
  <2>2. HearsOn
    BY <1>1, <1>12, <2>1, HearingStep
  <2> DEFINE u == take_utterance(prov.pending)
  <2>3. IsFinal(u) /\ Heard(u) /\ 1 \in DOMAIN prov.pending /\ u.start = prov.pending[1].start
    <3>1. /\ prov.pending \in Seq(Fragment) /\ InTurn(prov.pending)
          /\ \A i \in DOMAIN prov.pending : Heard(prov.pending[i])
      BY <1>1, FragmentsOfState DEF FinalsAreHeard
    <3>2. \A i \in DOMAIN prov.pending : prov.pending[i].start < prov.pending[i].end
      BY <3>1 DEF Heard
    <3>3. /\ IsFinal(u) /\ u.start < u.end /\ 1 \in DOMAIN prov.pending /\ u.start = prov.pending[1].start
          /\ \E i \in DOMAIN prov.pending : u.end = prov.pending[i].end
      BY <1>12, <3>1, <3>2, UtteranceTaken
    <3> HIDE DEF u
    <3>4. Heard(u)
      BY <3>1, <3>3 DEF Heard
    <3>5. QED
      BY <3>3, <3>4
  <2>4. Event("final", u).kind = "final" /\ Event("final", u).utterance = u
    BY DEF Event
  <2> HIDE DEF u
  <2>5. HeardThen(u)
    BY <1>1, <2>2, <2>3, HeardKept DEF IsFinal
  <2>6. EventsInTurn'
    BY <1>1, <1>12, <2>1, <2>2, <2>3, <2>4, <2>5, EventsDelivered DEF u
  <2>7. QED
    BY <1>1, <1>2, <2>1, <2>2, <2>6, FromAndPending DEF Goal, Known
<1>13. CASE EndOfUtterance
  BY <1>12, <1>13 DEF EndOfUtterance, Deliver
<1>14. CASE EndOfTranscript
  <2>1. CASE prov.pending = <<>>
    <3>1. UNCHANGED <<supplied, clock, events>> /\ prov' = [prov EXCEPT !.phase = "ended", !.pending = <<>>]
      BY <1>14, <2>1 DEF EndOfTranscript
    <3>2. prov'.heard = prov.heard /\ prov'.from = prov.from /\ prov'.pending = prov.pending
      BY <1>1, <2>1, <3>1 DEF StreamTyped
    <3>3. HearsOn
      BY <1>1, <3>1, <3>2, HearingStep
    <3>4. EventsInTurn'
      BY <1>1, <3>1, <3>2, <3>3, EventsKept
    <3>5. QED
      BY <1>1, <1>2, <3>2, <3>3, <3>4, FromAndPending DEF Goal, Known
  <2>2. CASE prov.pending # <<>>
    BY <1>12, <1>14, <2>2 DEF EndOfTranscript, Deliver
  <2>3. QED
    BY <2>1, <2>2
<1>15. ASSUME NEW f \in Fragments, AddTranscript(f)
       PROVE  FinalsAreHeard'
  <2>1. /\ f \in Fragment /\ f.start \in Nat /\ f.end \in Nat /\ f.start < f.end
        /\ prov.from <= f.start /\ f.end <= FrameMs * prov.heard
        /\ f.tokens = {[start |-> f.start, end |-> f.end], [start |-> f.start, end |-> f.start]}
    BY <1>1, <1>15, FragmentIsTyped
  <2>2. /\ UNCHANGED <<supplied, clock>> /\ prov'.from = f.start /\ prov'.heard = prov.heard
        /\ prov'.pending = IF prov.silence THEN Append(prov.pending, f) ELSE prov.pending
    BY <1>1, <1>15 DEF AddTranscript, StreamTyped
  <2>3. HearsOn
    BY <1>1, <2>1, <2>2, FragmentsOfState DEF HearsOn, Released
  <2>4. FrameMs * Released \in Int /\ (Released = 0 \/ FrameMs * Released < f.start)
    <3>1. Released \in Nat /\ prov.from \in Nat
      BY <1>1, ClockFacts, FragmentsOfState
    <3>2. FrameMs * Released \in Int
      BY <3>1, MultInt
    <3>3. Released = 0 \/ FrameMs * Released < prov.from
      BY <1>1 DEF FinalsAreHeard, Known
    <3>4. QED
      BY <2>1, <3>1, <3>2, <3>3
  <2>5. f.start <= FrameMs * prov.heard /\ HeardThen(f)
    <3>1. FrameMs * prov.heard \in Int
      BY <1>1, ClockFacts
    <3>2. f.start <= FrameMs * prov.heard
      BY <2>1, <3>1
    <3>3. QED
      BY <2>1, <2>2, <2>3, <2>4, <3>2 DEF HeardThen, HearsOn
  <2>6. \A i \in DOMAIN events : events[i].kind = "final" => events[i].utterance.start <= f.start
    BY <1>1, <2>1, FragmentsOfState
  <2>7. CASE prov.silence
    <3> DEFINE pend == prov.pending
    <3> DEFINE n == Len(pend)
    <3>1. /\ n \in Nat /\ DOMAIN pend = 1 .. n /\ prov'.pending = Append(pend, f) /\ pend \in Seq(Fragment)
          /\ \A i \in 1 .. n : pend[i] \in Fragment /\ pend[i].start \in Nat /\ pend[i].end \in Nat
      BY <1>1, <2>2, <2>7, FragmentsOfState
    <3>2. /\ DOMAIN prov'.pending = 1 .. n + 1 /\ prov'.pending[n + 1] = f
          /\ \A i \in 1 .. n : prov'.pending[i] = pend[i]
      BY <2>1, <3>1
    <3>3. /\ \A i, j \in 1 .. n : i <= j => pend[i].start <= pend[j].start
          /\ pend # <<>> => \E i \in 1 .. n : \A j \in 1 .. n : pend[j].end <= pend[i].end
          /\ \A i \in 1 .. n : \A k \in pend[i].tokens :
                pend[i].start <= k.start /\ k.start <= k.end /\ k.end <= pend[i].end
          /\ \A i \in 1 .. n : Heard(pend[i])
      BY <1>1, <3>1 DEF FinalsAreHeard, InTurn
    <3>4. \A i \in 1 .. n : pend[i].start <= f.start /\ HeardThen(pend[i])
      <4>1. \A i \in 1 .. n : pend[i].start <= prov.from /\ HeardThen(pend[i])
        BY <1>1, <2>3, <3>1, <3>3, HeardKept DEF Heard
      <4>2. prov.from \in Nat
        BY <1>1, FragmentsOfState
      <4>3. QED
        BY <2>1, <3>1, <4>1, <4>2
    <3>5. (pend = <<>> <=> n = 0)
      BY <3>1
    <3> HIDE DEF pend, n
    <3>6. \A i \in 1 .. n + 1 : i \in 1 .. n \/ i = n + 1
      BY <3>1
    <3>7. \A i, j \in 1 .. n + 1 : i <= j => prov'.pending[i].start <= prov'.pending[j].start
      <4> SUFFICES ASSUME NEW i \in 1 .. n + 1, NEW j \in 1 .. n + 1, i <= j
                   PROVE  prov'.pending[i].start <= prov'.pending[j].start
        OBVIOUS
      <4>1. CASE j = n + 1 /\ i = n + 1
        BY <2>1, <3>2, <4>1
      <4>2. CASE j = n + 1 /\ i \in 1 .. n
        BY <3>2, <3>4, <4>2
      <4>3. CASE j \in 1 .. n
        <5>1. i \in 1 .. n
          BY <3>1, <4>3
        <5>2. QED
          BY <3>2, <3>3, <4>3, <5>1
      <4>4. QED
        BY <3>6, <4>1, <4>2, <4>3
    <3>8. \E i \in 1 .. n + 1 : \A j \in 1 .. n + 1 : prov'.pending[j].end <= prov'.pending[i].end
      <4>1. CASE n = 0
        <5>1. n + 1 \in 1 .. n + 1 /\ \A j \in 1 .. n + 1 : j = n + 1
          BY <4>1
        <5>2. QED
          BY <2>1, <3>2, <5>1
      <4>2. CASE n # 0
        <5>1. PICK l \in 1 .. n : \A j \in 1 .. n : pend[j].end <= pend[l].end
          BY <3>3, <3>5, <4>2
        <5>2. l \in 1 .. n + 1 /\ n + 1 \in 1 .. n + 1
          BY <3>1
        <5>3. CASE pend[l].end <= f.end
          <6>1. \A j \in 1 .. n : pend[j].end <= f.end
            BY <2>1, <3>1, <5>1, <5>3
          <6>2. \A j \in 1 .. n + 1 : prov'.pending[j].end <= prov'.pending[n + 1].end
            BY <2>1, <3>2, <3>6, <6>1
          <6>3. QED
            BY <5>2, <6>2
        <5>4. CASE ~(pend[l].end <= f.end)
          <6>1. f.end <= pend[l].end
            BY <2>1, <3>1, <5>4
          <6>2. \A j \in 1 .. n + 1 : prov'.pending[j].end <= prov'.pending[l].end
            BY <3>2, <3>6, <5>1, <6>1
          <6>3. QED
            BY <5>2, <6>2
        <5>5. QED
          BY <5>3, <5>4
      <4>3. QED
        BY <4>1, <4>2
    <3>9. \A k \in f.tokens : f.start <= k.start /\ k.start <= k.end /\ k.end <= f.end
      BY <2>1
    <3>10. \A i \in 1 .. n + 1 : \A k \in prov'.pending[i].tokens :
              prov'.pending[i].start <= k.start /\ k.start <= k.end /\ k.end <= prov'.pending[i].end
      BY <3>2, <3>3, <3>6, <3>9
    <3>11. InTurn(prov'.pending) /\ \A i \in DOMAIN prov'.pending : HeardThen(prov'.pending[i])
      BY <2>5, <3>2, <3>4, <3>6, <3>7, <3>8, <3>10 DEF InTurn
    <3>12. UNCHANGED events
      BY <1>15, <2>7 DEF AddTranscript
    <3>13. \A i \in DOMAIN events : events[i].kind = "final" =>
              \A p \in DOMAIN prov'.pending : events[i].utterance.start <= prov'.pending[p].start
      BY <1>1, <2>6, <3>1, <3>2, <3>6 DEF pend
    <3>14. EventsInTurn'
      BY <1>1, <2>3, <3>12, <3>13, EventsKept
    <3>15. QED
      BY <1>2, <2>2, <2>3, <2>4, <2>5, <3>11, <3>14 DEF Goal, HearsOn
  <2>8. CASE ~prov.silence
    <3> DEFINE one == <<f>>
    <3> DEFINE u == take_utterance(one)
    <3>1. events' = Append(events, Event("final", u)) /\ prov'.pending = prov.pending
      BY <1>15, <2>2, <2>8 DEF AddTranscript, Deliver
    <3>2. one \in Seq(Fragment) /\ one # <<>> /\ DOMAIN one = {1} /\ one[1] = f
      <4>1. f \in Fragment
        BY <2>1
      <4>2. one \in Seq(Fragment) /\ Len(one) = 1 /\ one[1] = f
        BY <4>1
      <4>3. DOMAIN one = 1 .. 1 /\ 1 .. 1 = {1}
        BY <4>2
      <4>4. QED
        BY <4>2, <4>3
    <3>3. \A k \in f.tokens : f.start <= k.start /\ k.start <= k.end /\ k.end <= f.end
      BY <2>1
    <3> HIDE DEF one
    <3>4. InTurn(one)
      BY <2>1, <3>2, <3>3 DEF InTurn
    <3>5. f.start \in Nat /\ f.end \in Nat
      BY <2>1
    <3>6. IsFinal(u) /\ u.start = f.start /\ HeardThen(u)
      <4>1. \A i \in DOMAIN one : one[i].start < one[i].end
        BY <2>1, <3>2
      <4>2. IsFinal(u) /\ u.start = one[1].start /\ \E i \in DOMAIN one : u.end = one[i].end
        BY <3>2, <3>4, <4>1, UtteranceTaken
      <4> HIDE DEF u
      <4>3. u.start = f.start /\ u.end = f.end
        BY <3>2, <4>2
      <4>4. QED
        BY <2>5, <4>2, <4>3 DEF HeardThen
    <3>7. Event("final", u).kind = "final" /\ Event("final", u).utterance = u
      BY DEF Event
    <3> HIDE DEF u
    <3>8. /\ InTurn(prov'.pending) /\ \A i \in DOMAIN prov'.pending : HeardThen(prov'.pending[i])
      <4>1. \A i \in DOMAIN prov.pending : HeardThen(prov.pending[i])
        BY <1>1, <2>3, FragmentsOfState, HeardKept DEF FinalsAreHeard
      <4>2. QED
        BY <1>1, <3>1, <4>1 DEF FinalsAreHeard
    <3>9. \A p \in DOMAIN prov'.pending : f.start <= prov'.pending[p].start
      BY <1>1, <2>8, <3>1 DEF StreamTyped
    <3>10. EventsInTurn'
      BY <1>1, <2>3, <2>6, <3>1, <3>6, <3>7, <3>9, EventsDelivered DEF u
    <3>11. QED
      BY <1>2, <2>2, <2>3, <2>4, <2>5, <3>8, <3>10 DEF Goal, HearsOn
  <2>9. QED
    BY <2>7, <2>8
<1>16. CASE TakeReady
  BY <1>1, <1>16, TakenStep DEF TakeReady
<1>17. CASE TakeFailed
  BY <1>1, <1>17, TakenStep DEF TakeFailed
<1>18. CASE TakeFinal
  <2>1. /\ events # <<>> /\ events' = Tail(events) /\ UNCHANGED <<prov, supplied, origin>> /\ Head(events) = events[1]
        /\ 1 \in DOMAIN events
    BY <1>1, <1>18, TailListed DEF TakeFinal, StreamTyped
  <2>2. events[1].kind = "final"
    BY <1>18, <2>1 DEF TakeFinal
  <2> DEFINE u == events[1].utterance
  <2>3. IsFinal(u) /\ Heard(u) /\ u.start \in Nat
    BY <1>1, <2>1, <2>2
  <2>4. mapped(clock, u) /\ supplied # <<>>
    BY <1>1, <2>3, MapIsTrue
  <2>5. clock' = discard_before(clock, u.start)
    BY <1>1, <1>18, <2>1, <2>4 DEF TakeFinal, ClockIsTrue
  <2>6. u.start < FrameMs * Len(supplied) /\ Known(u.start)
    <3>1. u.start < u.end /\ u.end <= FrameMs * prov.heard /\ Known(u.start) /\ u.end \in Nat
      BY <2>3 DEF Heard, IsFinal
    <3>2. /\ FrameMs * prov.heard \in Int /\ FrameMs * Len(supplied) \in Int
          /\ FrameMs * prov.heard <= FrameMs * Len(supplied)
      BY <1>1, ClockFacts
    <3>3. QED
      BY <2>3, <3>1, <3>2
  <2>7. clock' \in ClockType /\ ClockIsTrue' /\ (Released' = 0 \/ FrameMs * Released' < u.start)
    BY <1>1, <2>1, <2>3, <2>4, <2>5, <2>6, DiscardIsTrue
  <2>8. (Released' = 0 \/ FrameMs * Released' < u.start) /\ Released' \in Nat
    <3>1. Released' \in 0 .. Len(supplied') - 1
      BY <2>1, <2>4, <2>7 DEF ClockIsTrue
    <3>2. Len(supplied') \in Nat
      BY <1>1, <2>1, ClockFacts
    <3>3. QED
      BY <2>7, <3>1, <3>2
  <2>9. EventsInTurn'
    BY <1>1, <2>1, <2>2, <2>8, EventsTaken
  <2>10. FrameMs * Released' \in Int
    BY <2>8, MultInt
  <2>11. Released' = 0 \/ FrameMs * Released' < prov.from
    BY <1>1, <2>1, <2>2, <2>3, <2>8, <2>10, FragmentsOfState
  <2>12. \A p \in DOMAIN prov.pending : HeardThen(prov.pending[p])
    <3> SUFFICES ASSUME NEW p \in DOMAIN prov.pending
                 PROVE  HeardThen(prov.pending[p])
      OBVIOUS
    <3>1. u.start <= prov.pending[p].start /\ prov.pending[p].start \in Nat
      BY <1>1, <2>1, <2>2, FragmentsOfState
    <3>2. Released' = 0 \/ FrameMs * Released' < prov.pending[p].start
      BY <2>3, <2>8, <2>10, <3>1
    <3>3. Heard(prov.pending[p])
      BY <1>1 DEF FinalsAreHeard
    <3>4. QED
      BY <2>1, <3>2, <3>3 DEF Heard, HeardThen
  <2>13. QED
    BY <1>1, <1>2, <2>1, <2>9, <2>11, <2>12 DEF Goal, FinalsAreHeard
<1>19. CASE ReserveKey
  BY <1>3, <1>19 DEF ReserveKey
<1>20. CASE StoreMessage
  BY <1>3, <1>20 DEF StoreMessage
<1>21. CASE ReturnKey
  BY <1>3, <1>21 DEF ReturnKey
<1>22. CASE TaskEnds
  BY <1>3, <1>22 DEF TaskEnds
<1>23. QED
  BY <1>4, <1>5, <1>6, <1>7, <1>8, <1>9, <1>10, <1>11, <1>13, <1>14, <1>15, <1>16, <1>17, <1>18, <1>19, <1>20, <1>21, <1>22
     DEF StreamNext

-----------------------------------------------------------------------------
(* The clock, the log and the keys *)

\* Taking a final: it is placed, and the clock lets go what comes before it.
LEMMA FinalIsTaken ==
    ASSUME StreamIInv, TakeFinal
    PROVE  /\ clock' \in ClockType /\ ClockIsTrue' /\ UNCHANGED refused
           /\ task' = [pc |-> "commit", utterance |-> task'.utterance] /\ IsTrue(task'.utterance)
<1>1. StreamTyped /\ ClockIsTrue /\ EventsInTurn
  BY DEF StreamIInv, FinalsAreHeard
<1>2. /\ events # <<>> /\ UNCHANGED <<prov, supplied, origin>> /\ Head(events) = events[1] /\ 1 \in DOMAIN events
      /\ events[1].kind = "final"
  BY <1>1, TailListed DEF TakeFinal, StreamTyped
<1> DEFINE u == events[1].utterance
<1>3. IsFinal(u) /\ Heard(u) /\ u.start \in Nat /\ u.end \in Nat
  BY <1>1, <1>2 DEF EventsInTurn, IsFinal
<1>4. mapped(clock, u) /\ supplied # <<>> /\ IsTrue(map(clock, u))
  BY <1>1, <1>3, MapIsTrue
<1>5. /\ clock' = discard_before(clock, u.start) /\ task' = [pc |-> "commit", utterance |-> map(clock, u)]
      /\ UNCHANGED refused
  BY <1>1, <1>2, <1>4 DEF TakeFinal, ClockIsTrue
<1>6. u.start < FrameMs * Len(supplied) /\ Known(u.start)
  <2>1. u.start < u.end /\ u.end <= FrameMs * prov.heard /\ Known(u.start)
    BY <1>3 DEF Heard
  <2>2. /\ FrameMs * prov.heard \in Int /\ FrameMs * Len(supplied) \in Int
        /\ FrameMs * prov.heard <= FrameMs * Len(supplied)
    BY <1>1, ClockFacts
  <2>3. QED
    BY <1>3, <2>1, <2>2
<1>7. clock' \in ClockType /\ ClockIsTrue'
  BY <1>1, <1>2, <1>3, <1>4, <1>5, <1>6, DiscardIsTrue
<1> HIDE DEF u
<1>8. QED
  BY <1>4, <1>5, <1>7

\* A supplied frame: the queue accepts it, or nothing changes but the hand.
LEMMA FrameIsSupplied ==
    ASSUME StreamTyped, SupplyFrame
    PROVE  \/ UNCHANGED <<prov, supplied, origin, clock>>
           \/ /\ sock.hand.ts \in Timestamps /\ sock.hand.ts \in Nat
              /\ prov' = [prov EXCEPT !.queued = @ + 1] /\ prov.queued < InputCap
              /\ supplied' = Append(supplied, sock.hand.ts) /\ origin' = TRUE /\ clock' = record(clock, sock.hand.ts)
BY StreamAssumption DEF SupplyFrame, StreamTyped

\* The clock stays true.
LEMMA ClockStep ==
    ASSUME StreamIInv, StreamNext
    PROVE  clock' \in ClockType /\ ClockIsTrue'
<1>1. StreamTyped /\ ClockIsTrue /\ clock \in ClockType
  BY DEF StreamIInv, StreamTyped, ClockType
<1>2. ASSUME UNCHANGED <<clock, supplied, origin>>
      PROVE  clock' \in ClockType /\ ClockIsTrue'
  BY <1>1, <1>2 DEF ClockIsTrue, Released
<1>3. CASE SupplyFrame
  <2>1. CASE UNCHANGED <<prov, supplied, origin, clock>>
    BY <1>2, <2>1
  <2>2. CASE /\ sock.hand.ts \in Nat /\ supplied' = Append(supplied, sock.hand.ts) /\ origin' = TRUE
             /\ clock' = record(clock, sock.hand.ts)
    BY <1>1, <2>2, RecordIsTrue
  <2>3. QED
    BY <1>1, <1>3, <2>1, <2>2, FrameIsSupplied
<1>4. CASE TakeFinal
  BY <1>4, FinalIsTaken
<1>5. CASE SessionChanges \/ CloseSocket \/ AbortTask \/ TakeReady \/ TakeFailed \/ ReserveKey \/ StoreMessage
           \/ ReturnKey \/ TaskEnds
  BY <1>2, <1>5 DEF SessionChanges, CloseSocket, AbortTask, TakeReady, TakeFailed, ReserveKey, StoreMessage, ReturnKey, TaskEnds
<1>6. CASE RecognitionStarted \/ ProviderFails \/ WriteFrame \/ EndOfUtterance \/ EndOfTranscript
  BY <1>2, <1>6 DEF RecognitionStarted, ProviderFails, WriteFrame, EndOfUtterance, EndOfTranscript
<1>7. ASSUME NEW f, ReceiveFrame(f) \/ AddTranscript(f)
      PROVE  clock' \in ClockType /\ ClockIsTrue'
  BY <1>2, <1>7 DEF ReceiveFrame, AddTranscript
<1>8. QED
  BY <1>3, <1>4, <1>5, <1>6, <1>7 DEF StreamNext

\* A time that is true stays true when more audio comes.
LEMMA TrueKept ==
    ASSUME NEW ts \in Seq(Nat), NEW x \in Nat, NEW s \in Nat, NEW e \in Nat, s < e, e <= FrameMs * Len(ts)
    PROVE  TrueStart(Append(ts, x), s) = TrueStart(ts, s) /\ TrueEnd(Append(ts, x), e) = TrueEnd(ts, e)
<1> DEFINE n == Len(ts)
<1> DEFINE a == Append(ts, x)
<1>1. n \in Nat /\ Len(a) = n + 1 /\ FrameMs * n \in Int
  <2>1. n \in Nat /\ Len(a) = n + 1
    OBVIOUS
  <2>2. QED
    BY <2>1, MultInt
<1>2. \A t \in Nat : t < FrameMs * n => t \div FrameMs \in Nat /\ t \div FrameMs < n
  <2> SUFFICES ASSUME NEW t \in Nat, t < FrameMs * n
               PROVE  t \div FrameMs \in Nat /\ t \div FrameMs < n
    OBVIOUS
  <2> DEFINE d == t \div FrameMs
  <2>1. d \in Nat /\ FrameMs * d <= t /\ FrameMs * d \in Int
    BY Quotient, MultInt
  <2> HIDE DEF d
  <2>2. d < n
    <3> SUFFICES ASSUME n <= d
                 PROVE  FALSE
      BY <1>1, <2>1
    <3>1. FrameMs * n <= FrameMs * d
      BY <1>1, <2>1, MultLe
    <3>2. QED
      BY <1>1, <2>1, <3>1
  <2>3. QED
    BY <2>1, <2>2 DEF d
<1>3. \A i \in 1 .. n : CaptureOf(a, i) = CaptureOf(ts, i)
  BY CaptureKept
<1>4. TrueStart(a, s) = TrueStart(ts, s)
  <2> DEFINE d == s \div FrameMs
  <2>1. d \in Nat /\ d < n
    BY <1>1, <1>2
  <2> HIDE DEF d
  <2>2. Min({d + 1, n}) = d + 1
    <3>1. {d + 1, n} \in SUBSET Int /\ d + 1 \in {d + 1, n} /\ \A y \in {d + 1, n} : d + 1 <= y
      BY <1>1, <2>1
    <3>2. QED
      BY <3>1, MinIs
  <2>3. Min({d + 1, n + 1}) = d + 1
    <3>1. {d + 1, n + 1} \in SUBSET Int /\ d + 1 \in {d + 1, n + 1} /\ \A y \in {d + 1, n + 1} : d + 1 <= y
      BY <1>1, <2>1
    <3>2. QED
      BY <3>1, MinIs
  <2>4. CaptureOf(a, d + 1) = CaptureOf(ts, d + 1)
    BY <1>1, <1>3, <2>1
  <2>5. PICK k \in Nat : k = d + 1
    BY <2>1
  <2>6. Min({s \div FrameMs + 1, Len(ts)}) = k /\ Min({s \div FrameMs + 1, Len(a)}) = k
    BY <1>1, <2>2, <2>3, <2>5 DEF d
  <2>7. CaptureOf(a, k) = CaptureOf(ts, k)
    BY <2>4, <2>5
  <2> HIDE DEF n, a
  <2>8. QED
    BY <2>6, <2>7 DEF TrueStart
<1>5. TrueEnd(a, e) = TrueEnd(ts, e)
  <2> DEFINE d == (e - 1) \div FrameMs
  <2>1. e - 1 \in Nat /\ e - 1 < FrameMs * n /\ e # 0
    BY <1>1
  <2>2. d \in Nat /\ d < n
    BY <1>1, <1>2, <2>1
  <2> HIDE DEF d
  <2>3. CaptureOf(a, d + 1) = CaptureOf(ts, d + 1)
    BY <1>1, <1>3, <2>2
  <2> HIDE DEF n, a
  <2>4. QED
    BY <2>1, <2>3 DEF TrueEnd, d
<1>6. QED
  BY <1>4, <1>5

\* What is stored, or about to be, stays true.
LEMMA StoredStep ==
    ASSUME StreamIInv, StreamNext
    PROVE  WhatIsStoredIsTrue'
<1>1. StreamTyped /\ ClockIsTrue /\ WhatIsStoredIsTrue /\ Listed(log)
  BY DEF StreamIInv, StreamTyped
<1>2. ASSUME UNCHANGED <<supplied, task, log>>
      PROVE  WhatIsStoredIsTrue'
  BY <1>1, <1>2 DEF WhatIsStoredIsTrue, IsTrue
<1>3. ASSUME UNCHANGED <<supplied, log>>, task' = [task EXCEPT !.pc = task'.pc],
             task'.pc \in {"commit", "store"} => task.pc \in {"commit", "store"}
      PROVE  WhatIsStoredIsTrue'
  <2>1. task'.utterance = task.utterance
    BY <1>1, <1>3 DEF StreamTyped
  <2>2. QED
    BY <1>1, <1>3, <2>1 DEF WhatIsStoredIsTrue, IsTrue
<1>4. CASE SupplyFrame
  <2>1. CASE UNCHANGED supplied
    BY <1>2, <1>4, <2>1 DEF SupplyFrame
  <2>2. CASE sock.hand.ts \in Nat /\ supplied' = Append(supplied, sock.hand.ts)
    <3>1. supplied \in Seq(Nat) /\ UNCHANGED <<task, log>> /\ Len(supplied) \in Nat /\ Len(supplied') = Len(supplied) + 1
      <4>1. supplied \in Seq(Nat) /\ UNCHANGED <<task, log>>
        BY <1>1, <1>4, ClockFacts DEF SupplyFrame
      <4>2. QED
        BY <2>2, <4>1
    <3>2. FrameMs * Len(supplied) <= FrameMs * Len(supplied') /\ FrameMs * Len(supplied) \in Int
          /\ FrameMs * Len(supplied') \in Int
      <4>1. Len(supplied) <= Len(supplied') /\ Len(supplied') \in Int
        BY <3>1
      <4>2. QED
        BY <3>1, <4>1, MultInt, MultLe
    <3>3. ASSUME NEW v, IsTrue(v)
          PROVE  IsTrue(v)'
      <4>1. \A s \in v.source : /\ s.start \in Nat /\ s.end \in Nat /\ s.start < s.end /\ s.end <= FrameMs * Len(supplied)
                                /\ v.start = TrueStart(supplied, s.start) /\ v.end = TrueEnd(supplied, s.end)
        BY <3>3 DEF IsTrue
      <4>2. \A s \in v.source : TrueStart(supplied', s.start) = TrueStart(supplied, s.start)
                                /\ TrueEnd(supplied', s.end) = TrueEnd(supplied, s.end)
        BY <2>2, <3>1, <4>1, TrueKept
      <4>3. \A s \in v.source : s.end <= FrameMs * Len(supplied')
        BY <3>2, <4>1
      <4>4. QED
        BY <3>3, <4>1, <4>2, <4>3 DEF IsTrue
    <3>4. task.pc \in {"commit", "store"} => IsTrue(task.utterance)'
      <4>1. PICK v : v = task.utterance
        OBVIOUS
      <4>2. IsTrue(v) => IsTrue(v)'
        BY <3>3
      <4>3. QED
        BY <1>1, <3>1, <4>1, <4>2 DEF WhatIsStoredIsTrue, IsTrue
    <3>5. \A i \in DOMAIN log : IsTrue(log[i])'
      <4> SUFFICES ASSUME NEW i \in DOMAIN log
                   PROVE  IsTrue(log[i])'
        OBVIOUS
      <4>1. PICK v : v = log[i]
        OBVIOUS
      <4>2. IsTrue(v)'
        BY <1>1, <3>3, <4>1 DEF WhatIsStoredIsTrue
      <4>3. QED
        BY <3>1, <4>1, <4>2 DEF IsTrue
    <3>6. QED
      BY <3>1, <3>4, <3>5 DEF WhatIsStoredIsTrue
  <2>3. QED
    BY <1>1, <1>4, <2>1, <2>2, FrameIsSupplied
<1>5. CASE TakeFinal
  <2>1. UNCHANGED <<supplied, log>>
    BY <1>5 DEF TakeFinal
  <2>2. IsTrue(task'.utterance)
    BY <1>5, FinalIsTaken
  <2>3. QED
    BY <1>1, <2>1, <2>2 DEF WhatIsStoredIsTrue, IsTrue
<1>6. CASE ReserveKey
  BY <1>1, <1>3, <1>6 DEF ReserveKey, StreamTyped
<1>7. CASE StoreMessage
  <2>1. /\ task.pc = "store" /\ log' = Append(log, task.utterance) /\ task' = [task EXCEPT !.pc = "idle"]
        /\ UNCHANGED supplied
    BY <1>7 DEF StoreMessage
  <2>2. /\ Len(log) \in Nat /\ DOMAIN log = 1 .. Len(log) /\ DOMAIN log' = 1 .. Len(log) + 1
        /\ log'[Len(log) + 1] = task.utterance /\ \A i \in DOMAIN log : log'[i] = log[i]
    BY <1>1, <2>1, AppendListed
  <2>3. \A i \in DOMAIN log' : i \in DOMAIN log \/ i = Len(log) + 1
    BY <2>2
  <2>4. task'.pc = "idle"
    BY <1>1, <2>1 DEF StreamTyped
  <2>5. \A i \in DOMAIN log' : IsTrue(log'[i])
    BY <1>1, <2>1, <2>2, <2>3 DEF WhatIsStoredIsTrue
  <2>6. QED
    BY <2>1, <2>4, <2>5 DEF WhatIsStoredIsTrue, IsTrue
<1>8. CASE AbortTask \/ ReturnKey \/ TaskEnds
  BY <1>1, <1>3, <1>8 DEF AbortTask, ReturnKey, TaskEnds, StreamTyped
<1>9. CASE SessionChanges \/ CloseSocket \/ TakeReady \/ TakeFailed
  BY <1>2, <1>9 DEF SessionChanges, CloseSocket, TakeReady, TakeFailed
<1>10. CASE RecognitionStarted \/ ProviderFails \/ WriteFrame \/ EndOfUtterance \/ EndOfTranscript
  BY <1>2, <1>10 DEF RecognitionStarted, ProviderFails, WriteFrame, EndOfUtterance, EndOfTranscript
<1>11. ASSUME NEW f, ReceiveFrame(f) \/ AddTranscript(f)
       PROVE  WhatIsStoredIsTrue'
  BY <1>2, <1>11 DEF ReceiveFrame, AddTranscript
<1>12. QED
  BY <1>4, <1>5, <1>6, <1>7, <1>8, <1>9, <1>10, <1>11 DEF StreamNext

\* Keys are taken for what is stored, or for what the event task has in hand.
LEMMA KeysStep ==
    ASSUME StreamIInv, StreamNext
    PROVE  KeysAreTaken'
<1>1. StreamTyped /\ ClockIsTrue /\ KeysAreTaken /\ Listed(log)
  BY DEF StreamIInv, StreamTyped
<1>2. /\ \A k \in keys : (\E i \in DOMAIN log : k = Key(log[i])) \/ (task.pc \in {"store", "aborted"} /\ k = Key(task.utterance))
      /\ \A i, j \in DOMAIN log : Key(log[i]) = Key(log[j]) => i = j
      /\ \A i \in DOMAIN log : Key(log[i]) \in keys
      /\ task.pc = "store" => Key(task.utterance) \in keys /\ \A i \in DOMAIN log : Key(log[i]) # Key(task.utterance)
  BY <1>1 DEF KeysAreTaken, KeysMatchLog
<1> DEFINE Goal ==
      /\ \A k \in keys' : (\E i \in DOMAIN log' : k = Key(log'[i])) \/ (task'.pc \in {"store", "aborted"} /\ k = Key(task'.utterance))
      /\ \A i, j \in DOMAIN log' : Key(log'[i]) = Key(log'[j]) => i = j
      /\ \A i \in DOMAIN log' : Key(log'[i]) \in keys'
      /\ task'.pc = "store" => Key(task'.utterance) \in keys' /\ \A i \in DOMAIN log' : Key(log'[i]) # Key(task'.utterance)
<1>3. Goal => KeysAreTaken'
  BY DEF KeysAreTaken, KeysMatchLog, Key
<1>4. ASSUME UNCHANGED <<task, log, keys>>
      PROVE  Goal
  BY <1>2, <1>4
<1>5. CASE TakeFinal
  <2>1. UNCHANGED <<log, keys>> /\ task.pc = "idle"
    BY <1>5 DEF TakeFinal
  <2>2. task'.pc = "commit"
    BY <1>5, FinalIsTaken
  <2>3. QED
    BY <1>2, <1>3, <2>1, <2>2
<1>6. CASE ReserveKey
  <2>1. task.pc = "commit" /\ UNCHANGED log /\ task'.utterance = task.utterance
    BY <1>1, <1>6 DEF ReserveKey, StreamTyped
  <2>2. CASE keys' = keys \cup {Key(task.utterance)} /\ task'.pc = "store" /\ Key(task.utterance) \notin keys
    <3>1. \A i \in DOMAIN log : Key(log[i]) # Key(task.utterance)
      BY <1>2, <2>2
    <3> HIDE DEF Key
    <3>2. QED
      BY <1>2, <1>3, <2>1, <2>2, <3>1
  <2>3. CASE UNCHANGED keys /\ task'.pc = "idle"
    BY <1>2, <1>3, <2>1, <2>3
  <2>4. QED
    BY <1>1, <1>6, <2>2, <2>3 DEF ReserveKey, StreamTyped
<1>7. CASE StoreMessage
  <2>1. /\ task.pc = "store" /\ log' = Append(log, task.utterance) /\ UNCHANGED keys /\ task'.pc = "idle"
    BY <1>1, <1>7 DEF StoreMessage, StreamTyped
  <2>2. /\ Len(log) \in Nat /\ DOMAIN log = 1 .. Len(log) /\ DOMAIN log' = 1 .. Len(log) + 1
        /\ log'[Len(log) + 1] = task.utterance /\ \A i \in DOMAIN log : log'[i] = log[i]
    BY <1>1, <2>1, AppendListed
  <2>3. \A i \in DOMAIN log' : i \in DOMAIN log \/ i = Len(log) + 1
    BY <2>2
  <2>4. Len(log) + 1 \in DOMAIN log' /\ \A i \in DOMAIN log : i \in DOMAIN log'
    BY <2>2
  <2>5. Goal
    BY <1>2, <2>1, <2>2, <2>3, <2>4
  <2>6. QED
    BY <1>3, <2>5
<1>8. CASE ReturnKey
  <2>1. task.pc = "store" /\ keys' = keys \ {Key(task.utterance)} /\ UNCHANGED log /\ task'.pc = "idle"
    BY <1>1, <1>8 DEF ReturnKey, StreamTyped
  <2>2. QED
    BY <1>2, <1>3, <2>1
<1>9. CASE AbortTask
  <2>1. UNCHANGED <<log, keys>> /\ task'.pc = "aborted" /\ task'.utterance = task.utterance /\ task.pc # "aborted"
    BY <1>1, <1>9 DEF AbortTask, StreamTyped
  <2>2. QED
    BY <1>2, <1>3, <2>1
<1>10. CASE TaskEnds
  <2>1. UNCHANGED <<log, keys>> /\ task'.pc = "done" /\ task.pc = "idle"
    BY <1>1, <1>10 DEF TaskEnds, StreamTyped
  <2>2. QED
    BY <1>2, <1>3, <2>1
<1> HIDE DEF Goal
<1>11. CASE SessionChanges \/ CloseSocket \/ SupplyFrame \/ TakeReady \/ TakeFailed
  BY <1>3, <1>4, <1>11 DEF SessionChanges, CloseSocket, SupplyFrame, TakeReady, TakeFailed
<1>12. CASE RecognitionStarted \/ ProviderFails \/ WriteFrame \/ EndOfUtterance \/ EndOfTranscript
  BY <1>3, <1>4, <1>12 DEF RecognitionStarted, ProviderFails, WriteFrame, EndOfUtterance, EndOfTranscript
<1>13. ASSUME NEW f, ReceiveFrame(f) \/ AddTranscript(f)
       PROVE  KeysAreTaken'
  BY <1>3, <1>4, <1>13 DEF ReceiveFrame, AddTranscript
<1>14. QED
  BY <1>5, <1>6, <1>7, <1>8, <1>9, <1>10, <1>11, <1>12, <1>13 DEF StreamNext

\* A frame that is queued, and a frame that is sent, keep the count.
LEMMA FramesAdd ==
    ASSUME NEW h \in Nat, NEW q \in Int, NEW n \in Nat, h + q = n
    PROVE  h + (q + 1) = n + 1 /\ (h + 1) + (q - 1) = n
OBVIOUS

\* The provider ends or hands on what it gathered: the frames stay as they are.
LEMMA GatheredIsGone ==
    ASSUME prov \in [phase : {"connecting", "started", "ended"}, queued : 0..InputCap, heard : Nat,
                     pending : Seq(Fragment), made : Nat, from : Nat, silence : BOOLEAN],
           prov.heard + prov.queued = Len(supplied), UNCHANGED supplied,
           NEW p \in {"connecting", "started", "ended"},
           prov' = [prov EXCEPT !.phase = p, !.pending = <<>>]
    PROVE  /\ prov' \in [phase : {"connecting", "started", "ended"}, queued : 0..InputCap, heard : Nat,
                         pending : Seq(Fragment), made : Nat, from : Nat, silence : BOOLEAN]
           /\ prov'.pending = <<>>
           /\ prov'.heard + prov'.queued = Len(supplied')
<1> DEFINE Q == Seq(Fragment)
<1>1. <<>> \in Q
  OBVIOUS
<1> HIDE DEF Q
<1>2. prov \in [phase : {"connecting", "started", "ended"}, queued : 0..InputCap, heard : Nat,
                pending : Q, made : Nat, from : Nat, silence : BOOLEAN]
  BY DEF Q
<1>3. prov' \in [phase : {"connecting", "started", "ended"}, queued : 0..InputCap, heard : Nat,
                pending : Q, made : Nat, from : Nat, silence : BOOLEAN]
  BY <1>1, <1>2
<1>4. prov'.heard = prov.heard /\ prov'.queued = prov.queued /\ prov'.pending = <<>>
  BY <1>2
<1>5. QED
  BY <1>3, <1>4 DEF Q

\* Every variable keeps its type.
LEMMA StreamTypesStep ==
    ASSUME StreamIInv, StreamNext
    PROVE  StreamTyped'
<1>1. StreamTyped /\ ClockIsTrue
  BY DEF StreamIInv
<1>2. clock' \in ClockType
  BY ClockStep
<1>3. /\ prov \in [phase : {"connecting", "started", "ended"}, queued : 0..InputCap, heard : Nat,
                   pending : Seq(Fragment), made : Nat, from : Nat, silence : BOOLEAN]
      /\ prov.silence \/ prov.pending = <<>>
      /\ task = [pc |-> task.pc, utterance |-> task.utterance] /\ Listed(events) /\ Listed(log)
      /\ sock.hand # NoFrame => sock.hand.ts \in Timestamps
      /\ active \in BOOLEAN /\ origin \in BOOLEAN /\ ready \in BOOLEAN /\ refused \in BOOLEAN
      /\ sock \in [loop : {"open", "closed"}, last : Frame, hand : Frame]
      /\ supplied \in Seq(Timestamps)
      /\ prov.heard + prov.queued = Len(supplied)
      /\ Len(events) <= EventCap
      /\ task.pc \in {"idle", "commit", "store", "done", "aborted"}
  BY <1>1 DEF StreamTyped, StreamTypeOK
<1>4. MaxSeq \in Nat /\ InputCap \in Nat /\ InputCap > 0 /\ EventCap \in Nat /\ EventCap > 0 /\ Timestamps \subseteq Nat
  BY StreamAssumption
<1> DEFINE SockType == /\ sock' \in [loop : {"open", "closed"}, last : Frame, hand : Frame]
                       /\ sock'.hand # NoFrame => sock'.hand.ts \in Timestamps
<1> DEFINE QueueType == /\ prov' \in [phase : {"connecting", "started", "ended"}, queued : 0..InputCap, heard : Nat,
                                      pending : Seq(Fragment), made : Nat, from : Nat, silence : BOOLEAN]
                        /\ prov'.silence \/ prov'.pending = <<>>
                        /\ supplied' \in Seq(Timestamps) /\ prov'.heard + prov'.queued = Len(supplied')
<1> DEFINE EventType == Listed(events') /\ Len(events') <= EventCap
<1> DEFINE TaskType == /\ task' = [pc |-> task'.pc, utterance |-> task'.utterance] /\ Listed(log')
                       /\ task'.pc \in {"idle", "commit", "store", "done", "aborted"}
<1> DEFINE FlagType == active' \in BOOLEAN /\ origin' \in BOOLEAN /\ ready' \in BOOLEAN /\ refused' \in BOOLEAN
<1>5. SockType /\ QueueType /\ EventType /\ TaskType /\ FlagType => StreamTyped'
  BY <1>2 DEF StreamTyped, StreamTypeOK, ClockType, Listed
<1>6. UNCHANGED sock => SockType
  BY <1>3
<1>7. UNCHANGED <<prov, supplied>> => QueueType
  BY <1>3
<1>8. UNCHANGED events => EventType
  BY <1>3
<1>9. UNCHANGED <<task, log>> => TaskType
  BY <1>3
<1>10. ASSUME NEW e, Deliver(e)
       PROVE  EventType
  <2>1. Len(events) < EventCap /\ events' = Append(events, e)
    BY <1>10 DEF Deliver
  <2>2. Listed(events') /\ Len(events') = Len(events) + 1 /\ Len(events) \in Nat
    BY <1>3, <2>1, AppendListed
  <2>3. QED
    BY <1>4, <2>1, <2>2
<1>11. ASSUME events # <<>>, events' = Tail(events)
       PROVE  EventType
  <2>1. Listed(events') /\ Len(events') = Len(events) - 1 /\ Len(events) \in Nat
    BY <1>3, <1>11, TailListed
  <2>2. QED
    BY <1>3, <1>4, <2>1
<1> HIDE DEF SockType, QueueType, EventType, TaskType, FlagType
<1>12. CASE SessionChanges
  <2>1. FlagType
    BY <1>3, <1>12 DEF SessionChanges, FlagType
  <2>2. QED
    BY <1>5, <1>6, <1>7, <1>8, <1>9, <1>12, <2>1 DEF SessionChanges
<1>13. CASE SupplyFrame
  <2>1. SockType
    <3>1. sock' = [sock EXCEPT !.hand = NoFrame] /\ sock.last \in Frame
      BY <1>3, <1>13 DEF SupplyFrame
    <3>2. NoFrame \in Frame
      BY <1>4 DEF NoFrame, Frame
    <3>3. QED
      BY <1>3, <3>1, <3>2 DEF SockType
  <2>2. QueueType
    <3>1. CASE UNCHANGED <<prov, supplied, origin, clock>>
      BY <1>7, <3>1
    <3>2. CASE /\ sock.hand.ts \in Timestamps
               /\ prov' = [prov EXCEPT !.queued = @ + 1] /\ prov.queued < InputCap
               /\ supplied' = Append(supplied, sock.hand.ts)
      <4>1. supplied' \in Seq(Timestamps) /\ Len(supplied') = Len(supplied) + 1 /\ Len(supplied) \in Nat
        BY <1>3, <3>2
      <4>2. prov.queued \in 0..InputCap /\ prov.heard \in Nat /\ prov.queued + 1 \in 0..InputCap
        <5>1. prov.queued \in 0..InputCap /\ prov.heard \in Nat
          BY <1>3
        <5>2. prov.queued < InputCap
          BY <3>2
        <5>3. QED
          BY <1>4, <5>1, <5>2
      <4>3. /\ prov' \in [phase : {"connecting", "started", "ended"}, queued : 0..InputCap, heard : Nat,
                          pending : Seq(Fragment), made : Nat, from : Nat, silence : BOOLEAN]
            /\ prov'.queued = prov.queued + 1 /\ prov'.heard = prov.heard
            /\ prov'.silence = prov.silence /\ prov'.pending = prov.pending
        BY <1>3, <3>2, <4>2
      <4>4. prov'.heard + prov'.queued = Len(supplied')
        <5>1. prov.heard + prov.queued = Len(supplied)
          BY <1>3
        <5>2. prov.queued \in Int
          BY <4>2
        <5>3. prov.heard + (prov.queued + 1) = Len(supplied) + 1
          BY <4>1, <4>2, <5>1, <5>2, FramesAdd
        <5>4. QED
          BY <4>1, <4>3, <5>3
      <4>5. QED
        BY <1>3, <4>1, <4>3, <4>4 DEF QueueType
    <3>3. QED
      BY <1>1, <1>13, <3>1, <3>2, FrameIsSupplied
  <2>3. FlagType
    BY <1>3, <1>13 DEF SupplyFrame, FlagType
  <2>4. QED
    BY <1>5, <1>8, <1>9, <1>13, <2>1, <2>2, <2>3 DEF SupplyFrame
<1>14. CASE CloseSocket
  <2>1. SockType
    BY <1>3, <1>14 DEF CloseSocket, SockType
  <2>2. FlagType
    BY <1>3, <1>14 DEF CloseSocket, FlagType
  <2>3. QED
    BY <1>5, <1>7, <1>8, <1>9, <1>14, <2>1, <2>2 DEF CloseSocket
<1>15. CASE AbortTask
  <2>1. TaskType
    BY <1>3, <1>15 DEF AbortTask, TaskType
  <2>2. FlagType
    BY <1>3, <1>15 DEF AbortTask, FlagType
  <2>3. QED
    BY <1>5, <1>6, <1>7, <1>8, <1>15, <2>1, <2>2 DEF AbortTask
<1>16. ASSUME NEW seq \in {sock.last.seq, sock.last.seq + 1}, NEW ts \in Timestamps,
              ReceiveFrame([seq |-> seq, ts |-> ts])
       PROVE  StreamTyped'
  <2> DEFINE f == [seq |-> seq, ts |-> ts]
  <2>1. f \in Frame /\ f.ts \in Timestamps
    <3>1. sock.last \in Frame
      BY <1>3
    <3>2. sock.last.seq \in 0..MaxSeq
      BY <3>1 DEF Frame
    <3>3. seq <= MaxSeq
      BY <1>16 DEF ReceiveFrame
    <3>4. QED
      BY <1>4, <3>2, <3>3 DEF Frame
  <2>2. sock' = [sock EXCEPT !.last = f, !.hand = IF active THEN f ELSE NoFrame]
    BY <1>16 DEF ReceiveFrame
  <2> HIDE DEF f
  <2>3. NoFrame \in Frame
    BY <1>4 DEF NoFrame, Frame
  <2>4. SockType
    BY <1>3, <2>1, <2>2, <2>3 DEF SockType
  <2>5. FlagType
    BY <1>3, <1>16 DEF ReceiveFrame, FlagType
  <2>6. QED
    BY <1>5, <1>7, <1>8, <1>9, <1>16, <2>4, <2>5 DEF ReceiveFrame
<1>17. CASE RecognitionStarted
  <2>1. QueueType
    BY <1>3, <1>17 DEF RecognitionStarted, QueueType
  <2>2. FlagType
    BY <1>3, <1>17 DEF RecognitionStarted, FlagType
  <2>3. QED
    BY <1>5, <1>6, <1>9, <1>10, <1>17, <2>1, <2>2 DEF RecognitionStarted
<1>18. CASE ProviderFails
  <2>1. QueueType
    <3>1. UNCHANGED supplied /\ prov' = [prov EXCEPT !.phase = "ended", !.pending = <<>>]
      BY <1>3, <1>18 DEF ProviderFails
    <3>2. QED
      BY <1>3, <3>1, GatheredIsGone DEF QueueType
  <2>2. FlagType
    BY <1>3, <1>18 DEF ProviderFails, FlagType
  <2>3. QED
    BY <1>5, <1>6, <1>9, <1>10, <1>18, <2>1, <2>2 DEF ProviderFails
<1>19. CASE WriteFrame
  <2>1. QueueType
    <3>1. prov' = [prov EXCEPT !.queued = @ - 1, !.heard = @ + 1] /\ prov.queued > 0 /\ UNCHANGED supplied
      BY <1>19 DEF WriteFrame
    <3>2. prov.queued \in 0..InputCap /\ prov.heard \in Nat /\ prov.queued - 1 \in 0..InputCap /\ prov.heard + 1 \in Nat
      <4>1. prov.queued \in 0..InputCap /\ prov.heard \in Nat
        BY <1>3
      <4>2. prov.queued > 0
        BY <3>1
      <4>3. QED
        BY <1>4, <4>1, <4>2
    <3>3. /\ prov' \in [phase : {"connecting", "started", "ended"}, queued : 0..InputCap, heard : Nat,
                        pending : Seq(Fragment), made : Nat, from : Nat, silence : BOOLEAN]
          /\ prov'.queued = prov.queued - 1 /\ prov'.heard = prov.heard + 1
          /\ prov'.silence = prov.silence /\ prov'.pending = prov.pending
      BY <1>3, <3>1, <3>2
    <3>4. prov'.heard + prov'.queued = Len(supplied')
      <4>1. prov.heard + prov.queued = Len(supplied) /\ Len(supplied) \in Nat
        BY <1>3
      <4>2. prov.queued \in Int
        BY <3>2
      <4>3. (prov.heard + 1) + (prov.queued - 1) = Len(supplied)
        BY <3>2, <4>1, <4>2, FramesAdd
      <4>4. QED
        BY <3>1, <3>3, <4>3
    <3>5. QED
      BY <1>3, <3>1, <3>3, <3>4 DEF QueueType
  <2>2. FlagType
    BY <1>3, <1>19 DEF WriteFrame, FlagType
  <2>3. QED
    BY <1>5, <1>6, <1>8, <1>9, <1>19, <2>1, <2>2 DEF WriteFrame
<1>20. CASE EndOfUtterance
  <2>1. QueueType
    <3>1. UNCHANGED supplied /\ prov' = [prov EXCEPT !.phase = prov.phase, !.pending = <<>>]
      BY <1>3, <1>20 DEF EndOfUtterance
    <3>2. QED
      BY <1>3, <3>1, GatheredIsGone DEF QueueType
  <2>2. FlagType
    BY <1>3, <1>20 DEF EndOfUtterance, FlagType
  <2>3. QED
    BY <1>5, <1>6, <1>9, <1>10, <1>20, <2>1, <2>2 DEF EndOfUtterance
<1>21. CASE EndOfTranscript
  <2>1. QueueType
    <3>1. UNCHANGED supplied /\ prov' = [prov EXCEPT !.phase = "ended", !.pending = <<>>]
      BY <1>3, <1>21 DEF EndOfTranscript
    <3>2. QED
      BY <1>3, <3>1, GatheredIsGone DEF QueueType
  <2>2. FlagType
    BY <1>3, <1>21 DEF EndOfTranscript, FlagType
  <2>3. EventType
    BY <1>8, <1>10, <1>21 DEF EndOfTranscript
  <2>4. QED
    BY <1>5, <1>6, <1>9, <1>21, <2>1, <2>2, <2>3 DEF EndOfTranscript
<1>22. ASSUME NEW f \in Fragments, AddTranscript(f)
       PROVE  StreamTyped'
  <2>1. f \in Fragment /\ f.start \in Nat
    BY <1>1, <1>22, FragmentIsTyped
  <2>2. UNCHANGED <<active, sock, supplied, origin, task, ready, log, refused>>
    BY <1>22 DEF AddTranscript
  <2>3. QueueType
    <3>1. CASE prov.silence
      <4>1. prov' = [prov EXCEPT !.pending = Append(@, f), !.made = @ + 1, !.from = f.start]
        BY <1>22, <3>1 DEF AddTranscript
      <4>2. Append(prov.pending, f) \in Seq(Fragment) /\ prov.made + 1 \in Nat
        <5>1. prov.pending \in Seq(Fragment) /\ prov.made \in Nat
          BY <1>3
        <5>2. QED
          BY <2>1, <5>1
      <4>3. QED
        BY <1>3, <2>1, <2>2, <3>1, <4>1, <4>2 DEF QueueType
    <3>2. CASE ~prov.silence
      <4>1. prov' = [prov EXCEPT !.made = @ + 1, !.from = f.start]
        BY <1>22, <3>2 DEF AddTranscript
      <4>2. prov.made + 1 \in Nat
        BY <1>3
      <4>3. QED
        BY <1>3, <2>1, <2>2, <3>2, <4>1, <4>2 DEF QueueType
    <3>3. QED
      BY <3>1, <3>2
  <2>4. FlagType
    BY <1>3, <2>2 DEF FlagType
  <2>5. EventType
    BY <1>8, <1>10, <1>22 DEF AddTranscript
  <2>6. QED
    BY <1>5, <1>6, <1>9, <2>2, <2>3, <2>4, <2>5
<1>23. CASE TakeReady
  <2>1. FlagType
    BY <1>3, <1>23 DEF TakeReady, FlagType
  <2>2. QED
    BY <1>5, <1>6, <1>7, <1>9, <1>11, <1>23, <2>1 DEF TakeReady
<1>24. CASE TakeFailed
  <2>1. FlagType
    BY <1>3, <1>24 DEF TakeFailed, FlagType
  <2>2. QED
    BY <1>5, <1>6, <1>7, <1>9, <1>11, <1>24, <2>1 DEF TakeFailed
<1>25. CASE TakeFinal
  <2>1. TaskType /\ FlagType
    <3>1. UNCHANGED refused /\ task' = [pc |-> "commit", utterance |-> task'.utterance]
      BY <1>25, FinalIsTaken
    <3>2. task'.pc = "commit"
      BY <3>1
    <3>3. QED
      BY <1>3, <1>25, <3>1, <3>2 DEF TakeFinal, TaskType, FlagType
  <2>2. QED
    BY <1>5, <1>6, <1>7, <1>11, <1>25, <2>1 DEF TakeFinal
<1>26. CASE ReserveKey
  <2>1. TaskType
    BY <1>3, <1>26 DEF ReserveKey, TaskType
  <2>2. FlagType
    BY <1>3, <1>26 DEF ReserveKey, FlagType
  <2>3. QED
    BY <1>5, <1>6, <1>7, <1>8, <1>26, <2>1, <2>2 DEF ReserveKey
<1>27. CASE StoreMessage
  <2>1. TaskType
    <3>1. Listed(log')
      BY <1>3, <1>27, AppendListed DEF StoreMessage
    <3>2. task' = [task EXCEPT !.pc = "idle"]
      BY <1>27 DEF StoreMessage
    <3>3. QED
      BY <1>3, <3>1, <3>2 DEF TaskType
  <2>2. FlagType
    BY <1>3, <1>27 DEF StoreMessage, FlagType
  <2>3. QED
    BY <1>5, <1>6, <1>7, <1>8, <1>27, <2>1, <2>2 DEF StoreMessage
<1>28. CASE ReturnKey
  <2>1. TaskType
    BY <1>3, <1>28 DEF ReturnKey, TaskType
  <2>2. FlagType
    BY <1>3, <1>28 DEF ReturnKey, FlagType
  <2>3. QED
    BY <1>5, <1>6, <1>7, <1>8, <1>28, <2>1, <2>2 DEF ReturnKey
<1>29. CASE TaskEnds
  <2>1. TaskType
    BY <1>3, <1>29 DEF TaskEnds, TaskType
  <2>2. FlagType
    BY <1>3, <1>29 DEF TaskEnds, FlagType
  <2>3. QED
    BY <1>5, <1>6, <1>7, <1>8, <1>29, <2>1, <2>2 DEF TaskEnds
<1>30. QED
  BY <1>12, <1>13, <1>14, <1>15, <1>16, <1>17, <1>18, <1>19, <1>20, <1>21, <1>22, <1>23, <1>24, <1>25, <1>26, <1>27,
     <1>28, <1>29 DEF StreamNext

-----------------------------------------------------------------------------
(* The theorem *)

\* The invariant holds at first.
LEMMA StreamInitIInv ==
    ASSUME StreamInit
    PROVE  StreamIInv
<1>1. /\ supplied = <<>> /\ events = <<>> /\ log = <<>> /\ clock = NewClock /\ keys = {} /\ ~refused
      /\ task = [pc |-> "idle", utterance |-> NoUtterance] /\ active \in BOOLEAN /\ origin = FALSE /\ ready = FALSE
      /\ refused = FALSE /\ sock = [loop |-> "open", last |-> NoFrame, hand |-> NoFrame]
  BY DEF StreamInit
<1>2. /\ prov.phase = "connecting" /\ prov.queued = 0 /\ prov.heard = 0 /\ prov.pending = <<>> /\ prov.made = 0
      /\ prov.from = 0 /\ prov.silence \in BOOLEAN
      /\ prov = [phase |-> prov.phase, queued |-> prov.queued, heard |-> prov.heard, pending |-> prov.pending,
                 made |-> prov.made, from |-> prov.from, silence |-> prov.silence]
  BY DEF StreamInit
<1>3. clock.frames = <<>> /\ clock.first = -1 /\ clock.end = 0 /\ Len(<<>>) = 0 /\ DOMAIN <<>> = {}
  BY <1>1 DEF NewClock, NoTime
<1>4. Released = 0
  BY <1>1, <1>3 DEF Released
<1>5. MaxSeq \in Nat /\ InputCap \in Nat /\ EventCap \in Nat
  BY StreamAssumption
<1>6. /\ prov \in [phase : {"connecting", "started", "ended"}, queued : 0..InputCap, heard : Nat,
                   pending : Seq(Fragment), made : Nat, from : Nat, silence : BOOLEAN]
      /\ prov.silence \/ prov.pending = <<>>
  <2>1. <<>> \in Seq(Fragment) /\ 0 \in 0..InputCap
    BY <1>5
  <2> DEFINE Q == Seq(Fragment)
             k == 0..InputCap
  <2>2. <<>> \in Q /\ 0 \in k
    BY <2>1
  <2> HIDE DEF Q, k
  <2>3. prov \in [phase : {"connecting", "started", "ended"}, queued : k, heard : Nat,
                  pending : Q, made : Nat, from : Nat, silence : BOOLEAN]
    BY <1>2, <2>2
  <2>4. QED
    BY <1>2, <2>3 DEF Q, k
<1>7. clock \in [frames : Seq([audio : Nat, capture : Int]), first : Int, end : Nat]
  <2>1. clock = [frames |-> <<>>, first |-> -1, end |-> 0]
    BY <1>1 DEF NewClock, NoTime
  <2>2. <<>> \in Seq([audio : Nat, capture : Int])
    OBVIOUS
  <2>3. QED
    BY <2>1, <2>2
<1>8. NoFrame \in Frame
  BY <1>5 DEF NoFrame, Frame
<1>9. Listed(<<>>)
  BY DEF Listed
<1>10. StreamTypeOK
  <2>1. supplied \in Seq(Timestamps) /\ Len(supplied) = 0 /\ Len(events) = 0
    BY <1>1
  <2>2. 0 \in 0..InputCap /\ 0 <= EventCap
    BY <1>5
  <2>3. prov.heard + prov.queued = Len(supplied) /\ prov.queued \in 0..InputCap
    BY <1>2, <2>1, <2>2
  <2>4. sock \in [loop : {"open", "closed"}, last : Frame, hand : Frame]
    BY <1>1, <1>8
  <2>5. QED
    BY <1>1, <1>2, <2>1, <2>2, <2>3, <2>4 DEF StreamTypeOK
<1>11. StreamTyped
  BY <1>1, <1>6, <1>7, <1>9, <1>10 DEF StreamTyped
<1>12. ClockIsTrue
  BY <1>1, <1>3, <1>4, MultZero DEF ClockIsTrue
<1>13. FinalsAreHeard
  <2>1. prov.from <= FrameMs * prov.heard
    BY <1>2, MultZero
  <2>2. DOMAIN prov.pending = {} /\ DOMAIN events = {}
    BY <1>1, <1>2
  <2>3. QED
    BY <1>2, <1>4, <2>1, <2>2 DEF FinalsAreHeard, Known, InTurn, EventsInTurn
<1>14. WhatIsStoredIsTrue /\ KeysAreTaken
  <2>1. DOMAIN log = {} /\ task.pc = "idle"
    BY <1>1
  <2>2. QED
    BY <1>1, <2>1 DEF WhatIsStoredIsTrue, KeysAreTaken, KeysMatchLog
<1>15. QED
  BY <1>1, <1>11, <1>12, <1>13, <1>14 DEF StreamIInv

\* And is kept by every step.
LEMMA StreamStep ==
    ASSUME StreamIInv, [StreamNext]_streamVars
    PROVE  StreamIInv'
<1>1. CASE StreamNext
  <2>1. ~refused'
    <3>1. CASE TakeFinal
      BY <3>1, FinalIsTaken DEF StreamIInv
    <3>2. CASE SessionChanges \/ SupplyFrame \/ CloseSocket \/ AbortTask \/ RecognitionStarted \/ ProviderFails \/ WriteFrame
               \/ EndOfUtterance \/ EndOfTranscript \/ TakeReady \/ TakeFailed \/ ReserveKey \/ StoreMessage \/ ReturnKey \/ TaskEnds
      BY <3>2 DEF StreamIInv, SessionChanges, SupplyFrame, CloseSocket, AbortTask, RecognitionStarted, ProviderFails,
                  WriteFrame, EndOfUtterance, EndOfTranscript, TakeReady, TakeFailed, ReserveKey, StoreMessage,
                  ReturnKey, TaskEnds
    <3>3. ASSUME NEW f, ReceiveFrame(f) \/ AddTranscript(f)
          PROVE  ~refused'
      BY <3>3 DEF StreamIInv, ReceiveFrame, AddTranscript
    <3>4. QED
      BY <1>1, <3>1, <3>2, <3>3 DEF StreamNext
  <2>2. QED
    BY <1>1, <2>1, StreamTypesStep, ClockStep, FinalsStep, StoredStep, KeysStep DEF StreamIInv
<1>2. CASE UNCHANGED streamVars
  <2>1. StreamTyped'
    BY <1>2 DEF streamVars, StreamIInv, StreamTyped, StreamTypeOK, Listed
  <2>2. ClockIsTrue' /\ Released' = Released
    BY <1>2 DEF streamVars, StreamIInv, ClockIsTrue, Released
  <2>3. FinalsAreHeard'
    BY <1>2, <2>2 DEF streamVars, StreamIInv, FinalsAreHeard, EventsInTurn, Heard, Known, InTurn, IsFinal, IsUtterance
  <2>4. WhatIsStoredIsTrue' /\ KeysAreTaken' /\ ~refused'
    BY <1>2 DEF streamVars, StreamIInv, WhatIsStoredIsTrue, IsTrue, KeysAreTaken, KeysMatchLog, Key
  <2>5. QED
    BY <2>1, <2>2, <2>3, <2>4 DEF StreamIInv
<1>3. QED
  BY <1>1, <1>2

\* It says what is promised of a transcript.
LEMMA StreamIsTrue ==
    ASSUME StreamIInv
    PROVE  TranscriptIsTrue
<1>1. \A i \in DOMAIN log : IsTrue(log[i])
  BY DEF StreamIInv, WhatIsStoredIsTrue
<1>2. TimesAreCaptureTimes /\ WordsLieInside
  BY <1>1 DEF IsTrue, TimesAreCaptureTimes, WordsLieInside
<1>3. QED
  BY <1>2 DEF StreamIInv, StreamTyped, KeysAreTaken, NothingHeardIsRefused, TranscriptIsTrue

\* app.rs audio_websocket_loop, commit_final_transcript, transcription.rs,
\* transcription/clock.rs: whatever frames a browser captures and the queue drops,
\* and however the provider groups what it hears, every utterance that is stored
\* has the time at which its audio was captured, with its words inside, is stored
\* once, and the clock has not let go what it needs to place it.
THEOREM TranscriptStaysTrue == StreamSpec => []TranscriptIsTrue
<1>1. StreamInit => StreamIInv
  BY StreamInitIInv
<1>2. StreamIInv /\ [StreamNext]_streamVars => StreamIInv'
  BY StreamStep
<1>3. StreamIInv => TranscriptIsTrue
  BY StreamIsTrue
<1>4. QED
  BY <1>1, <1>2, <1>3, PTL DEF StreamSpec

-----------------------------------------------------------------------------
(* The spoken message *)

\* What a message's diagnostics say, and which of them end it.
Diagnostic == {"started", "failed", "firstAudio", "summary", "publish", "publishFailed", "published", "completed"}
Answers(d) == {i \in DOMAIN d : d[i] \in {"completed", "failed"}}

\* Speech is never further ahead of the clock than what waits.
LeadIsKept ==
    /\ elapsed <= index /\ waiting <= index - elapsed
    /\ phase \in {"silent", "synthesizing"} => index = 0

\* Tokens to be stored lie inside the audio; the clip is answered once it is over.
SpeechIInv ==
    /\ SpeechTypeOK /\ LeadIsKept /\ PacedSpeechFits
    /\ phase = "publishing" => Inside(tokens, samples)
    /\ TimingIsInside
    /\ speaking = (IF phase \in {"synthesizing", "publishing"} THEN 1 ELSE 0)
    /\ diag \in Seq(Diagnostic)
    /\ phase # "done" => Answers(diag) = {}
    /\ phase = "done" => \E k \in DOMAIN diag : Answers(diag) = {k}

\* The bounds are numbers, and the lead fits the queue.
LEMMA SpeechBounds ==
    /\ FrameSamples \in Nat /\ FrameSamples > 0 /\ Prebuffer \in Nat /\ Prebuffer > 0
    /\ SpeechCap \in Nat /\ Prebuffer <= SpeechCap /\ MaxChars \in Nat /\ MaxSamples \in Nat
BY SpeechAssumption

\* The larger of zero and a number.
LEMMA AtLeastZero ==
    ASSUME NEW n \in Int
    PROVE  Max({0, n}) = IF n > 0 THEN n ELSE 0
<1> DEFINE m == IF n > 0 THEN n ELSE 0
<1>1. m \in {0, n} /\ \A y \in {0, n} : m >= y
  OBVIOUS
<1>2. \A x \in {0, n} : (\A y \in {0, n} : x >= y) => x = m
  OBVIOUS
<1>3. QED
  BY <1>1, <1>2 DEF Max

\* Audio has a number of frames.
LEMMA FramesAreCounted ==
    ASSUME NEW n \in Nat
    PROVE  (n + FrameSamples - 1) \div FrameSamples \in Nat
BY SpeechBounds

\* A diagnostic that is no answer adds none; the first answer is the only one.
LEMMA AnswersGrow ==
    ASSUME NEW d \in Seq(Diagnostic), NEW e \in Seq(Diagnostic), Answers(d) = {}
    PROVE  /\ d \o e \in Seq(Diagnostic)
           /\ Answers(e) = {} => Answers(d \o e) = {}
           /\ \A k \in DOMAIN e : Answers(e) = {k} => \E j \in DOMAIN (d \o e) : Answers(d \o e) = {j}
<1>1. /\ d \o e \in Seq(Diagnostic) /\ Len(d) \in Nat /\ Len(e) \in Nat
      /\ DOMAIN d = 1 .. Len(d) /\ DOMAIN e = 1 .. Len(e) /\ DOMAIN (d \o e) = 1 .. Len(d) + Len(e)
      /\ \A i \in 1 .. Len(d) : (d \o e)[i] = d[i]
      /\ \A i \in 1 .. Len(e) : (d \o e)[Len(d) + i] = e[i]
  OBVIOUS
<1> DEFINE c == d \o e
<1>2. \A i \in DOMAIN c : i \in 1 .. Len(d) \/ (i - Len(d) \in 1 .. Len(e) /\ i = Len(d) + (i - Len(d)))
  BY <1>1
<1>3. \A i \in DOMAIN c : c[i] \in {"completed", "failed"} => i - Len(d) \in Answers(e)
  BY <1>1, <1>2 DEF Answers
<1>4. \A i \in Answers(e) : Len(d) + i \in Answers(c)
  BY <1>1 DEF Answers
<1> HIDE DEF c
<1>5. Answers(e) = {} => Answers(c) = {}
  BY <1>3 DEF Answers
<1>6. ASSUME NEW k \in DOMAIN e, Answers(e) = {k}
      PROVE  Answers(c) = {Len(d) + k}
  BY <1>1, <1>2, <1>3, <1>4, <1>6 DEF Answers
<1>7. QED
  BY <1>1, <1>5, <1>6 DEF c, Answers

\* The diagnostics a message ends with answer it once, the others do not.
LEMMA LastAnswers ==
    /\ Answers(<<"started">>) = {} /\ Answers(<<"summary", "publish">>) = {}
    /\ Answers(<<"firstAudio", "summary", "publish">>) = {}
    /\ Answers(<<"failed">>) = {1} /\ Answers(<<"publishFailed", "completed">>) = {2}
    /\ Answers(<<"published", "completed">>) = {2}
BY DEF Answers

\* What the invariant says of numbers.
LEMMA SpeechNumbers ==
    ASSUME SpeechIInv
    PROVE  samples \in Nat /\ Frames \in Nat /\ index \in Nat /\ elapsed \in Nat /\ waiting \in Nat /\ dropped = 0
BY SpeechBounds, FramesAreCounted DEF SpeechIInv, SpeechTypeOK, PacedSpeechFits, Frames

\* Every step of a spoken message keeps the invariant.
LEMMA SpeechNextStep ==
    ASSUME SpeechIInv, SpeechNext
    PROVE  SpeechIInv'
<1> USE SpeechBounds, SpeechNumbers
<1>1. CASE BeginSpeech
  <2>1. diag' = diag \o <<"started">> /\ diag' \in Seq(Diagnostic) /\ Answers(diag') = {}
    <3>1. diag \in Seq(Diagnostic) /\ <<"started">> \in Seq(Diagnostic) /\ Answers(diag) = {}
      BY <1>1 DEF SpeechIInv, Diagnostic, BeginSpeech
    <3>2. diag' = diag \o <<"started">>
      BY <1>1, <3>1 DEF BeginSpeech
    <3>3. QED
      BY <3>1, <3>2, AnswersGrow, LastAnswers
  <2>2. Frames' = Frames
    BY <1>1 DEF BeginSpeech, Frames
  <2>3. QED
    BY <1>1, <2>1, <2>2 DEF SpeechIInv, SpeechTypeOK, LeadIsKept, PacedSpeechFits, TimingIsInside, BeginSpeech
<1>2. CASE SynthesisFails
  <2>1. diag' \in Seq(Diagnostic) /\ \E k \in DOMAIN diag' : Answers(diag') = {k}
    <3>1. diag \in Seq(Diagnostic) /\ <<"failed">> \in Seq(Diagnostic) /\ Answers(diag) = {} /\ 1 \in DOMAIN <<"failed">>
      BY <1>2 DEF SpeechIInv, Diagnostic, SynthesisFails
    <3>2. diag' = diag \o <<"failed">>
      BY <1>2, <3>1 DEF SynthesisFails
    <3>3. QED
      BY <3>1, <3>2, AnswersGrow, LastAnswers
  <2>2. Frames' = Frames
    BY <1>2 DEF SynthesisFails, Frames
  <2>3. QED
    BY <1>2, <2>1, <2>2 DEF SpeechIInv, SpeechTypeOK, LeadIsKept, PacedSpeechFits, TimingIsInside, SynthesisFails
<1>3. CASE SynthesisEnds
  <2> DEFINE e == IF samples > 0 THEN <<"firstAudio", "summary", "publish">> ELSE <<"summary", "publish">>
  <2>1. diag' \in Seq(Diagnostic) /\ Answers(diag') = {}
    <3>1. diag \in Seq(Diagnostic) /\ e \in Seq(Diagnostic) /\ Answers(diag) = {} /\ Answers(e) = {}
      <4>1. diag \in Seq(Diagnostic) /\ Answers(diag) = {}
        BY <1>3 DEF SpeechIInv, SynthesisEnds
      <4>2. <<"firstAudio", "summary", "publish">> \in Seq(Diagnostic) /\ <<"summary", "publish">> \in Seq(Diagnostic)
        BY DEF Diagnostic
      <4>3. QED
        BY <4>1, <4>2, LastAnswers
    <3>2. diag' = diag \o e
      <4>1. CASE samples > 0
        <5>1. diag' = diag \o <<"firstAudio">> \o <<"summary", "publish">>
          BY <1>3, <4>1 DEF SynthesisEnds
        <5>2. diag \o <<"firstAudio">> \o <<"summary", "publish">> = diag \o <<"firstAudio", "summary", "publish">>
          BY <3>1 DEF Diagnostic
        <5>3. QED
          BY <4>1, <5>1, <5>2
      <4>2. CASE ~(samples > 0)
        <5>1. diag' = diag \o <<>> \o <<"summary", "publish">>
          BY <1>3, <4>2 DEF SynthesisEnds
        <5>2. diag \o <<>> = diag
          BY <3>1
        <5>3. QED
          BY <4>2, <5>1, <5>2
      <4>3. QED
        BY <4>1, <4>2
    <3> HIDE DEF e
    <3>3. QED
      BY <3>1, <3>2, AnswersGrow
  <2>2. Frames' = Frames
    BY <1>3 DEF SynthesisEnds, Frames
  <2>3. Inside(tokens, samples)'
    BY <1>3 DEF SynthesisEnds, Inside
  <2>4. QED
    BY <1>3, <2>1, <2>2, <2>3 DEF SpeechIInv, SpeechTypeOK, LeadIsKept, PacedSpeechFits, TimingIsInside, SynthesisEnds
<1>4. CASE PublishFails
  <2>1. diag' \in Seq(Diagnostic) /\ \E k \in DOMAIN diag' : Answers(diag') = {k}
    <3> DEFINE e == <<"publishFailed", "completed">>
    <3>1. diag \in Seq(Diagnostic) /\ e \in Seq(Diagnostic) /\ Answers(diag) = {} /\ 2 \in DOMAIN e /\ Answers(e) = {2}
      BY <1>4, LastAnswers DEF SpeechIInv, Diagnostic, PublishFails
    <3>2. diag' = diag \o e
      BY <1>4 DEF PublishFails
    <3> HIDE DEF e
    <3>3. QED
      BY <3>1, <3>2, AnswersGrow
  <2>2. Frames' = Frames
    BY <1>4 DEF PublishFails, Frames
  <2>3. QED
    BY <1>4, <2>1, <2>2 DEF SpeechIInv, SpeechTypeOK, LeadIsKept, PacedSpeechFits, TimingIsInside, PublishFails
<1>5. CASE PublishFrame
  <2>1. Frames' = Frames /\ index' = index + 1 /\ index < Frames /\ elapsed >= frame_send_offset(index)
    BY <1>5 DEF PublishFrame, Frames
  <2>2. elapsed >= index - (Prebuffer - 1)
    BY <2>1, AtLeastZero DEF frame_send_offset
  <2>3. waiting <= index - elapsed /\ elapsed <= index
    BY DEF SpeechIInv, LeadIsKept
  <2>4. waiting < SpeechCap
    BY <2>2, <2>3
  <2>5. waiting' = waiting + 1 /\ UNCHANGED <<phase, chars, samples, tokens, elapsed, dropped, speaking, diag, timing>>
    BY <1>5, <2>4 DEF PublishFrame
  <2>6. SpeechTypeOK'
    BY <2>1, <2>4, <2>5 DEF SpeechIInv, SpeechTypeOK
  <2>7. LeadIsKept'
    BY <1>5, <2>1, <2>3, <2>5 DEF LeadIsKept, PublishFrame
  <2>8. QED
    BY <2>5, <2>6, <2>7 DEF SpeechIInv, PacedSpeechFits, TimingIsInside
<1>6. CASE FrameTime
  <2>1. Frames' = Frames /\ elapsed' = elapsed + 1 /\ elapsed < frame_send_offset(index) /\ phase = "publishing"
        /\ UNCHANGED <<phase, chars, samples, tokens, index, dropped, speaking, diag, timing>>
        /\ waiting' \in 0 .. Max({0, waiting - 1})
    BY <1>6 DEF FrameTime, Frames
  <2>2. elapsed < index
    <3>1. elapsed < index - (Prebuffer - 1)
      BY <2>1, AtLeastZero DEF frame_send_offset
    <3>2. QED
      BY <3>1
  <2>3. waiting <= index - elapsed
    BY DEF SpeechIInv, LeadIsKept
  <2>4. waiting' \in Nat /\ waiting' <= index - elapsed' /\ waiting' <= waiting
    BY <2>1, <2>2, <2>3, AtLeastZero
  <2>5. SpeechTypeOK'
    BY <2>1, <2>4 DEF SpeechIInv, SpeechTypeOK
  <2>6. LeadIsKept'
    BY <2>1, <2>2, <2>4 DEF LeadIsKept
  <2>7. QED
    BY <2>1, <2>5, <2>6 DEF SpeechIInv, PacedSpeechFits, TimingIsInside
<1>7. CASE SpeechRecorded
  <2>1. diag' \in Seq(Diagnostic) /\ \E k \in DOMAIN diag' : Answers(diag') = {k}
    <3> DEFINE e == <<"published", "completed">>
    <3>1. diag \in Seq(Diagnostic) /\ e \in Seq(Diagnostic) /\ Answers(diag) = {} /\ 2 \in DOMAIN e /\ Answers(e) = {2}
      BY <1>7, LastAnswers DEF SpeechIInv, Diagnostic, SpeechRecorded
    <3>2. diag' = diag \o e
      BY <1>7 DEF SpeechRecorded
    <3> HIDE DEF e
    <3>3. QED
      BY <3>1, <3>2, AnswersGrow
  <2>2. Frames' = Frames
    BY <1>7 DEF SpeechRecorded, Frames
  <2>3. TimingIsInside'
    <3>1. Inside(tokens, samples) /\ timing' \in {{}, {[end |-> samples, tokens |-> tokens]}}
      BY <1>7 DEF SpeechIInv, SpeechRecorded
    <3>2. \A s \in timing' : s.tokens = tokens /\ s.end = samples
      BY <3>1
    <3>3. QED
      BY <3>1, <3>2 DEF TimingIsInside
  <2>4. phase = "publishing" /\ phase' = "done" /\ speaking' = speaking - 1
        /\ UNCHANGED <<chars, samples, tokens, index, elapsed, waiting, dropped>>
    BY <1>7 DEF SpeechRecorded
  <2>5. QED
    BY <2>1, <2>2, <2>3, <2>4 DEF SpeechIInv, SpeechTypeOK, LeadIsKept, PacedSpeechFits
<1>8. ASSUME NEW c \in CharsFrom(ClockNow), NEW n \in 0..2, ProviderChunk(c, n)
      PROVE  SpeechIInv'
  <2>1. chars' = chars \o c /\ Len(chars) + Len(c) <= MaxChars /\ samples' = samples + n /\ samples + n <= MaxSamples
        /\ phase = "synthesizing" /\ index = 0
        /\ UNCHANGED <<phase, tokens, index, elapsed, waiting, dropped, speaking, diag, timing>>
    BY <1>8 DEF ProviderChunk, SpeechIInv, LeadIsKept
  <2>2. Len(chars') <= MaxChars
    BY <2>1
  <2>3. Frames' \in Nat /\ samples' \in 0..MaxSamples
    <3>1. samples' \in Nat /\ samples' \in 0..MaxSamples
      BY <2>1
    <3>2. Frames' = (samples' + FrameSamples - 1) \div FrameSamples
      BY DEF Frames
    <3>3. QED
      BY <3>1, <3>2, FramesAreCounted
  <2>4. QED
    BY <2>1, <2>2, <2>3 DEF SpeechIInv, SpeechTypeOK, LeadIsKept, PacedSpeechFits, TimingIsInside
<1>9. QED
  BY <1>1, <1>2, <1>3, <1>4, <1>5, <1>6, <1>7, <1>8 DEF SpeechNext, SpeechStep

\* The invariant says what an agent's speech promises.
LEMMA SpeechIsKept ==
    ASSUME SpeechIInv
    PROVE  SpeechIsSound
<1>1. CASE phase = "done"
  <2>1. PICK k \in DOMAIN diag : Answers(diag) = {k}
    BY <1>1 DEF SpeechIInv
  <2>2. Cardinality(Answers(diag)) = 1
    BY <2>1, FS_Singleton
  <2>3. QED
    BY <1>1, <2>2 DEF SpeechIInv, SpeechIsSound, SpeechIsAccounted, Answers
<1>2. CASE phase # "done"
  <2>1. Cardinality(Answers(diag)) = 0
    BY <1>2, FS_EmptySet DEF SpeechIInv
  <2>2. QED
    BY <1>2, <2>1 DEF SpeechIInv, SpeechIsSound, SpeechIsAccounted, Answers
<1>3. QED
  BY <1>1, <1>2

\* tts.rs: whatever the provider synthesizes and however late the clock ticks,
\* paced speech fits its queue, no frame is dropped, the words stored with a
\* message lie inside its audio, the agent speaks exactly while a clip is made
\* or played, and a message is answered once.
THEOREM SpeechStaysSound == SpeechSpec => []SpeechIsSound
<1>1. SpeechInit => SpeechIInv
  <2>1. ASSUME SpeechInit
        PROVE  SpeechIInv
    <3>1. samples = 0 /\ Frames \in Nat /\ diag = <<>> /\ chars = <<>> /\ phase = "silent"
      BY <2>1, FramesAreCounted DEF SpeechInit, Frames
    <3>2. Answers(diag) = {} /\ diag \in Seq(Diagnostic) /\ Len(chars) = 0
      BY <3>1 DEF Answers
    <3>3. QED
      BY <2>1, <3>1, <3>2, SpeechBounds DEF SpeechInit, SpeechIInv, SpeechTypeOK, LeadIsKept, PacedSpeechFits, TimingIsInside
  <2>2. QED
    BY <2>1
<1>2. SpeechIInv /\ [SpeechNext]_speechVars => SpeechIInv'
  <2>1. ASSUME SpeechIInv, UNCHANGED speechVars
        PROVE  SpeechIInv'
    BY <2>1 DEF speechVars, SpeechIInv, SpeechTypeOK, LeadIsKept, PacedSpeechFits, TimingIsInside, Frames
  <2>2. QED
    BY <2>1, SpeechNextStep
<1>3. SpeechIInv => SpeechIsSound
  BY SpeechIsKept
<1>4. QED
  BY <1>1, <1>2, <1>3, PTL DEF SpeechSpec
=============================================================================

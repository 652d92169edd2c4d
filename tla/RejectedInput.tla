---------------------------- MODULE RejectedInput ---------------------------
(***************************************************************************)
(* The messages of one participant's game sockets that are turned down:    *)
(* two token buckets, one per socket and one per participant, and windows  *)
(* that keep the record of repeated rejections small (websocket_loop,      *)
(* handle_client_message, persist_rejected_input).  A participant may have *)
(* several sockets at a time: an older one goes on with the message it has *)
(* in hand while the newest takes over, closes and records what is left.   *)
(***************************************************************************)
EXTENDS Integers, FiniteSets

CONSTANTS Wire,          \* the sockets, in the order they are opened
          WireBurst, WireRate, ChatBurst, ChatRate,   \* TokenBucket::new
          Window,        \* seconds between two records of a reason (60)
          MaxSeconds, MaxMessages   \* bounds: time, messages received
ASSUME InputAssumption ==
    /\ {WireBurst, WireRate, ChatBurst, ChatRate, Window, MaxSeconds, MaxMessages} \subseteq Nat
    /\ Wire \subseteq Nat \ {0} /\ IsFiniteSet(Wire)

Reason == {"transport_pacing", "human_pacing", "refused"}

VARIABLES second,
          wires,        \* websocket_loop of each socket
          registered,   \* the socket in game_connections, 0 if none
          chatBudget,   \* chat_submission_budgets of the participant
          windows,      \* rejection_windows of the participant
          tally         \* history: messages received, accepted and turned down;
                        \* records, rejections recorded or lost, flushes, strays
inputVars == <<second, wires, registered, chatBudget, windows, tally>>

\* A bucket's tokens and the time they were last counted.
Full(burst) == [tokens |-> burst, at |-> second]
\* phase of the loop, its own bucket, the rejection in hand (count 0: not yet
\* counted), the rejections it is flushing
Closed == [phase |-> "none", budget |-> [tokens |-> 0, at |-> 0], reason |-> "refused", count |-> 0,
           rest |-> [r \in Reason |-> 0]]
NoWindow == [open |-> FALSE, persisted |-> 0, occurrences |-> 0]

InputInit ==
    /\ second = 0 /\ registered = 0 /\ wires = [w \in Wire |-> Closed]
    /\ chatBudget = Full(ChatBurst) /\ windows = [r \in Reason |-> NoWindow]
    /\ tally = [received |-> 0, accepted |-> 0, flushes |-> 0, strays |-> 0,
                rejected |-> [r \in Reason |-> 0], records |-> [r \in Reason |-> 0],
                recorded |-> [r \in Reason |-> 0], lost |-> [r \in Reason |-> 0]]

SecondPasses ==
    /\ second < MaxSeconds /\ second' = second + 1
    /\ UNCHANGED <<wires, registered, chatBudget, windows, tally>>

\* register_connection, and the message loop with a bucket of its own.  The
\* participant's chat bucket is not touched.
MutFreshChat(w) == chatBudget' = Full(ChatBurst)
KeepsChat(w) == UNCHANGED chatBudget
OpenWire(w) ==
    /\ wires[w].phase = "none" /\ \A v \in Wire : v < w => wires[v].phase # "none"
    /\ registered' = w /\ KeepsChat(w)
    /\ wires' = [wires EXCEPT ![w] = [Closed EXCEPT !.phase = "reading", !.budget = Full(WireBurst)]]
    /\ UNCHANGED <<second, windows, tally>>

-----------------------------------------------------------------------------
(* A message.                                                              *)

\* TokenBucket::consume: the tokens after the refill, and the bucket after it.
MutRefillsTwice(b, burst, rate) == [tokens |-> b.tokens + (second - b.at + 1) * rate, at |-> second]
Refilled(b, burst, rate) ==
    LET t == b.tokens + (second - b.at) * rate IN [tokens |-> IF t < burst THEN t ELSE burst, at |-> second]
Spent(b) == [b EXCEPT !.tokens = IF @ >= 1 THEN @ - 1 ELSE @]

\* websocket_loop and handle_client_message up to the verdict.  kind: a chat
\* message of legal size; an overlong one, or an action that is refused ("bad");
\* a heartbeat, a declaration, an accepted action or text that is no message at
\* all, of which no record is kept ("other").  A frame beyond 64 KiB is a
\* CloseWire.
Verdict(own, chat, kind) ==
    IF own.tokens < 1 THEN {"transport_pacing"}
    ELSE IF kind = "bad" THEN {"refused"}
    ELSE IF kind = "chat" /\ chat.tokens < 1 THEN {"human_pacing"} ELSE {}
Receive(w, kind) ==
    LET own  == Refilled(wires[w].budget, WireBurst, WireRate)
        chat == Refilled(chatBudget, ChatBurst, ChatRate)
        verdict == Verdict(own, chat, kind) IN
    /\ wires[w].phase = "reading" /\ tally.received < MaxMessages
    /\ chatBudget' = IF kind = "chat" /\ own.tokens >= 1 THEN Spent(chat) ELSE chatBudget
    /\ \/ /\ verdict = {}
          /\ wires' = [wires EXCEPT ![w].budget = Spent(own)]
          /\ tally' = [tally EXCEPT !.received = @ + 1, !.accepted = IF kind = "chat" THEN @ + 1 ELSE @]
       \/ \E r \in verdict :
            /\ wires' = [wires EXCEPT ![w].budget = Spent(own), ![w].phase = "counting", ![w].reason = r]
            /\ tally' = [tally EXCEPT !.received = @ + 1, !.rejected[r] = @ + 1]
    /\ UNCHANGED <<second, registered, windows>>

\* persist_rejected_input: under the guard of the windows one rejection is
\* counted, and either only that, or all counted so far become a record.
MutForgetsTime(r) == [open |-> TRUE, persisted |-> windows[r].persisted, occurrences |-> 0]
Emptied(r) == [open |-> TRUE, persisted |-> second, occurrences |-> 0]
Due(r) == ~windows[r].open \/ windows[r].persisted <= second - Window
Count(w) ==
    LET r == wires[w].reason
        n == windows[r].occurrences + 1 IN
    /\ wires[w].phase = "counting"
    /\ IF Due(r)
       THEN /\ windows' = [windows EXCEPT ![r] = Emptied(r)]
            /\ wires' = [wires EXCEPT ![w].phase = "writing", ![w].count = n]
       ELSE /\ windows' = [windows EXCEPT ![r].occurrences = n]
            /\ wires' = [wires EXCEPT ![w].phase = "reading"]
    /\ tally' = IF registered = w THEN tally ELSE [tally EXCEPT !.strays = @ + 1]
    /\ UNCHANGED <<second, registered, chatBudget>>

\* persist_session_event: a failure of the store is logged and forgotten.
Written(r, n) == [tally EXCEPT !.records[r] = @ + 1, !.recorded[r] = @ + n]
NotWritten(r, n) == [tally EXCEPT !.lost[r] = @ + n]
WriteRecord(w) ==
    /\ wires[w].phase = "writing"
    /\ wires' = [wires EXCEPT ![w].phase = "reading", ![w].count = 0]
    /\ tally' \in {Written(wires[w].reason, wires[w].count), NotWritten(wires[w].reason, wires[w].count)}
    /\ UNCHANGED <<second, registered, chatBudget, windows>>

-----------------------------------------------------------------------------
(* The end of a socket.                                                    *)

\* unregister_connection: only the registered socket goes on to the flush.
MutNobodyFlushes(w) == FALSE
StillOwner(w) == registered = w
CloseWire(w) ==
    /\ wires[w].phase = "reading"
    /\ registered' = IF registered = w THEN 0 ELSE registered
    /\ wires' = [wires EXCEPT ![w].phase = IF StillOwner(w) THEN "closing" ELSE "gone"]
    /\ UNCHANGED <<second, chatBudget, windows, tally>>

\* flush_rejected_input_aggregates: the windows are taken out, and what they
\* counted is written one by one.
MutDropsCounts(w) == [r \in Reason |-> 0]
Taken(w) == [r \in Reason |-> windows[r].occurrences]
FlushWindows(w) ==
    /\ wires[w].phase = "closing"
    /\ wires' = [wires EXCEPT ![w].phase = "flushing", ![w].rest = Taken(w)]
    /\ windows' = [r \in Reason |-> NoWindow]
    /\ tally' = [tally EXCEPT !.flushes = @ + 1]
    /\ UNCHANGED <<second, registered, chatBudget>>
WriteRest(w, r) ==
    /\ wires[w].phase = "flushing" /\ wires[w].rest[r] > 0
    /\ wires' = [wires EXCEPT ![w].rest[r] = 0]
    /\ tally' \in {Written(r, wires[w].rest[r]), NotWritten(r, wires[w].rest[r])}
    /\ UNCHANGED <<second, registered, chatBudget, windows>>
FinishWire(w) ==
    /\ wires[w].phase = "flushing" /\ \A r \in Reason : wires[w].rest[r] = 0
    /\ wires' = [wires EXCEPT ![w].phase = "gone"]
    /\ UNCHANGED <<second, registered, chatBudget, windows, tally>>

InputNext ==
    \/ SecondPasses
    \/ \E w \in Wire : OpenWire(w) \/ Count(w) \/ WriteRecord(w) \/ CloseWire(w) \/ FlushWindows(w) \/ FinishWire(w)
    \/ \E w \in Wire, kind \in {"chat", "bad", "other"} : Receive(w, kind)
    \/ \E w \in Wire, r \in Reason : WriteRest(w, r)

InputSpec == InputInit /\ [][InputNext]_inputVars

-----------------------------------------------------------------------------
(* Properties. *)

InHand(w, r) ==
    (IF wires[w].phase = "counting" /\ wires[w].reason = r THEN 1 ELSE 0)
    + (IF wires[w].phase = "writing" /\ wires[w].reason = r THEN wires[w].count ELSE 0) + wires[w].rest[r]
\* Each of them once, by the socket that has it.
TotalInHand(r) == Cardinality(UNION {{w} \X (1..InHand(w, r)) : w \in Wire})

\* No rejection is counted twice or dropped by the coalescing: each is in a
\* record, in a window, in the hands of a socket, or was lost with a failed
\* write, however sockets and flushes interleave (persist_rejected_input,
\* flush_rejected_input_aggregates).
RejectionsAddUp ==
    \A r \in Reason :
        tally.rejected[r] = tally.recorded[r] + tally.lost[r] + windows[r].occurrences + TotalInHand(r)

\* Repetition does not fill the log: a reason has one record per window of time,
\* one more after each flush and one written by it.
RecordsAreSparse == \A r \in Reason : Window * (tally.records[r] - 1 - 2 * tally.flushes) <= second

\* Reconnecting buys nobody a faster chat: accepted messages stay within the
\* burst and the rate of one bucket whatever sockets they came from (the budget
\* is the participant's, not the socket's).
ChatIsPaced == tally.accepted <= ChatBurst + second * ChatRate

\* Once all sockets are gone only rejections that a superseded socket counted
\* can be left unrecorded in a window (the flush of the last owner).
OnlyStraysAreLeft ==
    (\A w \in Wire : wires[w].phase \in {"none", "gone"}) =>
        \A r \in Reason : windows[r].occurrences <= tally.strays

\* Refused input is counted exactly once, recorded sparsely and left over only by
\* a socket that had been superseded; nobody gets a fresh chat allowance by
\* connecting again (persist_rejected_input and its flush).
RefusalsAreAccounted ==
    RejectionsAddUp /\ RecordsAreSparse /\ ChatIsPaced /\ OnlyStraysAreLeft
=============================================================================

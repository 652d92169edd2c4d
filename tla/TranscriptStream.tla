-------------------------- MODULE TranscriptStream --------------------------
(***************************************************************************)
(* One speaker's transcription: the audio socket's loop supplies frames,   *)
(* the provider's task turns them into final utterances, the event task    *)
(* maps them to capture time and commits them to the session's log         *)
(* (app.rs audio_websocket_loop, commit_final_transcript; transcription.rs).*)
(* The three run concurrently and meet in two bounded queues and one lock. *)
(***************************************************************************)
EXTENDS TranscriptionClock, SequencesExt

CONSTANTS Timestamps,     \* capture times a browser may put on a frame
          MaxSeq,         \* sequence numbers of one connection
          InputCap,       \* 250: frames queued for the provider
          EventCap,       \* 64: events queued for the event task
          MaxFragments    \* bound: fragments the provider produces

ASSUME StreamAssumption ==
    /\ {MaxSeq, InputCap, EventCap, MaxFragments} \subseteq Nat \ {0}
    /\ Timestamps \subseteq Nat

VARIABLES
    active,      \* session_is_active: Running and not paused
    sock,        \* the loop: open or closed, last sequence and timestamp, frame in hand
    supplied,    \* capture times of the frames the provider's queue accepted
    prov,        \* the provider's task: phase, queued frames, frames heard, fragments
    events,      \* TranscriptionEvents on their way to the event task
    clock,       \* TranscriptionClock
    origin,      \* transcription_stream_started_at is set
    task,        \* the event task: what it does, the utterance in hand
    ready,       \* audio_ready of the participant
    keys,        \* committed_transcripts
    log,         \* conversation messages stored for this stream
    refused      \* an utterance the clock did not know how to place

streamVars == <<active, sock, supplied, prov, events, clock, origin, task, ready, keys, log, refused>>

NoFrame == [seq |-> 0, ts |-> NoTime]
NoUtterance == [ids |-> <<>>, start |-> NoTime, end |-> NoTime, tokens |-> {}, source |-> {}]

StreamInit ==
    /\ active \in BOOLEAN
    /\ sock = [loop |-> "open", last |-> NoFrame, hand |-> NoFrame]
    /\ supplied = <<>>
    /\ prov \in [phase : {"connecting"}, queued : {0}, heard : {0}, pending : {<<>>},
                 made : {0}, from : {0}, silence : BOOLEAN]
    /\ events = <<>> /\ clock = NewClock /\ origin = FALSE
    /\ task = [pc |-> "idle", utterance |-> NoUtterance]
    /\ ready = FALSE /\ keys = {} /\ log = <<>> /\ refused = FALSE

\* The session is paused, resumed or ended while audio is in flight.
SessionChanges ==
    /\ task.pc \notin {"done", "aborted"}
    /\ active' = ~active
    /\ UNCHANGED <<sock, supplied, prov, events, clock, origin, task, ready, keys, log, refused>>

-----------------------------------------------------------------------------
(* The socket's loop. *)

\* A frame is dropped unless it is newer than the last one; then the loop
\* asks whether the session is active.
TimingValid(f) == f.seq > sock.last.seq /\ f.ts >= sock.last.ts

ReceiveFrame(f) ==
    /\ sock.loop = "open" /\ sock.hand = NoFrame /\ f.seq <= MaxSeq
    /\ TimingValid(f)
    /\ sock' = [sock EXCEPT !.last = f, !.hand = IF active THEN f ELSE NoFrame]
    /\ UNCHANGED <<active, supplied, prov, events, clock, origin, task, ready, keys, log, refused>>

\* With the clock locked: try_send, then the stream's origin, then record; a
\* full queue drops the frame and the clock does not move.
MutRecordDropped ==
    /\ sock.hand # NoFrame
    /\ sock' = [sock EXCEPT !.hand = NoFrame]
    /\ clock' = record(clock, sock.hand.ts)
    /\ IF prov.queued < InputCap /\ prov.phase # "ended"
       THEN /\ prov' = [prov EXCEPT !.queued = @ + 1]
            /\ supplied' = Append(supplied, sock.hand.ts)
            /\ origin' = TRUE
       ELSE UNCHANGED <<prov, supplied, origin>>
    /\ UNCHANGED <<active, events, task, ready, keys, log, refused>>
SupplyFrame ==
    /\ sock.hand # NoFrame
    /\ sock' = [sock EXCEPT !.hand = NoFrame]
    /\ IF prov.queued < InputCap /\ prov.phase # "ended"
       THEN /\ prov' = [prov EXCEPT !.queued = @ + 1]
            /\ supplied' = Append(supplied, sock.hand.ts)
            /\ origin' = TRUE
            /\ clock' = record(clock, sock.hand.ts)
       ELSE UNCHANGED <<prov, supplied, origin, clock>>
    /\ UNCHANGED <<active, events, task, ready, keys, log, refused>>

\* The socket is closed or superseded: Finish is queued or, after two
\* seconds, dropped with the queue's sender; either way the writer comes to
\* the end of its input.
CloseSocket ==
    /\ sock.loop = "open" /\ sock.hand = NoFrame
    /\ sock' = [sock EXCEPT !.loop = "closed"]
    /\ UNCHANGED <<active, supplied, prov, events, clock, origin, task, ready, keys, log, refused>>

\* Five seconds later an event task that has not ended is aborted.
AbortTask ==
    /\ sock.loop = "closed" /\ task.pc \notin {"done", "aborted"}
    /\ task' = [task EXCEPT !.pc = "aborted"]
    /\ UNCHANGED <<active, sock, supplied, prov, events, clock, origin, ready, keys, log, refused>>

-----------------------------------------------------------------------------
(* The provider's task. *)

Event(kind, u) == [kind |-> kind, utterance |-> u]
Deliver(e) == /\ Len(events) < EventCap /\ task.pc # "aborted"
              /\ events' = Append(events, e)

RecognitionStarted ==
    /\ prov.phase = "connecting" /\ Deliver(Event("ready", NoUtterance))
    /\ prov' = [prov EXCEPT !.phase = "started"]
    /\ UNCHANGED <<active, sock, supplied, clock, origin, task, ready, keys, log, refused>>

\* A refused start, an Error message, an invalid final or a lost connection.
ProviderFails ==
    /\ prov.phase \in {"connecting", "started"} /\ Deliver(Event("failed", NoUtterance))
    /\ prov' = [prov EXCEPT !.phase = "ended", !.pending = <<>>]
    /\ UNCHANGED <<active, sock, supplied, clock, origin, task, ready, keys, log, refused>>

\* The writer sends queued frames once recognition has started.
MutSendTwice ==
    /\ prov.phase = "started" /\ prov.queued > 0 /\ task.pc # "aborted"
    /\ prov' = [prov EXCEPT !.heard = @ + 1]
    /\ UNCHANGED <<active, sock, supplied, events, clock, origin, task, ready, keys, log, refused>>
WriteFrame ==
    /\ prov.phase = "started" /\ prov.queued > 0 /\ task.pc # "aborted"
    /\ prov' = [prov EXCEPT !.queued = @ - 1, !.heard = @ + 1]
    /\ UNCHANGED <<active, sock, supplied, events, clock, origin, task, ready, keys, log, refused>>

\* take_utterance: the fragments since the last boundary as one utterance.
take_utterance(parts) ==
    LET start == Min({p.start : p \in ToSet(parts)})
        end   == Max({p.end : p \in ToSet(parts)})
        words == UNION {p.tokens : p \in ToSet(parts)}
    IN  [ids |-> FlattenSeq([i \in DOMAIN parts |-> IF parts[i].id = 0 THEN <<>> ELSE <<parts[i].id>>]),
         start |-> start, end |-> end, tokens |-> words,
         source |-> {[start |-> start, end |-> end, tokens |-> words]}]

\* parse_fragment: a final covers audio the provider has heard, in the order
\* of that audio; here it has one word and one mark, which is a point, and
\* finals that are grouped by silence have ids.  (A final of no length on the
\* edge of a gap would be refused as reversed.)
Fragments ==
    {[id |-> IF prov.silence THEN prov.made + 1 ELSE 0, start |-> s, end |-> e,
      tokens |-> {[start |-> s, end |-> e], [start |-> s, end |-> s]}] :
        s \in prov.from..(prov.heard * FrameMs), e \in prov.from..(prov.heard * FrameMs)}
ValidFragment(f) == f.start < f.end

AddTranscript(f) ==
    /\ prov.phase = "started" /\ prov.heard > 0 /\ prov.made < MaxFragments /\ task.pc # "aborted"
    /\ ValidFragment(f)
    /\ IF prov.silence
       THEN /\ prov' = [prov EXCEPT !.pending = Append(@, f), !.made = @ + 1, !.from = f.start]
            /\ UNCHANGED events
       ELSE /\ Deliver(Event("final", take_utterance(<<f>>)))
            /\ prov' = [prov EXCEPT !.made = @ + 1, !.from = f.start]
    /\ UNCHANGED <<active, sock, supplied, clock, origin, task, ready, keys, log, refused>>

\* flush_utterance at EndOfUtterance.
EndOfUtterance ==
    /\ prov.phase = "started" /\ prov.pending # <<>>
    /\ Deliver(Event("final", take_utterance(prov.pending)))
    /\ prov' = [prov EXCEPT !.pending = <<>>]
    /\ UNCHANGED <<active, sock, supplied, clock, origin, task, ready, keys, log, refused>>

\* The writer has sent everything and EndOfStream: what is left is flushed.
EndOfTranscript ==
    /\ prov.phase = "started" /\ sock.loop = "closed" /\ prov.queued = 0 /\ task.pc # "aborted"
    /\ IF prov.pending = <<>> THEN UNCHANGED events
       ELSE Deliver(Event("final", take_utterance(prov.pending)))
    /\ prov' = [prov EXCEPT !.phase = "ended", !.pending = <<>>]
    /\ UNCHANGED <<active, sock, supplied, clock, origin, task, ready, keys, log, refused>>

-----------------------------------------------------------------------------
(* The event task. *)

TakeReady ==
    /\ task.pc = "idle" /\ events # <<>> /\ Head(events).kind = "ready"
    /\ ready' = TRUE /\ events' = Tail(events)
    /\ UNCHANGED <<active, sock, supplied, prov, clock, origin, task, keys, log, refused>>

TakeFailed ==
    /\ task.pc = "idle" /\ events # <<>> /\ Head(events).kind = "failed"
    /\ events' = Tail(events)
    /\ UNCHANGED <<active, sock, supplied, prov, clock, origin, task, ready, keys, log, refused>>

\* A final is mapped and older frames are released, under the clock's lock.
TakeFinal ==
    /\ task.pc = "idle" /\ events # <<>> /\ Head(events).kind = "final"
    /\ LET u == Head(events).utterance IN
       IF mapped(clock, u) /\ origin
       THEN /\ task' = [pc |-> "commit", utterance |-> map(clock, u)]
            /\ clock' = discard_before(clock, u.start)
            /\ UNCHANGED refused
       ELSE refused' = TRUE /\ UNCHANGED <<task, clock>>
    /\ events' = Tail(events)
    /\ UNCHANGED <<active, sock, supplied, prov, origin, ready, keys, log>>

\* The identity of an utterance: the provider's ids, or its interval.
Key(u) == <<u.ids, IF u.ids = <<>> THEN <<u.start, u.end>> ELSE <<>>>>

\* commit_final_transcript up to the key: an inactive session refuses the
\* transcript, a known key ends quietly.
ReserveKey ==
    /\ task.pc = "commit"
    /\ IF active /\ Key(task.utterance) \notin keys
       THEN keys' = keys \cup {Key(task.utterance)} /\ task' = [task EXCEPT !.pc = "store"]
       ELSE task' = [task EXCEPT !.pc = "idle"] /\ UNCHANGED keys
    /\ UNCHANGED <<active, sock, supplied, prov, events, clock, origin, ready, log, refused>>

\* commit_conversation_message: checked again and appended to the log.
StoreMessage ==
    /\ task.pc = "store" /\ active
    /\ log' = Append(log, task.utterance)
    /\ task' = [task EXCEPT !.pc = "idle"]
    /\ UNCHANGED <<active, sock, supplied, prov, events, clock, origin, ready, keys, refused>>

\* The session is no longer active or the store fails: the key is returned.
MutKeepKey ==
    /\ task.pc = "store"
    /\ task' = [task EXCEPT !.pc = "idle"]
    /\ UNCHANGED <<active, sock, supplied, prov, events, clock, origin, ready, keys, log, refused>>
ReturnKey ==
    /\ task.pc = "store"
    /\ keys' = keys \ {Key(task.utterance)}
    /\ task' = [task EXCEPT !.pc = "idle"]
    /\ UNCHANGED <<active, sock, supplied, prov, events, clock, origin, ready, log, refused>>

\* The provider's sender is gone and the queue is empty.
TaskEnds ==
    /\ task.pc = "idle" /\ events = <<>> /\ prov.phase = "ended"
    /\ task' = [task EXCEPT !.pc = "done"]
    /\ UNCHANGED <<active, sock, supplied, prov, events, clock, origin, ready, keys, log, refused>>

StreamNext ==
    \/ SessionChanges \/ SupplyFrame \/ CloseSocket \/ AbortTask
    \/ \E seq \in {sock.last.seq, sock.last.seq + 1}, ts \in Timestamps : ReceiveFrame([seq |-> seq, ts |-> ts])
    \/ RecognitionStarted \/ ProviderFails \/ WriteFrame \/ EndOfUtterance \/ EndOfTranscript
    \/ \E f \in Fragments : AddTranscript(f)
    \/ TakeReady \/ TakeFailed \/ TakeFinal \/ ReserveKey \/ StoreMessage \/ ReturnKey \/ TaskEnds

StreamSpec == StreamInit /\ [][StreamNext]_streamVars

-----------------------------------------------------------------------------
Frame == [seq : 0..MaxSeq, ts : Timestamps \cup {NoTime}]
StreamTypeOK ==
    /\ active \in BOOLEAN /\ origin \in BOOLEAN /\ ready \in BOOLEAN /\ refused \in BOOLEAN
    /\ sock \in [loop : {"open", "closed"}, last : Frame, hand : Frame]
    /\ supplied \in Seq(Timestamps)
    /\ prov.phase \in {"connecting", "started", "ended"} /\ prov.queued \in 0..InputCap
    /\ prov.heard + prov.queued = Len(supplied)
    /\ Len(events) <= EventCap
    /\ task.pc \in {"idle", "commit", "store", "done", "aborted"}

\* A stored transcript has the time at which its words were captured, whatever
\* was paused, dropped, jittered or already released from the clock.
TimesAreCaptureTimes ==
    \A i \in DOMAIN log : \A s \in log[i].source :
        /\ log[i].start = TrueStart(supplied, s.start)
        /\ log[i].end = TrueEnd(supplied, s.end)

\* Words that are longer than a point lie inside their utterance.
WordsLieInside ==
    \A i \in DOMAIN log : \A k \in log[i].tokens :
        k.start < k.end => log[i].start <= k.start /\ k.end <= log[i].end

\* The clock still knows every utterance the provider may produce: what it
\* has released is never needed again.
NothingHeardIsRefused == ~refused

\* A key is taken exactly for a stored transcript, or for the one the event
\* task has in hand (or had when it was aborted); nothing is stored twice.
KeysMatchLog ==
    /\ keys \subseteq {Key(log[i]) : i \in DOMAIN log}
           \cup (IF task.pc \in {"store", "aborted"} THEN {Key(task.utterance)} ELSE {})
    /\ \A i, j \in DOMAIN log : Key(log[i]) = Key(log[j]) => i = j

\* What is stored of speech is what was captured, at the time it was captured,
\* once: the provider's queue, the clock and the keys of the commit agree.
TranscriptIsTrue ==
    /\ StreamTypeOK
    /\ TimesAreCaptureTimes /\ WordsLieInside /\ NothingHeardIsRefused /\ KeysMatchLog
=============================================================================

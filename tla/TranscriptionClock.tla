------------------------- MODULE TranscriptionClock -------------------------
(***************************************************************************)
(* The correspondence between the audio a transcription provider was given *)
(* and the time at which the browser captured it (transcription/clock.rs). *)
(* The provider counts only the samples it received; frames that were not  *)
(* supplied (a pause, a full queue) leave gaps in capture time.            *)
(***************************************************************************)
EXTENDS Integers, Sequences, FiniteSets, FiniteSetsExt

CONSTANT FrameMs   \* AUDIO_FRAME_DURATION_MS

ASSUME FrameAssumption == FrameMs \in Nat \ {0}

NoTime == -1
Refused == -2

\* TranscriptionClock::default
NewClock == [frames |-> <<>>, first |-> NoTime, end |-> 0]

\* record: one frame the provider's queue accepted, captured at ts.  Frames
\* closer together than their length are pushed apart.
record(c, ts) ==
    LET origin == IF c.first = NoTime THEN ts ELSE c.first
        frames == c.frames
        at     == IF frames = <<>> THEN ts - origin
                  ELSE Max({ts - origin, frames[Len(frames)].capture + FrameMs})
    IN  [frames |-> Append(frames, [audio |-> c.end, capture |-> at]),
         first |-> origin, end |-> c.end + FrameMs]

\* boundary: a start at the edge of two frames belongs to the later one, an
\* end to the earlier one.
boundary(c, t, end) ==
    LET Holds(f) == f.audio < t \/ (~end /\ f.audio = t) \/ (t = 0 /\ f.audio = 0)
        which    == {i \in 1..Len(c.frames) : Holds(c.frames[i])}
    IN  IF t \notin 0..c.end \/ which = {} THEN Refused
        ELSE c.frames[Max(which)].capture + t - c.frames[Max(which)].audio

MutTokenEdge(c, k) == [start |-> boundary(c, k.start, TRUE), end |-> boundary(c, k.end, TRUE)]
mapToken(c, k) ==
    LET point == k.start = k.end
        start == boundary(c, k.start, point)
    IN  [start |-> start, end |-> IF point THEN start ELSE boundary(c, k.end, TRUE)]

\* map: an utterance and its tokens, or nothing when one boundary is unknown.
map(c, u) == [u EXCEPT !.start = boundary(c, @, FALSE), !.end = boundary(c, @, TRUE),
                       !.tokens = {mapToken(c, k) : k \in @}]
mapped(c, u) ==
    LET v == map(c, u) IN
    /\ v.start # Refused /\ v.end # Refused /\ v.start <= v.end
    /\ \A k \in v.tokens : k.start # Refused /\ k.end # Refused

\* discard_before: frames wholly before the latest utterance are released,
\* the one that touches its start is kept.
MutDiscardTouching(c, start) ==
    LET gone == {i \in 1..Len(c.frames) - 1 : c.frames[i + 1].audio <= start}
    IN  [c EXCEPT !.frames = SubSeq(@, Cardinality(gone) + 1, Len(@))]
discard_before(c, start) ==
    LET gone == {i \in 1..Len(c.frames) - 1 : c.frames[i + 1].audio < start}
    IN  [c EXCEPT !.frames = SubSeq(@, Cardinality(gone) + 1, Len(@))]

-----------------------------------------------------------------------------
\* What the clock should say, from the capture times ts of all frames that
\* were supplied: frame i is heard no earlier than it was captured and no
\* earlier than the frames before it have played.
CaptureOf(ts, i) == Max({ts[j] - ts[1] + FrameMs * (i - j) : j \in 1..i})
TrueStart(ts, t) == LET i == Min({t \div FrameMs + 1, Len(ts)})
                    IN  CaptureOf(ts, i) + t - FrameMs * (i - 1)
TrueEnd(ts, t) == LET i == IF t = 0 THEN 1 ELSE (t - 1) \div FrameMs + 1
                  IN  CaptureOf(ts, i) + t - FrameMs * (i - 1)
=============================================================================

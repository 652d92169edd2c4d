------------------------------- MODULE Speech -------------------------------
(***************************************************************************)
(* An agent's message spoken aloud (app.rs speak_agent_message,            *)
(* record_agent_speech_timing; tts.rs; audio_publisher.rs): synthesis, the *)
(* grouping of timed characters into words, paced publication into the     *)
(* browser's bounded queue, and the timing that is stored.                 *)
(* Time is in frames' lengths; one sample is the unit of alignment.        *)
(***************************************************************************)
EXTENDS Integers, Sequences, FiniteSets, FiniteSetsExt, SequencesExt

CONSTANTS FrameSamples,   \* AUDIO_FRAME_BYTES, in samples
          Prebuffer,      \* prebuffer_frames of the publisher
          SpeechCap,      \* AUDIO_OUTBOUND_QUEUE_CAPACITY
          MaxChars, MaxSamples   \* bounds: what one synthesis returns

\* The configuration allows a jitter buffer of 5000 ms, 250 frames, while the
\* queue has 64: what follows is about buffers that fit.
ASSUME SpeechAssumption == /\ {FrameSamples, Prebuffer, SpeechCap} \subseteq Nat \ {0}
                           /\ {MaxChars, MaxSamples} \subseteq Nat /\ Prebuffer <= SpeechCap

VARIABLES
    phase,      \* silent, synthesizing, publishing, done
    chars,      \* characters aligned so far: [cls, start, end]
    samples,    \* PCM received so far
    tokens,     \* alignment_tokens of the finished synthesis
    index,      \* frames published
    elapsed,    \* frame times since publication started
    waiting,    \* frames in the browser's outbound queue
    dropped,    \* frames try_send refused
    speaking,   \* tts requests in flight (telemetry)
    diag,       \* tts diagnostics of the session's event stream
    timing      \* the stored conversation_speech_timing

speechVars == <<phase, chars, samples, tokens, index, elapsed, waiting, dropped, speaking, diag, timing>>

SpeechInit ==
    /\ phase = "silent" /\ chars = <<>> /\ samples = 0 /\ tokens = <<>> /\ index = 0
    /\ elapsed = 0 /\ waiting = 0 /\ dropped = 0 /\ speaking = 0 /\ diag = <<>> /\ timing = {}

-----------------------------------------------------------------------------
(* alignment_tokens *)

Class == {"letter", "space", "hyphen", "mark"}
Token(kind, start, end) == [kind |-> kind, start |-> start, end |-> end]

\* One pass over the characters: state [open, tokens] after the first i.
MutSplitAtHyphen(cs) == 
    LET After[i \in 0..Len(cs)] ==
        IF i = 0 THEN [open |-> FALSE, out |-> <<>>]
        ELSE LET was == After[i - 1]
                 c == cs[i]
                 t == was.out[Len(was.out)]
             IN  CASE c.cls = "space" -> [was EXCEPT !.open = FALSE]
                   [] c.cls = "letter" /\ was.open ->
                        [was EXCEPT !.out[Len(was.out)].end = Max({t.end, c.end})]
                   [] c.cls = "letter" /\ ~was.open ->
                        [open |-> TRUE, out |-> Append(was.out, Token("word", c.start, c.end))]
                   [] OTHER ->
                        [open |-> FALSE, out |-> Append(was.out, Token("mark", c.start, c.start))]
    IN  After[Len(cs)].out
alignment_tokens(cs) ==
    LET After[i \in 0..Len(cs)] ==
        IF i = 0 THEN [open |-> FALSE, out |-> <<>>]
        ELSE LET was == After[i - 1]
                 c == cs[i]
                 t == was.out[Len(was.out)]
                 connector == /\ c.cls = "hyphen" /\ was.open
                              /\ i < Len(cs) /\ cs[i + 1].cls = "letter"
             IN  CASE c.cls = "space" -> [was EXCEPT !.open = FALSE]
                   [] (c.cls = "letter" \/ connector) /\ was.open ->
                        [was EXCEPT !.out[Len(was.out)].end = Max({t.end, c.end})]
                   [] c.cls = "letter" /\ ~was.open ->
                        [open |-> TRUE, out |-> Append(was.out, Token("word", c.start, c.end))]
                   [] OTHER ->
                        [open |-> FALSE, out |-> Append(was.out, Token("mark", c.start, c.start))]
    IN  After[Len(cs)].out

\* The same from the text as a whole: a word is a maximal stretch of letters
\* and of hyphens between two letters.
InWord(cs, i) ==
    \/ cs[i].cls = "letter"
    \/ /\ cs[i].cls = "hyphen" /\ i > 1 /\ i < Len(cs)
       /\ cs[i - 1].cls = "letter" /\ cs[i + 1].cls = "letter"
Words(cs) ==
    {w \in (1..Len(cs)) \X (1..Len(cs)) :
        /\ w[1] <= w[2] /\ \A i \in w[1]..w[2] : InWord(cs, i)
        /\ w[1] = 1 \/ ~InWord(cs, w[1] - 1)
        /\ w[2] = Len(cs) \/ ~InWord(cs, w[2] + 1)}

-----------------------------------------------------------------------------
(* speak_agent_message *)

BeginSpeech ==
    /\ phase = "silent"
    /\ phase' = "synthesizing" /\ speaking' = speaking + 1
    /\ diag' = Append(diag, "started")
    /\ UNCHANGED <<chars, samples, tokens, index, elapsed, waiting, dropped, timing>>

\* One provider message: aligned characters, whose clock runs through all
\* messages, and some PCM.
ProviderChunk(c, n) ==
    /\ phase = "synthesizing" /\ Len(chars) + Len(c) <= MaxChars /\ samples + n <= MaxSamples
    /\ Len(c) + n > 0
    /\ chars' = chars \o c /\ samples' = samples + n
    /\ UNCHANGED <<phase, tokens, index, elapsed, waiting, dropped, speaking, diag, timing>>

\* No token of an accepted alignment is later than the audio.
Inside(ts, end) == \A i \in DOMAIN ts : ts[i].start <= end /\ ts[i].end <= end

\* A provider error, a clock that runs backwards, an early close, an alignment
\* past the audio, or sixty seconds without an end.
SynthesisFails ==
    /\ phase = "synthesizing"
    /\ phase' = "done" /\ speaking' = speaking - 1
    /\ diag' = Append(diag, "failed")
    /\ UNCHANGED <<chars, samples, tokens, index, elapsed, waiting, dropped, timing>>

\* isFinal: the diagnostics of the audio and the start of publication.
MutUncheckedAlignment ==
    /\ phase = "synthesizing"
    /\ tokens' = alignment_tokens(chars)
    /\ diag' = diag \o (IF samples > 0 THEN <<"firstAudio">> ELSE <<>>) \o <<"summary", "publish">>
    /\ phase' = "publishing"
    /\ UNCHANGED <<chars, samples, index, elapsed, waiting, dropped, speaking, timing>>
SynthesisEnds ==
    /\ phase = "synthesizing" /\ Inside(alignment_tokens(chars), samples)
    /\ tokens' = alignment_tokens(chars)
    /\ diag' = diag \o (IF samples > 0 THEN <<"firstAudio">> ELSE <<>>) \o <<"summary", "publish">>
    /\ phase' = "publishing"
    /\ UNCHANGED <<chars, samples, index, elapsed, waiting, dropped, speaking, timing>>

\* publish refuses empty audio and audio of another format than 24 kHz mono;
\* the message is reported as completed all the same.
PublishFails ==
    /\ phase = "publishing" /\ index = 0
    /\ phase' = "done" /\ speaking' = speaking - 1
    /\ diag' = diag \o <<"publishFailed", "completed">>
    /\ UNCHANGED <<chars, samples, tokens, index, elapsed, waiting, dropped, timing>>

\* frame_send_offset: the first Prebuffer frames at once, then one per frame.
Frames == (samples + FrameSamples - 1) \div FrameSamples
MutEagerOffset(i) == Max({0, i - Prebuffer - 1})
frame_send_offset(i) == Max({0, i - (Prebuffer - 1)})
MutUnboundedSpeech ==
    /\ phase = "publishing" /\ index < Frames
    /\ index' = index + 1 /\ waiting' = waiting + 1
    /\ UNCHANGED <<phase, chars, samples, tokens, elapsed, dropped, speaking, diag, timing>>
PublishFrame ==
    /\ phase = "publishing" /\ index < Frames /\ elapsed >= frame_send_offset(index)
    /\ index' = index + 1
    /\ IF waiting < SpeechCap THEN waiting' = waiting + 1 /\ UNCHANGED dropped
       ELSE dropped' = dropped + 1 /\ UNCHANGED waiting
    /\ UNCHANGED <<phase, chars, samples, tokens, elapsed, speaking, diag, timing>>

\* A frame's time passes; the browser takes at least one waiting frame.
FrameTime ==
    /\ phase = "publishing" /\ index < Frames /\ elapsed < frame_send_offset(index)
    /\ elapsed' = elapsed + 1
    /\ waiting' \in 0..Max({0, waiting - 1})
    /\ UNCHANGED <<phase, chars, samples, tokens, index, dropped, speaking, diag, timing>>

\* record_agent_speech_timing, which may fail, and the end of the message.
MutForgetGauge ==
    /\ phase = "publishing" /\ samples > 0 /\ index = Frames
    /\ timing' \in {{}, {[end |-> samples, tokens |-> tokens]}}
    /\ phase' = "done" /\ speaking' = IF timing' = {} THEN speaking ELSE speaking - 1
    /\ diag' = diag \o <<"published", "completed">>
    /\ UNCHANGED <<chars, samples, tokens, index, elapsed, waiting, dropped>>
SpeechRecorded ==
    /\ phase = "publishing" /\ samples > 0 /\ index = Frames
    /\ timing' \in {{}, {[end |-> samples, tokens |-> tokens]}}
    /\ phase' = "done" /\ speaking' = speaking - 1
    /\ diag' = diag \o <<"published", "completed">>
    /\ UNCHANGED <<chars, samples, tokens, index, elapsed, waiting, dropped>>

\* What one provider message may hold: up to two characters, from where the
\* clock is.
ClockNow == IF chars = <<>> THEN 0 ELSE Last(chars).end
CharsFrom(t) == {<<>>} \cup {<<[cls |-> k, start |-> t, end |-> t + 1]>> : k \in Class}
SpeechStep ==
    \/ SynthesisFails \/ SynthesisEnds \/ PublishFails \/ PublishFrame \/ FrameTime \/ SpeechRecorded
SpeechNext ==
    \/ BeginSpeech \/ SpeechStep
    \/ \E c \in CharsFrom(ClockNow), n \in 0..2 : ProviderChunk(c, n)
SpeechSpec == SpeechInit /\ [][SpeechNext]_speechVars

-----------------------------------------------------------------------------
SpeechTypeOK ==
    /\ phase \in {"silent", "synthesizing", "publishing", "done"}
    /\ samples \in 0..MaxSamples /\ Len(chars) <= MaxChars
    /\ index \in 0..Frames /\ elapsed \in Nat
    /\ waiting \in 0..SpeechCap /\ dropped \in Nat

\* The words of a message are whole, however the provider cuts them into
\* messages, and have the time of their letters.
WordsAreWhole ==
    phase = "publishing" =>
        {t \in ToSet(tokens) : t.kind = "word"} =
            {Token("word", chars[w[1]].start, chars[w[2]].end) : w \in Words(chars)}

\* Paced speech is never refused by the queue of a browser that keeps up.
PacedSpeechFits == dropped = 0

\* Stored token times lie inside the speech that was published.
TimingIsInside == \A s \in timing : Inside(s.tokens, s.end)

\* A request is counted while it runs, and one that is over is counted and
\* reported as over, whichever way it ended.
SpeechIsAccounted ==
    /\ speaking = (IF phase \in {"synthesizing", "publishing"} THEN 1 ELSE 0)
    /\ Cardinality({i \in DOMAIN diag : diag[i] \in {"completed", "failed"}}) =
           (IF phase = "done" THEN 1 ELSE 0)

\* An agent's message fits the queue when the browser keeps up, its times lie
\* inside it, and it is accounted for (synthesize to publish).
SpeechIsSound ==
    /\ SpeechTypeOK
    /\ PacedSpeechFits /\ TimingIsInside /\ SpeechIsAccounted
=============================================================================

------------------------------ MODULE MCVoice -------------------------------
(***************************************************************************)
(* The three voice modules in one run.  They share no state that any of    *)
(* their properties reads, so a behaviour is one of Voice, of              *)
(* TranscriptStream or of Speech, and the state space is their sum.        *)
(***************************************************************************)
EXTENDS Voice, TranscriptStream, Speech

VARIABLE part
vars == <<part, voiceVars, streamVars, speechVars>>

RoleOfMC == [s \in Socket |-> IF s = "b1" THEN "B" ELSE "A"]

Init ==
    \/ /\ part = "sockets" /\ VoiceInit /\ StreamInit /\ SpeechInit
       /\ active = TRUE /\ prov.silence = TRUE
    \/ /\ part = "stream" /\ VoiceInit /\ StreamInit /\ SpeechInit
       /\ transcribed = TRUE /\ scene = {"a1", "a2"}
    \/ /\ part = "speech" /\ VoiceInit /\ StreamInit /\ SpeechInit
       /\ active = TRUE /\ prov.silence = TRUE /\ transcribed = TRUE /\ scene = {"a1", "a2"}

SocketPart == part = "sockets" /\ VoiceNext /\ UNCHANGED <<part, streamVars, speechVars>>
StreamPart == part = "stream" /\ StreamNext /\ UNCHANGED <<part, voiceVars, speechVars>>
SpeechPart == part = "speech" /\ SpeechNext /\ UNCHANGED <<part, voiceVars, streamVars>>

Next == SocketPart \/ StreamPart \/ SpeechPart

\* A socket's loop takes its next step when nothing outside holds it up: its
\* awaits end, by an answer or by their timeout.
SocketSteps(s) == Step(s) /\ UNCHANGED <<part, streamVars, speechVars>>

Spec == Init /\ [][Next]_vars /\ \A s \in Socket : WF_vars(SocketSteps(s))
=============================================================================

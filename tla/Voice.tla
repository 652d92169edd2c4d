------------------------------- MODULE Voice --------------------------------
(***************************************************************************)
(* The audio sockets of one live session (app.rs audio_websocket_loop,     *)
(* audio.rs).  A role may open a second socket while its first one lives;  *)
(* a socket enters two registries, one after the other, and leaves them    *)
(* again in the same order: audio_connections, whose newest entry cancels  *)
(* the one before it, and audio_sessions, which owns the outbound queues.  *)
(***************************************************************************)
EXTENDS Integers, Sequences, FiniteSets, FiniteSetsExt

CONSTANTS Socket, RoleOf,     \* sockets, and the role each one was opened for
          Scenes,             \* bound: the sets of sockets that open in one behaviour
          QueueCap,           \* AUDIO_OUTBOUND_QUEUE_CAPACITY
          MaxFrame,           \* bound: sequence numbers of one socket
          MaxSpoken           \* bound: frames of agent speech
ASSUME VoiceAssumption == /\ RoleOf \in [Socket -> {"A", "B"}]
                          /\ QueueCap \in Nat \ {0} /\ {MaxFrame, MaxSpoken} \subseteq Nat /\ Scenes \subseteq SUBSET Socket

Role == {"A", "B"}
Agent == "agent"
None == "none"
ASSUME NamesAssumption == None \notin Socket /\ Agent \notin Socket   \* neither is a socket
other(r) == CHOOSE q \in Role : q # r

VARIABLES
    scene,        \* the sockets that open in this behaviour
    transcribed,  \* config.transcription.enabled
    life,         \* the session, as far as audio depends on it
    control,      \* audio_connections
    peer,         \* audio_sessions
    newest,       \* the socket of each role that entered audio_sessions last
    pc,           \* where a socket's loop is
    told,         \* its shutdown channel
    last,         \* last_sequence
    asr,          \* its transcription session and event task
    audioReady,   \* audio_ready of the participants
    queue,        \* outbound queues
    spoken        \* frames of agent speech published so far

sessionVars == <<scene, transcribed, life, audioReady>>
regVars == <<control, peer, newest>>
voiceVars == <<scene, transcribed, life, control, peer, newest, pc, told, last, asr, audioReady, queue, spoken>>

Sender == Socket \cup {Agent}

VoiceInit ==
    /\ scene \in Scenes /\ transcribed \in BOOLEAN /\ life = "forming"
    /\ control = [r \in Role |-> None] /\ peer = [r \in Role |-> None]
    /\ newest = [r \in Role |-> None]
    /\ pc = [s \in Socket |-> "none"] /\ told = [s \in Socket |-> FALSE]
    /\ last = [s \in Socket |-> 0] /\ asr = [s \in Socket |-> "none"]
    /\ audioReady = [r \in Role |-> FALSE]
    /\ queue = [s \in Socket |-> <<>>]
    /\ spoken = 0

InLoop(s) == pc[s] \in {"loop", "current", "accepts"}

\* try_send into a role's queue: a slow browser loses the message.
MutUnbounded(q, r, m) == IF peer[r] # None THEN [q EXCEPT ![peer[r]] = Append(@, m)] ELSE q
Sent(q, r, m) == IF peer[r] # None /\ Len(q[peer[r]]) < QueueCap
                 THEN [q EXCEPT ![peer[r]] = Append(@, m)] ELSE q
Status == [from |-> None, seq |-> 0]

\* session_accepts_audio: while forming; while running unless paused; after the
\* end until voice_ends_at.  A pause or a deadline may be on either side.
MayAcceptAudio == life \in {"forming", "running", "ended"}
MayRefuseAudio == life \in {"running", "ended"}

-----------------------------------------------------------------------------
(* The session around the sockets: LiveSession has it in full. *)

\* session_ready_for_game: required recognition has started for both roles.
StartGame == /\ life = "forming" /\ (transcribed => \A r \in Role : audioReady[r])
             /\ life' = "running"
End == life # "ended" /\ life' = "ended"
Session ==
    /\ StartGame \/ End
    /\ UNCHANGED <<scene, transcribed, audioReady, regVars, pc, told, last, asr, queue, spoken>>

-----------------------------------------------------------------------------
(* A socket's life. *)

\* audio_session has given a ticket; register_connection takes the role over
\* and tells the previous owner to stop.
MutSilentTakeover(s) ==
    /\ pc[s] = "none" /\ s \in scene /\ MayAcceptAudio
    /\ pc' = [pc EXCEPT ![s] = "registered"]
    /\ control' = [control EXCEPT ![RoleOf[s]] = s]
    /\ UNCHANGED <<sessionVars, peer, newest, told, last, asr, queue, spoken>>
Register(s) ==
    /\ pc[s] = "none" /\ s \in scene /\ MayAcceptAudio
    /\ pc' = [pc EXCEPT ![s] = "registered"]
    /\ control' = [control EXCEPT ![RoleOf[s]] = s]
    /\ told' = [x \in Socket |-> told[x] \/ x = control[RoleOf[s]]]
    /\ UNCHANGED <<sessionVars, peer, newest, last, asr, queue, spoken>>

\* AudioSessionRegistry::connect: the latest connection replaces the peer.
ConnectPeer(s) ==
    /\ pc[s] = "registered"
    /\ peer' = [peer EXCEPT ![RoleOf[s]] = s]
    /\ newest' = [newest EXCEPT ![RoleOf[s]] = s]
    /\ pc' = [pc EXCEPT ![s] = "connected"]
    /\ UNCHANGED <<sessionVars, control, told, last, asr, queue, spoken>>

\* The provider's session starts, or fails or times out after ten seconds.
StartTranscription(s) ==
    /\ pc[s] = "connected" /\ transcribed
    /\ pc' = [pc EXCEPT ![s] = "loop"]
    /\ \/ asr' = [asr EXCEPT ![s] = "starting"] /\ UNCHANGED queue
       \/ asr' = asr /\ queue' = Sent(queue, RoleOf[s], Status)
    /\ UNCHANGED <<sessionVars, regVars, told, last, spoken>>

\* mark_participant_audio_ready and publish_transcription_readiness.
ReadyWithoutTranscription(s) ==
    /\ pc[s] = "connected" /\ ~transcribed
    /\ pc' = [pc EXCEPT ![s] = "loop"]
    /\ audioReady' = [audioReady EXCEPT ![RoleOf[s]] = TRUE]
    /\ queue' = Sent(queue, RoleOf[s], Status)
    /\ UNCHANGED <<scene, transcribed, life, regVars, told, last, asr, spoken>>

\* The event task: Ready or Failed, as long as the task lives.
TranscriptionReady(s) ==
    /\ asr[s] = "starting" /\ pc[s] # "done"
    /\ asr' = [asr EXCEPT ![s] = "ready"]
    /\ audioReady' = [audioReady EXCEPT ![RoleOf[s]] = TRUE]
    /\ queue' = Sent(queue, RoleOf[s], Status)
    /\ UNCHANGED <<scene, transcribed, life, regVars, pc, told, last, spoken>>
MutReadyAnyway(s) ==
    /\ asr[s] = "starting" /\ pc[s] # "done"
    /\ asr' = [asr EXCEPT ![s] = "none"]
    /\ audioReady' = [audioReady EXCEPT ![RoleOf[s]] = TRUE]
    /\ queue' = Sent(queue, RoleOf[s], Status)
    /\ UNCHANGED <<scene, transcribed, life, regVars, pc, told, last, spoken>>
TranscriptionFails(s) ==
    /\ asr[s] = "starting" /\ pc[s] # "done"
    /\ asr' = [asr EXCEPT ![s] = "none"]
    /\ queue' = Sent(queue, RoleOf[s], Status)
    /\ UNCHANGED <<sessionVars, regVars, pc, told, last, spoken>>

\* A decoded frame with valid timing, then is_current; then it is relayed if
\* the session accepts audio.  Other sockets run between the three.
MutAnyTiming(s, seq) ==
    /\ pc[s] = "loop"
    /\ last' = [last EXCEPT ![s] = seq]
    /\ pc' = [pc EXCEPT ![s] = "current"]
    /\ UNCHANGED <<sessionVars, regVars, told, asr, queue, spoken>>
ReceiveAudio(s, seq) ==
    /\ pc[s] = "loop" /\ seq > last[s]
    /\ last' = [last EXCEPT ![s] = seq]
    /\ pc' = [pc EXCEPT ![s] = "current"]
    /\ UNCHANGED <<sessionVars, regVars, told, asr, queue, spoken>>
CheckCurrent(s) ==
    /\ pc[s] = "current"
    /\ pc' = [pc EXCEPT ![s] = IF peer[RoleOf[s]] = s THEN "accepts" ELSE "closing"]
    /\ UNCHANGED <<sessionVars, regVars, told, last, asr, queue, spoken>>
DropAudio(s) ==
    /\ pc[s] = "accepts" /\ MayRefuseAudio
    /\ pc' = [pc EXCEPT ![s] = "loop"]
    /\ UNCHANGED <<sessionVars, regVars, told, last, asr, queue, spoken>>
relay_partner(s) ==
    /\ pc[s] = "accepts" /\ MayAcceptAudio
    /\ queue' = Sent(queue, other(RoleOf[s]), [from |-> s, seq |-> last[s]])
    /\ pc' = [pc EXCEPT ![s] = "loop"]
    /\ UNCHANGED <<sessionVars, regVars, told, last, asr, spoken>>

\* The loop ends: cancelled by a newer socket, or closed by its browser.
Cancelled(s) ==
    /\ pc[s] = "loop" /\ told[s]
    /\ pc' = [pc EXCEPT ![s] = "closing"]
    /\ UNCHANGED <<sessionVars, regVars, told, last, asr, queue, spoken>>
BrowserCloses(s) ==
    /\ pc[s] = "loop"
    /\ pc' = [pc EXCEPT ![s] = "closing"]
    /\ UNCHANGED <<sessionVars, regVars, told, last, asr, queue, spoken>>

\* AudioSessionRegistry::disconnect removes the peer only when it is this one.
MutDisconnectRole(s) ==
    /\ pc[s] = "closing"
    /\ peer' = [peer EXCEPT ![RoleOf[s]] = None]
    /\ pc' = [pc EXCEPT ![s] = "disconnected"]
    /\ UNCHANGED <<sessionVars, control, newest, told, last, asr, queue, spoken>>
MutSkipSuperseded(s) ==
    /\ pc[s] = "closing"
    /\ peer' = IF peer[RoleOf[s]] = s /\ ~told[s] THEN [peer EXCEPT ![RoleOf[s]] = None] ELSE peer
    /\ pc' = [pc EXCEPT ![s] = "disconnected"]
    /\ UNCHANGED <<sessionVars, control, newest, told, last, asr, queue, spoken>>
DisconnectPeer(s) ==
    /\ pc[s] = "closing"
    /\ peer' = IF peer[RoleOf[s]] = s THEN [peer EXCEPT ![RoleOf[s]] = None] ELSE peer
    /\ pc' = [pc EXCEPT ![s] = "disconnected"]
    /\ UNCHANGED <<sessionVars, control, newest, told, last, asr, queue, spoken>>

\* unregister_connection, the send task aborted, the event task awaited for
\* five seconds and aborted.
Unregister(s) ==
    /\ pc[s] = "disconnected"
    /\ control' = IF control[RoleOf[s]] = s THEN [control EXCEPT ![RoleOf[s]] = None] ELSE control
    /\ queue' = [queue EXCEPT ![s] = <<>>]
    /\ pc' = [pc EXCEPT ![s] = "done"]
    /\ UNCHANGED <<sessionVars, peer, newest, told, last, asr, spoken>>

\* The send task hands the oldest message to the browser.
SendOutbound(s) ==
    /\ queue[s] # <<>> /\ pc[s] # "done"
    /\ queue' = [queue EXCEPT ![s] = Tail(@)]
    /\ UNCHANGED <<sessionVars, regVars, pc, told, last, asr, spoken>>

\* publish_agent: one frame of synthesized speech to every connected browser.
publish_agent ==
    /\ spoken < MaxSpoken /\ life = "running"
    /\ spoken' = spoken + 1
    /\ queue' = Sent(Sent(queue, "A", [from |-> Agent, seq |-> spoken']), "B",
                     [from |-> Agent, seq |-> spoken'])
    /\ UNCHANGED <<sessionVars, regVars, pc, told, last, asr>>

Step(s) ==
    \/ ConnectPeer(s) \/ StartTranscription(s) \/ ReadyWithoutTranscription(s)
    \/ CheckCurrent(s) \/ DropAudio(s) \/ relay_partner(s)
    \/ Cancelled(s) \/ DisconnectPeer(s) \/ Unregister(s)
VoiceNext ==
    \/ Session \/ publish_agent
    \/ \E s \in Socket :
        \/ Step(s) \/ Register(s) \/ BrowserCloses(s) \/ SendOutbound(s)
        \/ TranscriptionReady(s) \/ TranscriptionFails(s)
        \/ \E seq \in 1..MaxFrame : ReceiveAudio(s, seq)
VoiceSpec == VoiceInit /\ [][VoiceNext]_voiceVars

-----------------------------------------------------------------------------
VoiceTypeOK ==
    /\ transcribed \in BOOLEAN
    /\ life \in {"forming", "running", "ended"}
    /\ control \in [Role -> Socket \cup {None}] /\ peer \in [Role -> Socket \cup {None}]
    /\ pc \in [Socket -> {"none", "registered", "connected", "loop", "current", "accepts",
                          "closing", "disconnected", "done"}]
    /\ told \in [Socket -> BOOLEAN] /\ audioReady \in [Role -> BOOLEAN]
    /\ last \in [Socket -> 0..MaxFrame]
    /\ asr \in [Socket -> {"none", "starting", "ready"}]
    /\ queue \in [Socket -> Seq([from : Sender \cup {None}, seq : Nat])]
    /\ \A s \in Socket : Len(queue[s]) <= QueueCap

\* A finishing socket never takes the relay from the socket that replaced it.
LatestPeerStays ==
    \A r \in Role : newest[r] # None /\ InLoop(newest[r]) => peer[r] = newest[r]

\* When all sockets of a role are gone, nothing of them is left in either
\* registry, in whichever order they connected and ended.
NothingLeftRegistered ==
    \A r \in Role :
        (\A s \in Socket : RoleOf[s] = r => pc[s] \in {"none", "done"}) =>
            control[r] = None /\ peer[r] = None

\* What waits for a browser is, for each sender, in the order of speaking.
FramesKeepOrder ==
    \A s \in Socket : \A i, j \in DOMAIN queue[s] :
        i < j /\ queue[s][i].from \in Sender /\ queue[s][i].from = queue[s][j].from
            => queue[s][i].seq < queue[s][j].seq

\* A game that needs transcription starts only after the recognition of both
\* roles has started, on whichever of their sockets.
RunningIsTranscribed ==
    transcribed /\ life = "running" =>
        \A r \in Role : \E s \in Socket : RoleOf[s] = r /\ asr[s] = "ready"

\* A superseded socket goes away by itself.
SupersededCloses ==
    \A s \in {x \in Socket : \E y \in Socket \ {x} : RoleOf[y] = RoleOf[x]} :
        (pc[s] \notin {"none", "done"} /\ control[RoleOf[s]] # s) ~> (pc[s] = "done")

\* The newest socket of a role owns the relay while it is open: "a superseded
\* game or audio connection cannot disconnect, publish for, mark ready, or
\* mutate the state owned by its replacement".
ReplacementOwnsRelay ==
    \A s \in Socket : InLoop(s) /\ control[RoleOf[s]] = s => peer[RoleOf[s]] = s

\* The two registries of audio sockets agree on who is heard whenever nobody is
\* between them, leave nothing behind, deliver frames in order, and no session
\* runs without its transcription (audio_websocket_loop).
RelayIsSound ==
    /\ VoiceTypeOK
    /\ LatestPeerStays /\ NothingLeftRegistered /\ FramesKeepOrder /\ RunningIsTranscribed
=============================================================================

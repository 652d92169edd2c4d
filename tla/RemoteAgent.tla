---------------------------- MODULE RemoteAgent -----------------------------
(***************************************************************************)
(* One agent that lives in another process (remote_agent.rs).  Each call   *)
(* of the Agent trait is one gRPC request under a timeout.  A request that *)
(* timed out here may still be handled there, later than requests sent     *)
(* after it.  The caller is one task, so it makes one call at a time.      *)
(***************************************************************************)
EXTENDS Integers, Sequences, FiniteSets

CONSTANTS MaxSent    \* bound: requests of one agent
ASSUME RemoteAssumption == MaxSent \in Nat

Op == {"create", "start", "observe", "respond", "finish", "shutdown"}

VARIABLES
    endpoint,   \* the configured endpoint, and what the environment says of it
    instance,   \* RemoteAgentInstance: its state
    waiting,    \* the request the caller waits for, or 0
    sent,       \* the requests, in the order they were sent
    wire,       \* those the service has not handled
    replies,    \* those it has answered, the answer being on its way
    handled,    \* the requests in the order the service handled them
    hosted,     \* the service has an agent for this session
    timeouts,   \* the requests whose caller gave up
    logged,     \* the requests whose session_logs were recorded
    outcome     \* what the last call returned

remoteVars == <<endpoint, instance, waiting, sent, wire, replies, handled, hosted, timeouts, logged, outcome>>

RemoteInit ==
    /\ endpoint \in [scheme : {"http", "https", "other"}, loopback : BOOLEAN, listed : BOOLEAN, token : BOOLEAN]
    /\ instance = "none" /\ waiting = 0 /\ sent = <<>> /\ wire = {} /\ replies = {} /\ handled = <<>>
    /\ hosted = FALSE /\ timeouts = {} /\ logged = {} /\ outcome = "none"

\* validate_remote_endpoint
MutAnyHttp(e) ==
    /\ e.scheme \in {"http", "https"}
    /\ e.loopback \/ e.listed
validate_remote_endpoint(e) ==
    /\ (e.scheme = "https" /\ e.token) \/ (e.scheme = "http" /\ e.loopback)
    /\ e.loopback \/ e.listed

\* One request goes out; its caller waits.
MutWaitsForNext(op) ==
    /\ waiting = 0 /\ Len(sent) < MaxSent
    /\ sent' = Append(sent, op) /\ wire' = wire \cup {Len(sent) + 1} /\ waiting' = Len(sent) + 2
Send(op) ==
    /\ waiting = 0 /\ Len(sent) < MaxSent
    /\ sent' = Append(sent, op) /\ wire' = wire \cup {Len(sent) + 1} /\ waiting' = Len(sent) + 1

\* create_remote_instance: the settings are checked and the channel connects
\* before anything is sent.
Create ==
    /\ instance = "none"
    /\ IF validate_remote_endpoint(endpoint)
       THEN Send("create") /\ instance' = "creating" /\ UNCHANGED outcome
       ELSE instance' = "failed" /\ outcome' = "error" /\ UNCHANGED <<sent, wire, waiting>>
    /\ UNCHANGED <<endpoint, replies, handled, hosted, timeouts, logged>>
ConnectFails ==
    /\ instance = "none" /\ validate_remote_endpoint(endpoint)
    /\ instance' = "failed" /\ outcome' = "error"
    /\ UNCHANGED <<endpoint, waiting, sent, wire, replies, handled, hosted, timeouts, logged>>

\* start, observe_transition, observe_message, respond and finish.
MutDoesNotWait(op) ==
    /\ instance = "active" /\ Len(sent) < MaxSent
    /\ sent' = Append(sent, op) /\ wire' = wire \cup {Len(sent) + 1} /\ waiting' = Len(sent) + 1
    /\ UNCHANGED <<endpoint, instance, replies, handled, hosted, timeouts, logged, outcome>>
Invoke(op) ==
    /\ instance = "active" /\ Send(op)
    /\ UNCHANGED <<endpoint, instance, replies, handled, hosted, timeouts, logged, outcome>>

\* shutdown: the state is replaced before the request is sent.
MutShutdownStaysActive ==
    /\ instance = "active" /\ Send("shutdown")
    /\ UNCHANGED <<endpoint, instance, replies, handled, hosted, timeouts, logged, outcome>>
MutShutdownIsLocal ==
    /\ instance = "active" /\ waiting = 0 /\ instance' = "down"
    /\ UNCHANGED <<endpoint, waiting, sent, wire, replies, handled, hosted, timeouts, logged, outcome>>
Shutdown ==
    /\ instance = "active" /\ Send("shutdown") /\ instance' = "down"
    /\ UNCHANGED <<endpoint, replies, handled, hosted, timeouts, logged, outcome>>

-----------------------------------------------------------------------------
(* The service and the network (external). *)

HandleRequest(n) ==
    /\ n \in wire /\ wire' = wire \ {n} /\ replies' = replies \cup {n}
    /\ handled' = Append(handled, n)
    /\ hosted' = CASE sent[n] = "create" -> TRUE [] sent[n] = "shutdown" -> FALSE [] OTHER -> hosted
    /\ UNCHANGED <<endpoint, instance, waiting, sent, timeouts, logged, outcome>>

LoseMessage(n) ==
    /\ n \in wire \cup replies /\ n \in timeouts
    /\ wire' = wire \ {n} /\ replies' = replies \ {n}
    /\ UNCHANGED <<endpoint, instance, waiting, sent, handled, hosted, timeouts, logged, outcome>>

-----------------------------------------------------------------------------
(* The end of a call. *)

Settled(n, result) ==
    /\ waiting' = 0 /\ outcome' = result
    /\ instance' = IF sent[n] # "create" THEN instance ELSE IF result = "ok" THEN "active" ELSE "failed"

\* The answer is in time: its log entries are recorded, then its contents are
\* read; an agent without an id, a response without content and an action the
\* game cannot parse are errors.
MutLogsOnSuccess(n, good) ==
    /\ n = waiting /\ n \in replies /\ replies' = replies \ {n}
    /\ good \/ sent[n] \in {"create", "respond"}
    /\ logged' = IF good THEN logged \cup {n} ELSE logged
    /\ Settled(n, IF good THEN "ok" ELSE "error")
    /\ UNCHANGED <<endpoint, sent, wire, handled, hosted, timeouts>>
Answered(n, good) ==
    /\ n = waiting /\ n \in replies /\ replies' = replies \ {n}
    /\ good \/ sent[n] \in {"create", "respond"}
    /\ logged' = logged \cup {n}
    /\ Settled(n, IF good THEN "ok" ELSE "error")
    /\ UNCHANGED <<endpoint, sent, wire, handled, hosted, timeouts>>

\* request_timeout passes, or the transport reports a failure, whatever has
\* become of the request.
TimesOut(n) ==
    /\ n = waiting /\ n # 0 /\ timeouts' = timeouts \cup {n}
    /\ Settled(n, "error")
    /\ UNCHANGED <<endpoint, sent, wire, replies, handled, hosted, logged>>

RemoteNext ==
    \/ Create \/ ConnectFails \/ Shutdown
    \/ \E op \in {"start", "observe", "respond", "finish"} : Invoke(op)
    \/ \E n \in 1..Len(sent) : HandleRequest(n) \/ LoseMessage(n) \/ TimesOut(n)
    \/ \E n \in 1..Len(sent), good \in BOOLEAN : Answered(n, good)

RemoteSpec == RemoteInit /\ [][RemoteNext]_remoteVars

-----------------------------------------------------------------------------
(* Properties. *)

\* The instance, the requests and their answers have their types.
RemoteTypeOK ==
    /\ instance \in {"none", "creating", "active", "down", "failed"}
    /\ waiting \in 0..Len(sent) /\ wire \subseteq 1..Len(sent) /\ replies \subseteq 1..Len(sent)
    /\ \A i \in 1..Len(sent) : sent[i] \in Op

\* The shutdown is the last request of an agent and is sent once, also when it
\* times out and the caller shuts down again (RemoteAgentInstance::shutdown).
ShutdownIsLast ==
    \A i \in 1..Len(sent) : sent[i] = "shutdown" => i = Len(sent)

\* As long as no call has timed out, the service handles the calls in the order
\* they were made; after a timeout an earlier request may overtake.
HandledInOrder ==
    timeouts = {} => \A i \in 1..Len(handled) : handled[i] = i

\* An agent that stays at the service with nobody to shut it down is the work of
\* a timeout or of an answer to create without an agent id (shutdown,
\* create_remote_instance); no other path leaves one behind.
LeftBehindByTimeout ==
    hosted /\ wire = {} /\ waiting = 0 /\ instance \in {"down", "failed"} =>
        timeouts # {} \/ outcome = "error"

\* The entries of every answer that arrives in time are recorded, those of an
\* answer that turns out unusable too (record_remote_logs comes first).
EveryAnswerIsLogged ==
    \A i \in 1..Len(handled) :
        LET n == handled[i] IN n \in replies \cup timeouts \cup logged

\* Nothing is sent in clear text to another machine, nor to a machine that is not
\* listed, nor without a token when it goes over TLS (validate_remote_endpoint).
RequestsStayConfined ==
    sent # <<>> => /\ endpoint.loopback \/ (endpoint.scheme = "https" /\ endpoint.listed)
                   /\ endpoint.scheme = "https" => endpoint.token

\* Whatever is lost or late between the client and the agent service: calls are
\* handled one by one, none after the shutdown, an agent is left behind by a
\* timeout only, every answer's log entries are kept, every request goes to an
\* endpoint of the allowed kind (RemoteAgentInstance).
RemoteIsOrderly ==
    /\ RemoteTypeOK
    /\ ShutdownIsLast /\ HandledInOrder /\ LeftBehindByTimeout
    /\ EveryAnswerIsLogged /\ RequestsStayConfined
=============================================================================

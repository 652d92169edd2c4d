--------------------------- MODULE MCBackstage ---------------------------
(***************************************************************************)
(* Six parts behind the sessions in one run: access of participants and    *)
(* of administrators, a session's log, a remote agent and the values it    *)
(* exchanges, and input that is turned down.  They share no state that a   *)
(* property reads, so a behaviour is one of them and the state space is    *)
(* their sum.                                                              *)
(***************************************************************************)
EXTENDS ParticipantAccess, AdminAccess, SessionLog, RemoteAgent, RemoteValues, RejectedInput

\* Both credentials are of the one participant.
HolderOfMC == [c \in Credential |-> "p"]

VARIABLE part
vars == <<part, accessVars, adminVars, logVars, remoteVars, valueVars, inputVars>>

\* The parts that do not run rest in one of their initial states.
AccessRests == part = "access" \/ (seat = [r \in Room |-> [p \in Person |-> "none"]])
AdminRests == part = "admin" \/ (durable = Nobody)
LogRests == part = "log" \/ (live = TRUE)
RemoteRests == part = "remote" \/ (endpoint = [scheme |-> "https", loopback |-> FALSE, listed |-> TRUE, token |-> TRUE])
ValueRests == part = "values" \/ (json = int(0))
Init ==
    /\ part \in {"access", "admin", "log", "remote", "values", "input"}
    /\ AccessInit /\ AccessRests
    /\ AdminInit /\ AdminRests
    /\ LogInit /\ LogRests
    /\ RemoteInit /\ RemoteRests
    /\ ValueInit /\ ValueRests
    /\ InputInit

AccessPart ==
    /\ part = "access" /\ AccessNext
    /\ UNCHANGED <<part, adminVars, logVars, remoteVars, valueVars, inputVars>>
AdminPart ==
    /\ part = "admin" /\ AdminNext
    /\ UNCHANGED <<part, accessVars, logVars, remoteVars, valueVars, inputVars>>
LogPart ==
    /\ part = "log" /\ LogNext
    /\ UNCHANGED <<part, accessVars, adminVars, remoteVars, valueVars, inputVars>>
RemotePart ==
    /\ part = "remote" /\ RemoteNext
    /\ UNCHANGED <<part, accessVars, adminVars, logVars, valueVars, inputVars>>
ValuePart ==
    /\ part = "values" /\ Cross
    /\ UNCHANGED <<part, accessVars, adminVars, logVars, remoteVars, inputVars>>
InputPart ==
    /\ part = "input" /\ InputNext
    /\ UNCHANGED <<part, accessVars, adminVars, logVars, remoteVars, valueVars>>

Next == AccessPart \/ AdminPart \/ LogPart \/ RemotePart \/ ValuePart \/ InputPart
Spec == Init /\ [][Next]_vars

\* What comes from outside is bounded before it is used: a remote agent's calls
\* are orderly and its numbers keep their value over the wire.
RemoteIsFaithful == RemoteIsOrderly /\ CrossingKeepsValue

\* What has gone does not come back: a seat that was lost opens no socket, an
\* expired participant holds no credential, a deleted administrator session
\* stays deleted, and nothing is logged after a shutdown.
NothingComesBack ==
    OpensForTheSeated /\ ExpiredHoldNoCredential /\ GoneIsGone /\ NothingAfterShutdown
=============================================================================

--------------------------- MODULE ParticipantAccess ------------------------
(***************************************************************************)
(* Participant credentials and upgrade tickets (auth.rs) and the requests  *)
(* that use them (app.rs game_session, audio_session, game_socket,         *)
(* audio_socket).  A request authenticates, looks at the room and mints a  *)
(* ticket under three separate guards; an upgrade consumes the ticket and  *)
(* then looks at the credential and at the room again.  Meanwhile time     *)
(* passes, rooms change and the cleanup task forgets people.  A behaviour  *)
(* begins when everybody has just consented (somebody may have a seat); a  *)
(* participant may enter again and then holds two credentials.             *)
(***************************************************************************)
EXTENDS Integers, FiniteSets

CONSTANTS Person,        \* participant sessions
          Room,
          Credential, HolderOf,   \* credentials, and whose each one is
          MaxTicket,     \* bound: the tickets that are minted
          MaxUpgrade,    \* bound: the upgrade requests that arrive
          CredentialLife, TicketLife,  \* PARTICIPANT_LIFETIME_SECONDS, TICKET_LIFETIME_SECONDS
          UnattachedTimeout,           \* waiting_session_timeout_seconds
          MaxMoves,      \* bound: changes of seats, and sweeps
          MaxUses,       \* bound: tickets and upgrade requests together
          MaxClock       \* bound: the time a behaviour covers
ASSUME AccessAssumption ==
    /\ HolderOf \in [Credential -> Person] /\ \A p \in Person : \E c \in Credential : HolderOf[c] = p
    /\ {CredentialLife, TicketLife, UnattachedTimeout} \subseteq Nat \ {0} /\ {MaxTicket, MaxUpgrade, MaxUses, MaxMoves, MaxClock} \subseteq Nat

Purpose == {"game", "audio"}
Ticket == 1..MaxTicket
Upgrade == 1..MaxUpgrade
Seat == {"A", "B"}
Nothing == [is |-> FALSE]
Never == -1

VARIABLES
    clock,       \* now_timestamp()
    issuedAt,    \* when each credential was issued
    records,     \* ParticipantAuthenticator.records
    remembered,  \* memory.participants: updated_at of each entry
    seat,        \* session.participants of the rooms
    moves,       \* changes of seats and sweeps so far
    tickets,     \* UpgradeTicketStore.tickets
    minted,      \* every ticket ever minted, with its claims
    ask,         \* the request for a ticket in flight
    upgrade,     \* the upgrade requests
    sweep        \* spawn_security_cleanup

accessVars == <<clock, issuedAt, records, remembered, seat, moves, tickets, minted, ask, upgrade, sweep>>

AccessInit ==
    /\ clock = 0
    /\ records = {(CHOOSE c \in Credential : HolderOf[c] = p) : p \in Person}
    /\ issuedAt = [c \in Credential |-> IF c \in records THEN 0 ELSE Never]
    /\ remembered = [p \in Person |-> 0]
    /\ seat = [r \in Room |-> [p \in Person |-> "none"]]
       \/ \E p \in Person, r \in Room : seat = [[o \in Room |-> [q \in Person |-> "none"]] EXCEPT ![r][p] = "A"]
    /\ moves = 0
    /\ tickets = {} /\ minted = [t \in Ticket |-> Nothing]
    /\ ask = Nothing
    /\ upgrade = [u \in Upgrade |-> [pc |-> "none", claims |-> Nothing]]
    /\ sweep = [pc |-> "idle", expired |-> {}, inRooms |-> {}, stale |-> {}]

Uses == Cardinality({t \in Ticket : minted[t].is}) + Cardinality({u \in Upgrade : upgrade[u].pc # "none"})
Live(c) == c \in records /\ issuedAt[c] + CredentialLife > clock
Remembered == {p \in Person : remembered[p] # Never}
Forget(gone) == remembered' = [p \in Person |-> IF p \in gone THEN Never ELSE remembered[p]]
InRooms == {p \in Person : \E r \in Room : seat[r][p] # "none"}

-----------------------------------------------------------------------------
(* The world around: time, and the rooms, whose own rules Admission has. *)

AccessTick == clock < MaxClock /\ clock' = clock + 1
              /\ UNCHANGED <<issuedAt, records, remembered, seat, moves, tickets, minted, ask, upgrade, sweep>>

\* participants: whoever comes back to the experiment gets another credential.
MutIssuedAtExpiry(c) ==
    /\ issuedAt[c] = Never
    /\ issuedAt' = [issuedAt EXCEPT ![c] = clock + CredentialLife] /\ records' = records \cup {c}
    /\ UNCHANGED <<clock, remembered, seat, moves, tickets, minted, ask, upgrade, sweep>>
Reenter(c) ==
    /\ issuedAt[c] = Never
    /\ issuedAt' = [issuedAt EXCEPT ![c] = clock] /\ records' = records \cup {c}
    /\ remembered' = IF HolderOf[c] \in Remembered THEN remembered ELSE [remembered EXCEPT ![HolderOf[c]] = clock]
    /\ UNCHANGED <<clock, seat, moves, tickets, minted, ask, upgrade, sweep>>

\* create_session and join_session want an authenticated participant; a seat is
\* free of anybody else.
TakeSeat(p, r, s) ==
    /\ \E c \in Credential : HolderOf[c] = p /\ Live(c)
    /\ p \in Remembered /\ p \notin InRooms /\ \A q \in Person : seat[r][q] # s
    /\ seat' = [seat EXCEPT ![r][p] = s] /\ moves < MaxMoves /\ moves' = moves + 1
    /\ UNCHANGED <<clock, issuedAt, records, remembered, tickets, minted, ask, upgrade, sweep>>

\* The participant leaves a room that has not started, or the room is removed.
LoseSeat(p, r) ==
    /\ seat[r][p] # "none" /\ seat' = [seat EXCEPT ![r][p] = "none"]
    /\ moves < MaxMoves /\ moves' = moves + 1
    /\ UNCHANGED <<clock, issuedAt, records, remembered, tickets, minted, ask, upgrade, sweep>>

-----------------------------------------------------------------------------
(* game_session and audio_session: a ticket for a socket. *)

\* require_participant_auth
Authenticate(c, r, purpose) ==
    /\ ~ask.is /\ Live(c)
    /\ ask' = [is |-> TRUE, who |-> HolderOf[c], room |-> r, purpose |-> purpose, role |-> "none"]
    /\ UNCHANGED <<clock, issuedAt, records, remembered, seat, moves, tickets, minted, upgrade, sweep>>

\* participant_role; a stranger to the room gets an error.
FindRole ==
    /\ ask.is /\ ask.role = "none"
    /\ ask' = IF seat[ask.room][ask.who] = "none" THEN Nothing
              ELSE [ask EXCEPT !.role = seat[ask.room][ask.who]]
    /\ UNCHANGED <<clock, issuedAt, records, remembered, seat, moves, tickets, minted, upgrade, sweep>>

\* UpgradeTicketStore::issue: expired tickets go, and so does an earlier ticket
\* of the same participant for the same socket.
MutKeepsOlder(t) ==
    /\ ask.is /\ ask.role # "none" /\ ~minted[t].is /\ (\A o \in 1..(t - 1) : minted[o].is) /\ Uses < MaxUses
    /\ minted' = [minted EXCEPT ![t] = [is |-> TRUE, who |-> ask.who, room |-> ask.room, role |-> ask.role,
                                        purpose |-> ask.purpose, expires |-> clock + TicketLife]]
    /\ tickets' = {o \in tickets : minted[o].expires > clock} \cup {t}
    /\ ask' = Nothing
    /\ UNCHANGED <<clock, issuedAt, records, remembered, seat, moves, upgrade, sweep>>
Issue(t) ==
    /\ ask.is /\ ask.role # "none" /\ ~minted[t].is /\ (\A o \in 1..(t - 1) : minted[o].is) /\ Uses < MaxUses
    /\ minted' = [minted EXCEPT ![t] = [is |-> TRUE, who |-> ask.who, room |-> ask.room, role |-> ask.role,
                                        purpose |-> ask.purpose, expires |-> clock + TicketLife]]
    /\ tickets' = {o \in tickets : /\ minted[o].expires > clock
                                   /\ \/ minted[o].room # ask.room
                                      \/ minted[o].who # ask.who
                                      \/ minted[o].purpose # ask.purpose} \cup {t}
    /\ ask' = Nothing
    /\ UNCHANGED <<clock, issuedAt, records, remembered, seat, moves, upgrade, sweep>>

-----------------------------------------------------------------------------
(* game_socket and audio_socket: the upgrade. *)

\* generation_is_active: every credential is of generation 1, so any live
\* credential of the participant will do.
generation_is_active(p) == \E c \in Credential : HolderOf[c] = p /\ Live(c)

\* UpgradeTicketStore::consume: the ticket is gone whatever the verdict.
MutFitsAnyPurpose(t, purpose, r) == minted[t].expires > clock /\ minted[t].room = r
Fits(t, purpose, r) == minted[t].expires > clock /\ minted[t].purpose = purpose /\ minted[t].room = r
MutKeepTicket(t, purpose, r) == tickets
Without(t, purpose, r) == tickets \ {t}
Consume(u, t, purpose, r) ==
    /\ upgrade[u].pc = "none" /\ (\A v \in 1..(u - 1) : upgrade[v].pc # "none") /\ minted[t].is /\ Uses < MaxUses
    /\ tickets' = Without(t, purpose, r)
    /\ upgrade' = [upgrade EXCEPT ![u] =
         IF t \in tickets /\ Fits(t, purpose, r)
         THEN [pc |-> "credential", claims |-> [is |-> TRUE, ticket |-> t, purpose |-> purpose, room |-> r,
                                             at |-> clock, held |-> generation_is_active(minted[t].who)]]
         ELSE [pc |-> "refused", claims |-> Nothing]]
    /\ UNCHANGED <<clock, issuedAt, records, remembered, seat, moves, minted, ask, sweep>>

Claims(u) == minted[upgrade[u].claims.ticket]

MutUnasked(u) ==
    /\ upgrade[u].pc = "credential" /\ upgrade' = [upgrade EXCEPT ![u].pc = "role"]
    /\ UNCHANGED <<clock, issuedAt, records, remembered, seat, moves, tickets, minted, ask, sweep>>
CheckCredential(u) ==
    /\ upgrade[u].pc = "credential"
    /\ upgrade' = [upgrade EXCEPT ![u].pc = IF generation_is_active(Claims(u).who) THEN "role" ELSE "refused"]
    /\ UNCHANGED <<clock, issuedAt, records, remembered, seat, moves, tickets, minted, ask, sweep>>

\* participant_role again: the participant still has the seat of the ticket.
MutStillSomewhere(u) == Claims(u).who \in InRooms
StillSeated(u) == seat[Claims(u).room][Claims(u).who] = Claims(u).role
CheckRole(u) ==
    /\ upgrade[u].pc = "role"
    /\ upgrade' = [upgrade EXCEPT ![u].pc = IF StillSeated(u) THEN "open" ELSE "refused"]
    /\ UNCHANGED <<clock, issuedAt, records, remembered, seat, moves, tickets, minted, ask, sweep>>

-----------------------------------------------------------------------------
(* The security tick of spawn_security_cleanup. *)

\* ParticipantAuthenticator::cleanup: the sessions of the removed credentials
\* that hold no other.
MutEveryExpired ==
    {HolderOf[c] : c \in {d \in records : ~Live(d)}}
Expired ==
    {HolderOf[c] : c \in {d \in records : ~Live(d)}} \ {HolderOf[c] : c \in {d \in records : Live(d)}}
CleanupCredentials ==
    /\ sweep.pc = "idle" /\ moves < MaxMoves /\ moves' = moves + 1
    /\ records' = {c \in records : Live(c)}
    /\ sweep' = [sweep EXCEPT !.pc = "tickets", !.expired = Expired]
    /\ UNCHANGED <<clock, issuedAt, remembered, seat, tickets, minted, ask, upgrade>>

CleanupTickets ==
    /\ sweep.pc = "tickets" /\ sweep' = [sweep EXCEPT !.pc = "look"]
    /\ tickets' = {t \in tickets : minted[t].expires > clock}
    /\ UNCHANGED <<clock, issuedAt, records, remembered, seat, moves, minted, ask, upgrade>>

\* cleanup_expired_participants: the rooms are read first.
LookIntoRooms ==
    /\ sweep.pc = "look" /\ sweep' = [sweep EXCEPT !.pc = "forget", !.inRooms = InRooms]
    /\ UNCHANGED <<clock, issuedAt, records, remembered, seat, moves, tickets, minted, ask, upgrade>>

ForgetExpired ==
    /\ sweep.pc = "forget" /\ sweep' = [sweep EXCEPT !.pc = "stale", !.expired = {}]
    /\ Forget(sweep.expired \ sweep.inRooms)
    /\ UNCHANGED <<clock, issuedAt, records, seat, moves, tickets, minted, ask, upgrade>>

\* Only consent refreshes updated_at.
Unattached == {p \in Remembered \ sweep.inRooms : remembered[p] < clock - UnattachedTimeout}
ForgetStale ==
    /\ sweep.pc = "stale"
    /\ sweep' = [sweep EXCEPT !.pc = "revoke", !.inRooms = {}, !.stale = Unattached]
    /\ Forget(Unattached)
    /\ UNCHANGED <<clock, issuedAt, records, seat, moves, tickets, minted, ask, upgrade>>

\* revoke_participant_session
Unrevoked == {c \in records : HolderOf[c] \notin sweep.stale}
Revoke ==
    /\ sweep.pc = "revoke"
    /\ records' = Unrevoked
    /\ sweep' = [pc |-> "idle", expired |-> {}, inRooms |-> {}, stale |-> {}]
    /\ UNCHANGED <<clock, issuedAt, remembered, seat, moves, tickets, minted, ask, upgrade>>

AccessNext ==
    \/ AccessTick
    \/ \E c \in Credential : Reenter(c)
    \/ \E p \in Person, r \in Room, s \in Seat : TakeSeat(p, r, s)
    \/ \E p \in Person, r \in Room : LoseSeat(p, r)
    \/ \E c \in Credential, r \in Room, w \in Purpose : Authenticate(c, r, w)
    \/ FindRole
    \/ \E t \in Ticket : Issue(t)
    \/ \E u \in Upgrade, t \in Ticket, w \in Purpose, r \in Room : Consume(u, t, w, r)
    \/ \E u \in Upgrade : CheckCredential(u) \/ CheckRole(u)
    \/ CleanupCredentials \/ CleanupTickets \/ LookIntoRooms \/ ForgetExpired \/ ForgetStale \/ Revoke

AccessSpec == AccessInit /\ [][AccessNext]_accessVars

-----------------------------------------------------------------------------
(* Properties. *)

Went(u) == upgrade[u].pc \in {"credential", "role", "open"}

\* A ticket admits one socket: of two upgrade requests that present the same
\* ticket, in whatever order their steps fall, one is refused at once
\* (UpgradeTicketStore::consume).
TicketAdmitsOne ==
    \A u, v \in Upgrade : Went(u) /\ Went(v) /\ upgrade[u].claims.ticket = upgrade[v].claims.ticket => u = v

\* A socket that opens is the one its ticket was minted for: a game ticket opens
\* no audio socket, nor a ticket of one room a socket of another
\* (UpgradeTicketClaims).
SocketMatchesTicket ==
    \A u \in Upgrade : upgrade[u].pc = "open" =>
        Claims(u).purpose = upgrade[u].claims.purpose /\ Claims(u).room = upgrade[u].claims.room

\* Of the tickets a participant asks for the same socket only the newest is good
\* (UpgradeTicketStore::issue).
NewestTicketOnly ==
    \A t, o \in tickets :
        minted[t].who = minted[o].who /\ minted[t].room = minted[o].room
        /\ minted[t].purpose = minted[o].purpose => t = o

\* The cleanup that removes expired credentials lists nobody who holds a live one
\* beside them (ParticipantAuthenticator::cleanup returns a difference).
ExpiredHoldNoCredential ==
    [][sweep.pc = "idle" /\ sweep'.pc = "tickets" =>
          \A p \in sweep'.expired : ~\E c \in records' : HolderOf[c] = p]_accessVars

\* What the comment at app.rs:1004 says of the cleanup: it does not disturb
\* participants retained in rooms, so whoever has a seat is remembered.  TLC
\* refutes it: the seat may be taken between the look into the rooms and the
\* removal.
RetainedIsUndisturbed == InRooms \subseteq Remembered

\* A step that opens a socket finds the ticket's seat taken by the ticket's
\* participant (game_socket and audio_socket ask for the role twice).
OpensForTheSeated ==
    [][\A u \in Upgrade : upgrade'[u].pc = "open" /\ upgrade[u].pc # "open" =>
          seat[Claims(u).room][Claims(u).who] = Claims(u).role]_accessVars

\* A ticket that outlives its participant's credentials opens nothing: they were
\* alive when it was presented, or the participant has entered again since
\* (game_socket and audio_socket ask generation_is_active after consuming it).
OrphanedTicketIsDead ==
    \A u \in Upgrade : upgrade[u].pc = "open" =>
        upgrade[u].claims.held \/ \E c \in Credential : HolderOf[c] = Claims(u).who /\ issuedAt[c] >= upgrade[u].claims.at

\* The state of the registries, of the request and of the sweep has its type.
AccessTypeOK ==
    /\ clock \in 0..MaxClock /\ issuedAt \in [Credential -> {Never} \cup 0..clock]
    /\ records \subseteq Credential /\ remembered \in [Person -> 0..MaxClock \cup {Never}]
    /\ seat \in [Room -> [Person -> Seat \cup {"none"}]]
    /\ moves \in 0..MaxMoves
    /\ tickets \subseteq {t \in Ticket : minted[t].is}
    /\ upgrade \in [Upgrade -> [pc : {"none", "refused", "credential", "role", "open"},
                                claims : {Nothing} \cup [is : {TRUE}, ticket : Ticket, purpose : Purpose, room : Room,
                                                           at : 0..MaxClock, held : BOOLEAN]]]

\* A ticket opens one socket, of its own kind, for the holder of a live
\* credential, and only the newest one does (UpgradeTicketStore, game_socket and
\* audio_socket).
TicketsAreSound ==
    /\ AccessTypeOK
    /\ TicketAdmitsOne /\ SocketMatchesTicket /\ NewestTicketOnly /\ OrphanedTicketIsDead
=============================================================================

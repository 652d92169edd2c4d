----------------------------- MODULE AdminAccess ----------------------------
(***************************************************************************)
(* The administrator's account and sessions (auth.rs AdminAuthenticator,   *)
(* app.rs admin_setup, admin_login, admin_logout, require_admin_auth).     *)
(* The credential is in memory and in the store, the sessions only in the  *)
(* store.  Browser tabs send their requests at the same time; a request    *)
(* takes the time of day first and reads, touches or deletes its session   *)
(* row later; the process may stop between any two steps.                  *)
(***************************************************************************)
EXTENDS Integers, FiniteSets

CONSTANTS Tab,            \* browser tabs, each with one request at a time
          User,           \* people who know a username and a password
          MaxSession,     \* bound: session tokens that are made
          LoginSlots,     \* login_slots
          Idle, Absolute, TouchAfter,  \* ADMIN_IDLE_SECONDS, ADMIN_ABSOLUTE_SECONDS, ADMIN_TOUCH_SECONDS
          MaxTime, MaxRequests, MaxRestarts  \* bounds
ASSUME AdminAssumption ==
    /\ {LoginSlots, Idle, Absolute} \subseteq Nat \ {0} /\ TouchAfter \in Nat
    /\ {MaxSession, MaxTime, MaxRequests, MaxRestarts} \subseteq Nat
    /\ IsFiniteSet(Tab)

Session == 1..MaxSession
Nobody == [user |-> "nobody", role |-> "none"]
Account == [user : User, role : {"operator", "administrator"}]

VARIABLES
    time,      \* now_timestamp()
    durable,   \* administrator_credential
    loaded,    \* AdminAuthenticator.credential
    founders,  \* whose setup answered that the account is theirs
    slots,     \* permits of login_slots
    row,       \* administrator_sessions, and when a request last authenticated with each
    tab,       \* the request of each tab
    served,    \* the request that was served last
    requests, restarts   \* how many there have been

adminVars == <<time, durable, loaded, founders, slots, row, tab, served, requests, restarts>>

NoRow == [state |-> "none", role |-> "none", created |-> 0, seen |-> 0, used |-> 0]
Ready == [pc |-> "idle"]

AdminInit ==
    /\ time = 0 /\ requests = 0 /\ restarts = 0
    /\ durable \in {Nobody} \cup Account /\ loaded = durable
    /\ founders = {} /\ slots = LoginSlots
    /\ row = [s \in Session |-> NoRow]
    /\ tab = [b \in Tab |-> Ready] /\ served = {}

Step(b, request) == tab' = [tab EXCEPT ![b] = request]
Arrives(b) == tab[b].pc = "idle" /\ requests < MaxRequests /\ requests' = requests + 1

AdminTick == time < MaxTime /\ time' = time + 1
             /\ UNCHANGED <<durable, loaded, founders, slots, row, tab, served, requests, restarts>>

\* The process stops and starts again: AdminAuthenticator::load.
Restart ==
    /\ restarts < MaxRestarts /\ restarts' = restarts + 1
    /\ loaded' = durable /\ slots' = LoginSlots
    /\ tab' = [b \in Tab |-> Ready]
    /\ UNCHANGED <<time, durable, founders, row, served, requests>>

-----------------------------------------------------------------------------
(* AdminAuthenticator::setup. *)

\* The first look at memory; a username or password of the wrong length is
\* refused before it.
MutMemoryFirst(b, u) ==
    /\ Arrives(b) /\ loaded = Nobody
    /\ loaded' = [user |-> u, role |-> "administrator"] /\ Step(b, [pc |-> "create", user |-> u])
    /\ UNCHANGED <<time, durable, founders, slots, row, served, restarts>>
BeginSetup(b, u) ==
    /\ Arrives(b)
    /\ Step(b, IF loaded = Nobody THEN [pc |-> "create", user |-> u] ELSE Ready)
    /\ UNCHANGED <<time, durable, loaded, founders, slots, row, served, restarts>>

\* create_admin_credential: on conflict nothing is written and the setup has lost.
MutCreateReplaces(b) ==
    /\ tab[b].pc = "create"
    /\ durable' = [user |-> tab[b].user, role |-> "administrator"]
    /\ founders' = founders \cup {tab[b].user}
    /\ Step(b, [tab[b] EXCEPT !.pc = "publish"])
    /\ UNCHANGED <<time, loaded, slots, row, served, requests, restarts>>
CreateCredential(b) ==
    /\ tab[b].pc = "create"
    /\ IF durable = Nobody
       THEN /\ durable' = [user |-> tab[b].user, role |-> "administrator"]
            /\ founders' = founders \cup {tab[b].user}
            /\ Step(b, [tab[b] EXCEPT !.pc = "publish"])
       ELSE Step(b, Ready) /\ UNCHANGED <<durable, founders>>
    /\ UNCHANGED <<time, loaded, slots, row, served, requests, restarts>>

\* Memory follows, and the setup goes on to log its user in.
PublishCredential(b) ==
    /\ tab[b].pc = "publish"
    /\ loaded' = [user |-> tab[b].user, role |-> "administrator"]
    /\ Step(b, [pc |-> "enter", user |-> tab[b].user])
    /\ UNCHANGED <<time, durable, founders, slots, row, served, requests, restarts>>

-----------------------------------------------------------------------------
(* AdminAuthenticator::login. *)

SendLogin(b, u) ==
    /\ Arrives(b) /\ Step(b, [pc |-> "enter", user |-> u])
    /\ UNCHANGED <<time, durable, loaded, founders, slots, row, served, restarts>>

\* try_acquire: busy when no slot is left; without a credential the answer is
\* invalid and the slot free again.
MutSlotIsDropped(b) ==
    /\ tab[b].pc = "enter" /\ slots > 0
    /\ Step(b, IF loaded = Nobody THEN Ready
               ELSE [pc |-> "verify", user |-> tab[b].user, account |-> loaded, at |-> time])
    /\ UNCHANGED <<time, durable, loaded, founders, slots, row, served, requests, restarts>>
AcquireSlot(b) ==
    /\ tab[b].pc = "enter" /\ slots > 0
    /\ slots' = IF loaded = Nobody THEN slots ELSE slots - 1
    /\ Step(b, IF loaded = Nobody THEN Ready
               ELSE [pc |-> "verify", user |-> tab[b].user, account |-> loaded, at |-> time])
    /\ UNCHANGED <<time, durable, loaded, founders, row, served, requests, restarts>>
Busy(b) ==
    /\ tab[b].pc = "enter" /\ slots = 0 /\ Step(b, Ready)
    /\ UNCHANGED <<time, durable, loaded, founders, slots, row, served, requests, restarts>>

\* The password is verified away from the lock; a failure of the task, or of the
\* store when the session is saved, ends the login as well.
MutReleasesTwice(b) ==
    /\ tab[b].pc \in {"verify", "save"} /\ Step(b, Ready) /\ slots' = slots + 2
    /\ UNCHANGED <<time, durable, loaded, founders, row, served, requests, restarts>>
LoginEnds(b) ==
    /\ tab[b].pc \in {"verify", "save"} /\ Step(b, Ready) /\ slots' = slots + 1
    /\ UNCHANGED <<time, durable, loaded, founders, row, served, requests, restarts>>
Verified(b) ==
    /\ tab[b].pc = "verify" /\ tab[b].user = tab[b].account.user
    /\ Step(b, [tab[b] EXCEPT !.pc = "save"])
    /\ UNCHANGED <<time, durable, loaded, founders, slots, row, served, requests, restarts>>

\* save_admin_session: a session as old as the request.
SaveSession(b, s) ==
    /\ tab[b].pc = "save" /\ row[s].state = "none" /\ (\A o \in 1..(s - 1) : row[o].state # "none")
    /\ row' = [row EXCEPT ![s] = [state |-> "live", role |-> tab[b].account.role,
                                  created |-> tab[b].at, seen |-> tab[b].at, used |-> tab[b].at]]
    /\ slots' = slots + 1 /\ Step(b, Ready)
    /\ UNCHANGED <<time, durable, loaded, founders, served, requests, restarts>>

-----------------------------------------------------------------------------
(* require_admin_auth around a handler. *)

\* A request with the cookie of session s; one that is not a read shows the CSRF
\* token of session x, or none (0), and comes from an allowed origin or not.
SendRequest(b, s, kind, x, trusted) ==
    /\ Arrives(b) /\ row[s].state # "none" /\ loaded # Nobody
    /\ kind = "get" => trusted /\ x = s
    /\ Step(b, [pc |-> "read", session |-> s, kind |-> kind, csrf |-> x, trusted |-> trusted,
                at |-> time, before |-> 0])
    /\ UNCHANGED <<time, durable, loaded, founders, slots, row, served, restarts>>

\* admin_session, with the time the request took before it.
MutIdleIsKept(r, at) == r.created <= at - Absolute
Outlived(r, at) == r.seen <= at - Idle \/ r.created <= at - Absolute
ReadSession(b) ==
    /\ tab[b].pc = "read"
    /\ LET r == row[tab[b].session]
           at == tab[b].at
           good == r.state = "live" /\ ~Outlived(r, at)
       IN /\ Step(b, IF r.state # "live" THEN Ready
                     ELSE [tab[b] EXCEPT !.pc = IF ~good THEN "expire"
                                                ELSE IF r.seen <= at - TouchAfter THEN "touch" ELSE "checks",
                                         !.before = r.used])
          /\ row' = IF good /\ at > r.used THEN [row EXCEPT ![tab[b].session].used = at] ELSE row
    /\ UNCHANGED <<time, durable, loaded, founders, slots, served, requests, restarts>>

ExpireSession(b) ==
    /\ tab[b].pc = "expire" /\ Step(b, Ready)
    /\ row' = [row EXCEPT ![tab[b].session].state = "gone"]
    /\ UNCHANGED <<time, durable, loaded, founders, slots, served, requests, restarts>>

\* touch_admin_session updates a row that is there.
MutTouchInserts(b) ==
    /\ tab[b].pc = "touch" /\ Step(b, [tab[b] EXCEPT !.pc = "checks"])
    /\ row' = [row EXCEPT ![tab[b].session].state = "live", ![tab[b].session].seen = tab[b].at]
    /\ UNCHANGED <<time, durable, loaded, founders, slots, served, requests, restarts>>
TouchSession(b) ==
    /\ tab[b].pc = "touch" /\ Step(b, [tab[b] EXCEPT !.pc = "checks"])
    /\ row' = IF row[tab[b].session].state = "live"
              THEN [row EXCEPT ![tab[b].session].seen = tab[b].at] ELSE row
    /\ UNCHANGED <<time, durable, loaded, founders, slots, served, requests, restarts>>

\* The checks after authentication: origin, CSRF token, role.
MutAnyToken(b) ==
    \/ tab[b].kind = "get"
    \/ tab[b].trusted /\ (tab[b].kind = "logout" \/ row[tab[b].session].role = "administrator")
Allowed(b) ==
    \/ tab[b].kind = "get"
    \/ /\ tab[b].trusted /\ tab[b].csrf = tab[b].session
       /\ tab[b].kind = "logout" \/ row[tab[b].session].role = "administrator"
Refuse(b) ==
    /\ tab[b].pc = "checks" /\ ~Allowed(b) /\ Step(b, Ready)
    /\ UNCHANGED <<time, durable, loaded, founders, slots, row, served, requests, restarts>>

\* The handler runs; admin_logout deletes the row.
Perform(b) ==
    /\ tab[b].pc = "checks" /\ Allowed(b) /\ Step(b, Ready)
    /\ row' = [row EXCEPT ![tab[b].session].state = IF tab[b].kind = "logout" THEN "gone" ELSE @]
    /\ served' = {tab[b]}
    /\ UNCHANGED <<time, durable, loaded, founders, slots, requests, restarts>>

\* AdminAuthenticator::cleanup
DeleteExpired ==
    /\ \E s \in Session : row[s].state = "live" /\ Outlived(row[s], time)
    /\ row' = [s \in Session |-> IF row[s].state = "live" /\ Outlived(row[s], time)
                                 THEN [row[s] EXCEPT !.state = "gone"] ELSE row[s]]
    /\ UNCHANGED <<time, durable, loaded, founders, slots, tab, served, requests, restarts>>

AdminNext ==
    \/ AdminTick \/ Restart \/ DeleteExpired
    \/ \E b \in Tab, u \in User : BeginSetup(b, u) \/ SendLogin(b, u)
    \/ \E b \in Tab : CreateCredential(b) \/ PublishCredential(b) \/ AcquireSlot(b) \/ Busy(b)
                      \/ LoginEnds(b) \/ Verified(b)
    \/ \E b \in Tab, s \in Session : SaveSession(b, s)
    \/ \E b \in Tab, s \in Session, x \in Session \cup {0}, trusted \in BOOLEAN, kind \in {"get", "change", "logout"} :
          SendRequest(b, s, kind, x, trusted)
    \/ \E b \in Tab : ReadSession(b) \/ ExpireSession(b) \/ TouchSession(b) \/ Refuse(b) \/ Perform(b)

AdminSpec == AdminInit /\ [][AdminNext]_adminVars

-----------------------------------------------------------------------------
(* Properties. *)

\* The account, the slots, the rows and the requests have their types.
AdminTypeOK ==
    /\ durable \in {Nobody} \cup Account /\ loaded \in {Nobody} \cup Account
    /\ founders \subseteq User /\ slots \in 0..LoginSlots
    /\ row \in [Session -> [state : {"none", "live", "gone"}, role : {"none", "operator", "administrator"},
                            created : 0..MaxTime, seen : 0..MaxTime, used : 0..MaxTime]]
    /\ time \in 0..MaxTime /\ requests \in 0..MaxRequests /\ restarts \in 0..MaxRestarts

\* However many setups race and wherever the process stops, one of them is told
\* that the account is its user's, and the stored account stays that one
\* (AdminAuthenticator::setup).
OneFirstAdministrator ==
    \A u \in founders : durable = [user |-> u, role |-> "administrator"]

\* Memory never has an account the store does not have: what setup published
\* before a crash is what load finds after it.
LoadedIsDurable == loaded # Nobody => loaded = durable

\* Every permit of login_slots is free or held by a login that verifies or
\* saves, whichever way earlier logins ended: no more than LoginSlots passwords
\* are hashed at once, and no slot is lost.
SlotsAddUp == slots + Cardinality({b \in Tab : tab[b].pc \in {"verify", "save"}}) = LoginSlots

\* A session that was logged out or has expired stays gone, also when another
\* request had read its row before and touches it after (authenticate).
GoneIsGone == [][\A s \in Session : row[s].state = "gone" => row'[s].state = "gone"]_adminVars

\* A request is served only if another one authenticated with its session less
\* than Idle before it, and the session was made less than Absolute before it:
\* touches are sparse and may arrive late and out of order, but never keep an
\* unused session alive (authenticate).
UnusedSessionDies ==
    \A v \in served : v.at < v.before + Idle /\ v.at < row[v.session].created + Absolute

\* Nothing but a read is served on the strength of the cookie alone: the request
\* shows the token of its own session, from an allowed origin (require_admin_auth).
ChangesShowTheirToken ==
    \A v \in served : v.kind # "get" => v.csrf = v.session /\ v.trusted

\* One first administrator, durably; login slots that come back; sessions that
\* die unused; changes only with the session's own token (AdminAuthenticator and
\* the handlers in front of it).
AdminIsGuarded ==
    /\ AdminTypeOK
    /\ OneFirstAdministrator /\ LoadedIsDurable
    /\ SlotsAddUp /\ UnusedSessionDies /\ ChangesShowTheirToken
=============================================================================

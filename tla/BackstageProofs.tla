---------------------------- MODULE BackstageProofs --------------------------
(***************************************************************************)
(* Proofs about AdminAccess, ParticipantAccess, SessionLog, RemoteAgent,   *)
(* RemoteValues and RejectedInput, for any tabs, people, rooms,            *)
(* credentials, sockets, life times, rates and sizes, and about the run    *)
(* that MCBackstage makes of them.                                         *)
(***************************************************************************)
EXTENDS MCBackstage, FiniteSetTheorems, TLAPS

-----------------------------------------------------------------------------
(***************************************************************************)
(* The administrator.  What a tab is doing.                                *)
(***************************************************************************)
Kind == {"get", "change", "logout"}
Moment == 0..MaxTime
Founding == [pc : {"create", "publish", "enter"}, user : User]
Login == [pc : {"verify", "save"}, user : User, account : Account, at : Moment]
Cookie == [pc : {"read", "expire", "touch", "checks"}, session : Session, kind : Kind,
           csrf : Session \cup {0}, trusted : BOOLEAN, at : Moment, before : Moment]
TabState == {Ready} \cup Founding \cup Login \cup Cookie
Row == [state : {"none", "live", "gone"}, role : {"none", "operator", "administrator"},
        created : Moment, seen : Moment, used : Moment]

\* Memory is about to follow what the store has.
PublishedIsDurable ==
    \A b \in Tab : tab[b].pc = "publish" => durable = [user |-> tab[b].user, role |-> "administrator"]

\* A row is seen only by requests that used it.
SeenIsUsed == \A s \in Session : row[s].seen <= row[s].used

\* What has been established of the request v when it is past admin_session:
\* it is of a session that was made less than Absolute before, and was used by
\* another request less than Idle before.
Fresh(v) ==
    /\ row[v.session].state # "none"
    /\ v.at < v.before + Idle /\ v.at < row[v.session].created + Absolute

CookieIsGood ==
    \A b \in Tab :
        /\ tab[b].pc \in {"read", "expire", "touch", "checks"} => row[tab[b].session].state # "none"
        /\ tab[b].pc \in {"touch", "checks"} => Fresh(tab[b])
        /\ tab[b].pc = "touch" => tab[b].at <= row[tab[b].session].used

ServedWasGood == \A v \in served : v \in Cookie /\ Fresh(v)

AdminIInv ==
    /\ AdminTypeOK /\ tab \in [Tab -> TabState]
    /\ OneFirstAdministrator /\ LoadedIsDurable /\ PublishedIsDurable
    /\ SlotsAddUp
    /\ SeenIsUsed /\ CookieIsGood /\ ServedWasGood /\ ChangesShowTheirToken
-----------------------------------------------------------------------------
(* Types.                                                                  *)

\* The numbers are numbers, and the names of a state and of a row distinct.
LEMMA AdminNumbers ==
    /\ MaxTime \in Nat /\ MaxRequests \in Nat /\ MaxRestarts \in Nat /\ MaxSession \in Nat
    /\ LoginSlots \in Nat /\ LoginSlots > 0 /\ Idle \in Nat /\ Absolute \in Nat /\ TouchAfter \in Nat
    /\ \A at \in Moment : at \in Nat
    /\ 0 \in Moment
    /\ Nobody \notin Account
<1>1. /\ MaxTime \in Nat /\ MaxRequests \in Nat /\ MaxRestarts \in Nat /\ MaxSession \in Nat
      /\ LoginSlots \in Nat /\ LoginSlots > 0 /\ Idle \in Nat /\ Absolute \in Nat /\ TouchAfter \in Nat
  BY AdminAssumption
<1>2. (\A at \in Moment : at \in Nat) /\ 0 \in Moment
  BY <1>1 DEF Moment
<1>3. Nobody \notin Account
  BY DEF Nobody, Account
<1>4. QED
  BY <1>1, <1>2, <1>3

\* AdminTypeOK, with the type of a row named.
LEMMA AdminTypes ==
    /\ AdminTypeOK <=> /\ durable \in {Nobody} \cup Account /\ loaded \in {Nobody} \cup Account
                       /\ founders \subseteq User /\ slots \in 0..LoginSlots /\ row \in [Session -> Row]
                       /\ time \in Moment /\ requests \in 0..MaxRequests /\ restarts \in 0..MaxRestarts
    /\ AdminTypeOK' <=> /\ durable' \in {Nobody} \cup Account /\ loaded' \in {Nobody} \cup Account
                        /\ founders' \subseteq User /\ slots' \in 0..LoginSlots /\ row' \in [Session -> Row]
                        /\ time' \in Moment /\ requests' \in 0..MaxRequests /\ restarts' \in 0..MaxRestarts
BY DEF AdminTypeOK, Row, Moment

\* The kind of request a tab is at, by its place.
LEMMA TabKinds ==
    ASSUME NEW x \in TabState
    PROVE  /\ x.pc \in {"create", "publish", "enter"} <=> x \in Founding
           /\ x.pc \in {"verify", "save"} <=> x \in Login
           /\ x.pc \in {"read", "expire", "touch", "checks"} <=> x \in Cookie
           /\ x.pc = "idle" <=> x = Ready
BY DEF TabState, Founding, Login, Cookie, Ready

\* The requests a step leaves in a tab.
LEMMA TabTypes ==
    /\ Ready \in TabState /\ Ready.pc = "idle"
    /\ \A u \in User, pc \in {"create", "publish", "enter"} : [pc |-> pc, user |-> u] \in TabState
    /\ \A u \in User, account \in Account, at \in Moment :
          [pc |-> "verify", user |-> u, account |-> account, at |-> at] \in TabState
    /\ \A x \in Founding : [x EXCEPT !.pc = "publish"] \in TabState /\ x.user \in User
    /\ \A x \in Login : [x EXCEPT !.pc = "save"] \in TabState /\ x.at \in Moment /\ x.account.role \in {"operator", "administrator"}
    /\ \A s \in Session, kind \in Kind, t \in Session \cup {0}, trusted \in BOOLEAN, at \in Moment :
          [pc |-> "read", session |-> s, kind |-> kind, csrf |-> t, trusted |-> trusted,
           at |-> at, before |-> 0] \in TabState
    /\ \A x \in Cookie : x.session \in Session /\ x.at \in Moment /\ x.before \in Moment /\ x.kind \in Kind
    /\ \A x \in Cookie : [x EXCEPT !.pc = "checks"] \in TabState
    /\ \A x \in Cookie, pc \in {"expire", "touch", "checks"}, before \in Moment :
          [x EXCEPT !.pc = pc, !.before = before] \in TabState
<1>1. Ready \in TabState /\ Ready.pc = "idle"
  BY DEF TabState, Ready
<1>2. \A u \in User, pc \in {"create", "publish", "enter"} : [pc |-> pc, user |-> u] \in TabState
  BY DEF TabState, Founding
<1>3. \A u \in User, account \in Account, at \in Moment :
          [pc |-> "verify", user |-> u, account |-> account, at |-> at] \in TabState
  BY DEF TabState, Login
<1>4. \A x \in Founding : [x EXCEPT !.pc = "publish"] \in TabState /\ x.user \in User
  BY DEF TabState, Founding
<1>5. \A x \in Login : [x EXCEPT !.pc = "save"] \in TabState /\ x.at \in Moment /\ x.account.role \in {"operator", "administrator"}
  BY DEF TabState, Login, Account
<1>6. \A s \in Session, kind \in Kind, t \in Session \cup {0}, trusted \in BOOLEAN, at \in Moment :
          [pc |-> "read", session |-> s, kind |-> kind, csrf |-> t, trusted |-> trusted,
           at |-> at, before |-> 0] \in TabState
  BY AdminNumbers DEF TabState, Cookie
<1>7. \A x \in Cookie : x.session \in Session /\ x.at \in Moment /\ x.before \in Moment /\ x.kind \in Kind
  BY DEF Cookie
<1>8. \A x \in Cookie : [x EXCEPT !.pc = "checks"] \in TabState
  BY DEF TabState, Cookie
<1>9. \A x \in Cookie, pc \in {"expire", "touch", "checks"}, before \in Moment :
          [x EXCEPT !.pc = pc, !.before = before] \in TabState
  BY DEF TabState, Cookie
<1>10. QED
  BY <1>1, <1>2, <1>3, <1>4, <1>5, <1>6, <1>7, <1>8, <1>9

\* One tab goes on.
LEMMA Stepped ==
    ASSUME tab \in [Tab -> TabState], NEW b \in Tab, NEW x \in TabState, Step(b, x)
    PROVE  tab' \in [Tab -> TabState] /\ tab'[b] = x /\ \A o \in Tab : o # b => tab'[o] = tab[o]
BY DEF Step

\* The step of a tab, and the others.
TabStep(b) ==
    \/ \E u \in User : BeginSetup(b, u) \/ SendLogin(b, u)
    \/ CreateCredential(b) \/ PublishCredential(b) \/ AcquireSlot(b) \/ Busy(b) \/ LoginEnds(b) \/ Verified(b)
    \/ \E s \in Session : SaveSession(b, s)
    \/ \E s \in Session, x \in Session \cup {0}, trusted \in BOOLEAN, kind \in Kind : SendRequest(b, s, kind, x, trusted)
    \/ ReadSession(b) \/ ExpireSession(b) \/ TouchSession(b) \/ Refuse(b) \/ Perform(b)

\* Every step is one of these.
LEMMA AdminKinds ==
    ASSUME [AdminNext]_adminVars
    PROVE  (\E b \in Tab : TabStep(b)) \/ AdminTick \/ Restart \/ DeleteExpired \/ UNCHANGED adminVars
BY DEF AdminNext, TabStep, Kind

\* Where a step leaves the tab it is of.
Turns(b) ==
    \/ tab'[b] = Ready
    \/ tab'[b].pc \in {"create", "enter"}
    \/ /\ CreateCredential(b) /\ durable = Nobody
       /\ tab'[b].pc = "publish" /\ tab'[b].user = tab[b].user
    \/ AcquireSlot(b) /\ loaded # Nobody /\ tab'[b].pc = "verify"
    \/ Verified(b) /\ tab'[b].pc = "save"
    \/ tab'[b].pc = "read" /\ row[tab'[b].session].state # "none" /\ row' = row
    \/ /\ ReadSession(b) /\ tab[b] \in Cookie /\ row[tab[b].session].state = "live"
       /\ tab'[b] = [tab[b] EXCEPT !.pc = IF Outlived(row[tab[b].session], tab[b].at) THEN "expire"
                                          ELSE IF row[tab[b].session].seen <= tab[b].at - TouchAfter
                                          THEN "touch" ELSE "checks",
                                   !.before = row[tab[b].session].used]
    \/ TouchSession(b) /\ tab[b] \in Cookie /\ tab'[b] = [tab[b] EXCEPT !.pc = "checks"]

\* A step of a tab moves that tab only, to one of these places.
LEMMA TabMoves ==
    ASSUME AdminTypeOK, tab \in [Tab -> TabState], NEW b \in Tab, TabStep(b)
    PROVE  tab' \in [Tab -> TabState] /\ Turns(b) /\ \A o \in Tab : o # b => tab'[o] = tab[o]
<1> DEFINE Goal == tab' \in [Tab -> TabState] /\ Turns(b) /\ \A o \in Tab : o # b => tab'[o] = tab[o]
<1>1. tab[b] \in TabState
  OBVIOUS
<1>2. CASE Step(b, Ready)
  BY <1>2, TabTypes, Stepped DEF Turns
<1>3. ASSUME NEW u \in User, NEW pc \in {"create", "enter"}, Step(b, [pc |-> pc, user |-> u]) PROVE Goal
  <2>1. PICK x \in TabState : x = [pc |-> pc, user |-> u]
    BY TabTypes
  <2>2. tab' \in [Tab -> TabState] /\ tab'[b] = x /\ \A o \in Tab : o # b => tab'[o] = tab[o]
    BY <1>3, <2>1, Stepped
  <2>3. QED
    BY <2>1, <2>2 DEF Turns
<1>4. CASE CreateCredential(b) /\ durable = Nobody
  <2>1. tab[b] \in Founding
    BY <1>1, <1>4, TabKinds DEF CreateCredential
  <2>2. PICK x \in TabState : x = [tab[b] EXCEPT !.pc = "publish"]
    BY <2>1, TabTypes
  <2>3. x.pc = "publish" /\ x.user = tab[b].user
    BY <2>1, <2>2 DEF Founding
  <2>4. tab' \in [Tab -> TabState] /\ tab'[b] = x /\ \A o \in Tab : o # b => tab'[o] = tab[o]
    BY <1>4, <2>2, Stepped DEF CreateCredential
  <2>5. QED
    BY <1>4, <2>3, <2>4 DEF Turns
<1>5. CASE PublishCredential(b)
  <2>1. PICK u \in User : u = tab[b].user
    BY <1>1, <1>5, TabKinds, TabTypes DEF PublishCredential
  <2>2. QED
    BY <1>3, <1>5, <2>1 DEF PublishCredential
<1>6. CASE AcquireSlot(b) /\ loaded # Nobody
  <2>1. tab[b].user \in User /\ loaded \in Account /\ time \in Moment
    BY <1>1, <1>6, TabKinds, TabTypes, AdminTypes DEF AcquireSlot
  <2>2. PICK x \in TabState : x = [pc |-> "verify", user |-> tab[b].user, account |-> loaded, at |-> time]
    BY <2>1, TabTypes
  <2>3. tab' \in [Tab -> TabState] /\ tab'[b] = x /\ \A o \in Tab : o # b => tab'[o] = tab[o]
    BY <1>6, <2>2, Stepped DEF AcquireSlot
  <2>4. QED
    BY <1>6, <2>2, <2>3 DEF Turns
<1>7. CASE Verified(b)
  <2>1. tab[b] \in Login
    BY <1>1, <1>7, TabKinds DEF Verified
  <2>2. PICK x \in TabState : x = [tab[b] EXCEPT !.pc = "save"]
    BY <2>1, TabTypes
  <2>3. tab' \in [Tab -> TabState] /\ tab'[b] = x /\ \A o \in Tab : o # b => tab'[o] = tab[o]
    BY <1>7, <2>2, Stepped DEF Verified
  <2>4. x.pc = "save"
    BY <2>1, <2>2 DEF Login
  <2>5. QED
    BY <1>7, <2>3, <2>4 DEF Turns
<1>8. ASSUME NEW s \in Session, NEW t \in Session \cup {0}, NEW trusted \in BOOLEAN, NEW kind \in Kind,
             SendRequest(b, s, kind, t, trusted)
      PROVE  Goal
  <2>1. time \in Moment
    BY AdminTypes
  <2>2. PICK x \in TabState : x = [pc |-> "read", session |-> s, kind |-> kind, csrf |-> t, trusted |-> trusted,
                                   at |-> time, before |-> 0]
    BY <2>1, TabTypes
  <2>3. tab' \in [Tab -> TabState] /\ tab'[b] = x /\ \A o \in Tab : o # b => tab'[o] = tab[o]
    BY <1>8, <2>2, Stepped DEF SendRequest
  <2>4. QED
    BY <1>8, <2>2, <2>3 DEF Turns, SendRequest
<1>9. CASE ReadSession(b) /\ row[tab[b].session].state = "live"
  <2>1. tab[b] \in Cookie
    BY <1>1, <1>9, TabKinds DEF ReadSession
  <2>2. PICK before \in Moment : before = row[tab[b].session].used
    BY <2>1, AdminTypes, TabTypes DEF Row
  <2>3. PICK pc \in {"expire", "touch", "checks"} :
             pc = IF Outlived(row[tab[b].session], tab[b].at) THEN "expire"
                  ELSE IF row[tab[b].session].seen <= tab[b].at - TouchAfter THEN "touch" ELSE "checks"
    OBVIOUS
  <2>4. PICK x \in TabState : x = [tab[b] EXCEPT !.pc = pc, !.before = before]
    BY <2>1, TabTypes
  <2>5. Step(b, x)
    BY <1>9, <2>2, <2>3, <2>4 DEF ReadSession
  <2>6. tab' \in [Tab -> TabState] /\ tab'[b] = x /\ \A o \in Tab : o # b => tab'[o] = tab[o]
    BY <2>5, Stepped
  <2>7. QED
    BY <1>9, <2>1, <2>2, <2>3, <2>4, <2>6 DEF Turns
<1>10. CASE TouchSession(b)
  <2>1. tab[b] \in Cookie
    BY <1>1, <1>10, TabKinds DEF TouchSession
  <2>2. PICK x \in TabState : x = [tab[b] EXCEPT !.pc = "checks"]
    BY <2>1, TabTypes
  <2>3. tab' \in [Tab -> TabState] /\ tab'[b] = x /\ \A o \in Tab : o # b => tab'[o] = tab[o]
    BY <1>10, <2>2, Stepped DEF TouchSession
  <2>4. QED
    BY <1>10, <2>1, <2>2, <2>3 DEF Turns
<1>11. QED
  <2>1. ASSUME NEW u \in User, BeginSetup(b, u) \/ SendLogin(b, u) PROVE Goal
    <3>1. \/ Step(b, [pc |-> "create", user |-> u]) \/ Step(b, [pc |-> "enter", user |-> u]) \/ Step(b, Ready)
      BY <2>1 DEF BeginSetup, SendLogin
    <3>2. QED
      BY <1>2, <1>3, <3>1
  <2>2. CASE CreateCredential(b) \/ AcquireSlot(b) \/ ReadSession(b)
    BY <1>2, <1>4, <1>6, <1>9, <2>2 DEF CreateCredential, AcquireSlot, ReadSession
  <2>3. CASE \/ Busy(b) \/ LoginEnds(b) \/ (\E s \in Session : SaveSession(b, s))
             \/ ExpireSession(b) \/ Refuse(b) \/ Perform(b)
    BY <1>2, <2>3 DEF Busy, LoginEnds, SaveSession, ExpireSession, Refuse, Perform
  <2>4. QED
    BY <1>5, <1>7, <1>8, <1>10, <2>1, <2>2, <2>3 DEF TabStep
-----------------------------------------------------------------------------
(* Rows.                                                                   *)

\* What a step may do to the row of a session.
RowGoesTo(r, x) ==
    /\ x.seen <= x.used
    /\ r.state # "none" => x.state # "none" /\ x.created = r.created /\ r.used <= x.used
    /\ r.state = "gone" => x.state = "gone"

\* One row is replaced.
LEMMA OneRow ==
    ASSUME AdminTypeOK, SeenIsUsed, NEW s \in Session, NEW x \in Row, row' = [row EXCEPT ![s] = x],
           RowGoesTo(row[s], x)
    PROVE  row' \in [Session -> Row] /\ \A t \in Session : RowGoesTo(row[t], row'[t])
<1>1. row \in [Session -> Row]
  BY AdminTypes
<1>2. row' \in [Session -> Row] /\ row'[s] = x /\ \A t \in Session : t # s => row'[t] = row[t]
  BY <1>1
<1>3. \A t \in Session : row[t].used \in Nat
  BY <1>1, AdminNumbers DEF Row
<1>4. QED
  BY <1>2, <1>3 DEF RowGoesTo, SeenIsUsed

\* The rows stay.
LEMMA SameRows ==
    ASSUME AdminTypeOK, SeenIsUsed, row' = row
    PROVE  row' \in [Session -> Row] /\ \A t \in Session : RowGoesTo(row[t], row'[t])
<1>1. row \in [Session -> Row] /\ \A t \in Session : row[t].used \in Nat
  BY AdminTypes, AdminNumbers DEF Row
<1>2. QED
  BY <1>1 DEF RowGoesTo, SeenIsUsed

\* Every step leaves a row that was deleted deleted, and one that was made as
\* old as it is.
LEMMA RowMoves ==
    ASSUME AdminIInv, [AdminNext]_adminVars
    PROVE  row' \in [Session -> Row] /\ \A t \in Session : RowGoesTo(row[t], row'[t])
<1> DEFINE Goal == row' \in [Session -> Row] /\ \A t \in Session : RowGoesTo(row[t], row'[t])
<1>1. AdminTypeOK /\ SeenIsUsed /\ tab \in [Tab -> TabState] /\ row \in [Session -> Row] /\ CookieIsGood
  BY AdminTypes DEF AdminIInv
<1>2. CASE row' = row
  BY <1>1, <1>2, SameRows
<1>3. ASSUME NEW b \in Tab, NEW s \in Session, SaveSession(b, s) PROVE Goal
  <2>1. tab[b] \in Login
    BY <1>1, <1>3, TabKinds DEF SaveSession
  <2>2. PICK at \in Moment, role \in {"operator", "administrator"} : at = tab[b].at /\ role = tab[b].account.role
    BY <2>1, TabTypes
  <2>3. PICK x : x = [state |-> "live", role |-> role, created |-> at, seen |-> at, used |-> at]
    OBVIOUS
  <2>4. x \in Row
    BY <2>3 DEF Row
  <2>5. row' = [row EXCEPT ![s] = x] /\ row[s].state = "none"
    BY <1>3, <2>2, <2>3 DEF SaveSession
  <2>6. RowGoesTo(row[s], x)
    BY <2>3, <2>5, AdminNumbers DEF RowGoesTo
  <2>7. QED
    BY <1>1, <2>4, <2>5, <2>6, OneRow
<1>4. ASSUME NEW b \in Tab, tab[b] \in Cookie, NEW s \in Session, s = tab[b].session,
             ReadSession(b) \/ ExpireSession(b) \/ TouchSession(b) \/ Perform(b)
      PROVE  Goal
  <2>1. PICK r \in Row : r = row[s]
    BY <1>1
  <2>2. /\ r.seen \in Nat /\ r.used \in Nat /\ r.seen <= r.used /\ tab[b].at \in Nat /\ tab[b].at \in Moment
    BY <1>1, <1>4, <2>1, AdminNumbers, TabTypes DEF SeenIsUsed, Row
  <2>3. ASSUME ReadSession(b), row' # row PROVE Goal
    <3>1. row' = [row EXCEPT ![s] = [r EXCEPT !.used = tab[b].at]] /\ tab[b].at > r.used
      BY <1>4, <2>1, <2>3 DEF ReadSession
    <3>2. PICK x \in Row : x = [r EXCEPT !.used = tab[b].at]
      BY <2>2 DEF Row
    <3>3. x.used = tab[b].at /\ x.seen = r.seen /\ x.state = r.state /\ x.created = r.created
      BY <3>2 DEF Row
    <3>4. RowGoesTo(row[s], x)
      BY <2>1, <2>2, <3>1, <3>3 DEF RowGoesTo
    <3>5. QED
      BY <1>1, <3>1, <3>2, <3>4, OneRow
  <2>4. ASSUME TouchSession(b), row' # row PROVE Goal
    <3>1. row' = [row EXCEPT ![s] = [r EXCEPT !.seen = tab[b].at]] /\ tab[b].at <= r.used
      BY <1>1, <1>4, <2>1, <2>4 DEF TouchSession, CookieIsGood
    <3>2. PICK x \in Row : x = [r EXCEPT !.seen = tab[b].at]
      BY <2>2 DEF Row
    <3>3. x.used = r.used /\ x.seen = tab[b].at /\ x.state = r.state /\ x.created = r.created
      BY <3>2 DEF Row
    <3>4. RowGoesTo(row[s], x)
      BY <2>1, <2>2, <3>1, <3>3 DEF RowGoesTo
    <3>5. QED
      BY <1>1, <3>1, <3>2, <3>4, OneRow
  <2>5. CASE ExpireSession(b) \/ Perform(b)
    <3>1. PICK state \in {r.state, "gone"} : row' = [row EXCEPT ![s] = [r EXCEPT !.state = state]]
      BY <1>4, <2>1, <2>5 DEF ExpireSession, Perform
    <3>2. PICK x \in Row : x = [r EXCEPT !.state = state]
      BY DEF Row
    <3>3. x.used = r.used /\ x.seen = r.seen /\ x.state = state /\ x.created = r.created
      BY <3>2 DEF Row
    <3>4. RowGoesTo(row[s], x)
      BY <2>1, <2>2, <3>1, <3>3 DEF RowGoesTo
    <3>5. QED
      BY <1>1, <3>1, <3>2, <3>4, OneRow
  <2>6. QED
    BY <1>2, <1>4, <2>3, <2>4, <2>5
<1>5. CASE DeleteExpired
  <2>1. ASSUME NEW t \in Session PROVE row'[t] \in Row /\ RowGoesTo(row[t], row'[t])
    <3>1. PICK r \in Row : r = row[t]
      BY <1>1
    <3>2. r.seen \in Nat /\ r.used \in Nat /\ r.seen <= r.used
      BY <1>1, <3>1, AdminNumbers DEF SeenIsUsed, Row
    <3>3. PICK state \in {r.state, "gone"} : row'[t] = [r EXCEPT !.state = state]
      <4>1. row'[t] = r \/ row'[t] = [r EXCEPT !.state = "gone"]
        BY <1>5, <3>1 DEF DeleteExpired
      <4>2. r = [r EXCEPT !.state = r.state]
        BY DEF Row
      <4>3. QED
        BY <4>1, <4>2
    <3>4. PICK x \in Row : x = [r EXCEPT !.state = state]
      BY <3>3 DEF Row
    <3>5. x.used = r.used /\ x.seen = r.seen /\ x.state = state /\ x.created = r.created
      BY <3>4 DEF Row
    <3>6. QED
      BY <3>1, <3>2, <3>3, <3>4, <3>5 DEF RowGoesTo
  <2>2. row' = [t \in Session |-> row'[t]]
    BY <1>5 DEF DeleteExpired
  <2>3. QED
    BY <2>1, <2>2
<1>6. ASSUME NEW b \in Tab, TabStep(b), row' # row PROVE Goal
  <2>1. \/ \E s \in Session : SaveSession(b, s)
        \/ ReadSession(b) \/ ExpireSession(b) \/ TouchSession(b) \/ Perform(b)
    BY <1>6 DEF TabStep, BeginSetup, SendLogin, CreateCredential, PublishCredential, AcquireSlot, Busy, LoginEnds,
       Verified, SendRequest, Refuse
  <2>2. CASE \E s \in Session : SaveSession(b, s)
    BY <1>3, <2>2
  <2>3. CASE ReadSession(b) \/ ExpireSession(b) \/ TouchSession(b) \/ Perform(b)
    <3>1. tab[b] \in TabState /\ tab[b].pc \in {"read", "expire", "touch", "checks"}
      BY <1>1, <2>3 DEF ReadSession, ExpireSession, TouchSession, Perform
    <3>2. tab[b] \in Cookie
      BY <3>1, TabKinds
    <3>3. PICK s \in Session : s = tab[b].session
      BY <3>2, TabTypes
    <3>4. QED
      BY <1>4, <2>3, <3>2, <3>3
  <2>4. QED
    BY <2>1, <2>2, <2>3
<1>7. CASE AdminTick \/ Restart \/ UNCHANGED adminVars
  BY <1>2, <1>7 DEF AdminTick, Restart, adminVars
<1>8. QED
  BY <1>2, <1>5, <1>6, <1>7, AdminKinds
-----------------------------------------------------------------------------
(* The requests.                                                           *)

\* What has been established of a request stays so.
LEMMA FreshStays ==
    ASSUME AdminIInv, [AdminNext]_adminVars, NEW v \in Cookie, Fresh(v)
    PROVE  Fresh(v)'
<1>1. v.session \in Session
  BY TabTypes
<1>2. RowGoesTo(row[v.session], row'[v.session])
  BY <1>1, RowMoves
<1>3. row'[v.session].state # "none" /\ row'[v.session].created = row[v.session].created
  BY <1>2 DEF Fresh, RowGoesTo
<1>4. QED
  BY <1>3 DEF Fresh

\* Tabs are where their type says, and a request that goes on has been found good.
LEMMA CookieStep ==
    ASSUME AdminIInv, [AdminNext]_adminVars
    PROVE  tab' \in [Tab -> TabState] /\ CookieIsGood'
<1> DEFINE Good(x) ==
        /\ x.pc \in {"read", "expire", "touch", "checks"} => row[x.session].state # "none"
        /\ x.pc \in {"touch", "checks"} => Fresh(x)
        /\ x.pc = "touch" => x.at <= row[x.session].used
<1>1. AdminTypeOK /\ tab \in [Tab -> TabState] /\ row \in [Session -> Row] /\ SeenIsUsed
  BY AdminTypes DEF AdminIInv
<1>2. \A t \in Session : RowGoesTo(row[t], row'[t]) /\ row'[t] \in Row
  BY RowMoves
<1>3. \A t \in Session : row[t].used \in Nat /\ row'[t].used \in Nat /\ row[t].seen \in Nat /\ row[t].created \in Nat
  BY <1>1, <1>2, AdminNumbers DEF Row
<1>4. ASSUME NEW b \in Tab, tab'[b] = tab[b] PROVE Good(tab[b])'
  <2>1. Good(tab[b])
    BY DEF AdminIInv, CookieIsGood
  <2>2. CASE tab[b].pc \in {"read", "expire", "touch", "checks"}
    <3>1. tab[b] \in Cookie
      BY <1>1, <2>2, TabKinds
    <3>2. tab[b].session \in Session /\ tab[b].at \in Nat
      BY <3>1, TabTypes, AdminNumbers
    <3>3. RowGoesTo(row[tab[b].session], row'[tab[b].session])
      BY <1>2, <3>2
    <3>4. row'[tab'[b].session].state # "none"
      BY <1>4, <2>1, <2>2, <3>3 DEF RowGoesTo
    <3>5. tab[b].pc \in {"touch", "checks"} => Fresh(tab[b])'
      <4>1. SUFFICES ASSUME tab[b].pc \in {"touch", "checks"} PROVE Fresh(tab[b])'
        OBVIOUS
      <4>2. PICK v \in Cookie : v = tab[b] /\ v = tab'[b]
        BY <1>4, <3>1
      <4>3. Fresh(v)'
        BY <2>1, <4>1, <4>2, FreshStays
      <4>4. QED
        BY <4>2, <4>3 DEF Fresh
    <3>6. tab[b].pc = "touch" => tab'[b].at <= row'[tab'[b].session].used
      BY <1>3, <1>4, <2>1, <3>2, <3>3 DEF RowGoesTo
    <3>7. QED
      BY <1>4, <3>4, <3>5, <3>6
  <2>3. CASE tab[b].pc \notin {"read", "expire", "touch", "checks"}
    BY <1>4, <2>3
  <2>4. QED
    BY <2>2, <2>3
<1>5. ASSUME NEW b \in Tab, Turns(b) PROVE Good(tab[b])'
  <2>1. CASE tab'[b] = Ready \/ tab'[b].pc \in {"create", "enter", "publish", "verify", "save"}
    BY <2>1, TabTypes
  <2>2. CASE tab'[b].pc = "read" /\ row[tab'[b].session].state # "none" /\ row' = row
    BY <2>2
  <2>3. CASE /\ ReadSession(b) /\ tab[b] \in Cookie /\ row[tab[b].session].state = "live"
             /\ tab'[b] = [tab[b] EXCEPT !.pc = IF Outlived(row[tab[b].session], tab[b].at) THEN "expire"
                                          ELSE IF row[tab[b].session].seen <= tab[b].at - TouchAfter
                                          THEN "touch" ELSE "checks",
                                   !.before = row[tab[b].session].used]
    <3>1. PICK s \in Session, at \in Nat : s = tab[b].session /\ at = tab[b].at
      BY <2>3, TabTypes, AdminNumbers
    <3>2. /\ tab'[b].session = s /\ tab'[b].at = at /\ tab'[b].before = row[s].used
          /\ tab'[b].pc \in {"expire", "touch", "checks"}
          /\ tab'[b].pc # "expire" => ~Outlived(row[s], at)
      BY <2>3, <3>1 DEF Cookie
    <3>3. row'[s].state = "live" /\ row'[s].created = row[s].created
          /\ (tab'[b].pc # "expire" => at <= row'[s].used)
      <4>1. PICK r \in Row : r = row[s]
        BY <1>1
      <4>2. /\ row' = IF ~Outlived(r, at) /\ at > r.used THEN [row EXCEPT ![s] = [r EXCEPT !.used = at]] ELSE row
            /\ r.state = "live"
        BY <2>3, <3>1, <4>1 DEF ReadSession
      <4>3. CASE ~Outlived(r, at) /\ at > r.used
        <5>1. row'[s] = [r EXCEPT !.used = at]
          BY <1>1, <4>2, <4>3
        <5>2. QED
          BY <4>1, <4>2, <5>1 DEF Row
      <4>4. CASE ~(~Outlived(r, at) /\ at > r.used)
        BY <1>3, <3>2, <4>1, <4>2, <4>4
      <4>5. QED
        BY <4>3, <4>4
    <3>4. tab'[b].pc # "expire" => at < row[s].used + Idle /\ at < row[s].created + Absolute
      BY <1>1, <1>3, <3>2, AdminNumbers DEF Outlived, SeenIsUsed
    <3>5. QED
      BY <3>2, <3>3, <3>4 DEF Fresh
  <2>4. CASE TouchSession(b) /\ tab[b] \in Cookie /\ tab'[b] = [tab[b] EXCEPT !.pc = "checks"]
    <3>1. Fresh(tab[b])
      BY <2>4 DEF TouchSession, AdminIInv, CookieIsGood
    <3>2. PICK v \in Cookie : v = tab[b]
      BY <2>4
    <3>3. Fresh(v)'
      BY <3>1, <3>2, FreshStays
    <3>4. /\ tab'[b].session = v.session /\ tab'[b].at = v.at /\ tab'[b].before = v.before
          /\ tab'[b].pc = "checks"
      BY <2>4, <3>2 DEF Cookie
    <3>5. QED
      BY <3>3, <3>4 DEF Fresh
  <2>5. QED
    BY <1>5, <2>1, <2>2, <2>3, <2>4 DEF Turns
<1>6. tab' \in [Tab -> TabState] /\ \A b \in Tab : tab'[b] = tab[b] \/ Turns(b)
  <2>1. CASE \E b \in Tab : TabStep(b)
    BY <1>1, <2>1, TabMoves
  <2>2. CASE AdminTick \/ DeleteExpired \/ UNCHANGED adminVars
    BY <1>1, <2>2 DEF AdminTick, DeleteExpired, adminVars
  <2>3. CASE Restart
    BY <2>3, TabTypes DEF Restart, Turns
  <2>4. QED
    BY <2>1, <2>2, <2>3, AdminKinds
<1>7. QED
  BY <1>4, <1>5, <1>6 DEF CookieIsGood

\* A request that is served had been found good, with the token of its session.
LEMMA ServedStep ==
    ASSUME AdminIInv, [AdminNext]_adminVars
    PROVE  ServedWasGood' /\ ChangesShowTheirToken'
<1>1. tab \in [Tab -> TabState] /\ ServedWasGood /\ ChangesShowTheirToken /\ CookieIsGood
  BY DEF AdminIInv
<1>2. ASSUME NEW b \in Tab, Perform(b) PROVE ServedWasGood' /\ ChangesShowTheirToken'
  <2>1. tab[b] \in Cookie /\ Fresh(tab[b]) /\ Allowed(b) /\ served' = {tab[b]}
    BY <1>1, <1>2, TabKinds DEF Perform, CookieIsGood
  <2>2. PICK v \in Cookie : v = tab[b]
    BY <2>1
  <2>3. Fresh(v)'
    BY <2>1, <2>2, FreshStays
  <2>4. served' = {v} /\ (v.kind # "get" => v.csrf = v.session /\ v.trusted)
    BY <2>1, <2>2 DEF Allowed
  <2>5. QED
    BY <2>3, <2>4 DEF ServedWasGood, ChangesShowTheirToken
<1>3. CASE served' = served
  <2>1. \A v \in served : v \in Cookie /\ Fresh(v)'
    BY <1>1, FreshStays DEF ServedWasGood
  <2>2. QED
    BY <1>1, <1>3, <2>1 DEF ServedWasGood, ChangesShowTheirToken
<1>4. ASSUME NEW b \in Tab, TabStep(b), ~Perform(b) PROVE served' = served
  BY <1>4 DEF TabStep, BeginSetup, SendLogin, CreateCredential, PublishCredential, AcquireSlot, Busy, LoginEnds,
     Verified, SaveSession, SendRequest, ReadSession, ExpireSession, TouchSession, Refuse
<1>5. CASE AdminTick \/ Restart \/ DeleteExpired \/ UNCHANGED adminVars
  BY <1>3, <1>5 DEF AdminTick, Restart, DeleteExpired, adminVars
<1>6. QED
  BY <1>2, <1>3, <1>4, <1>5, AdminKinds
-----------------------------------------------------------------------------
(* The account.                                                            *)

\* The stored account is made once, for one founder, and memory follows it.
LEMMA AccountStep ==
    ASSUME AdminIInv, [AdminNext]_adminVars
    PROVE  /\ durable' \in {Nobody} \cup Account /\ loaded' \in {Nobody} \cup Account /\ founders' \subseteq User
           /\ OneFirstAdministrator' /\ LoadedIsDurable' /\ PublishedIsDurable'
<1>1. /\ AdminTypeOK /\ tab \in [Tab -> TabState]
      /\ OneFirstAdministrator /\ LoadedIsDurable /\ PublishedIsDurable
      /\ durable \in {Nobody} \cup Account /\ loaded \in {Nobody} \cup Account /\ founders \subseteq User
      /\ tab' \in [Tab -> TabState]
  BY AdminTypes, CookieStep DEF AdminIInv
<1>2. \A u \in User : [user |-> u, role |-> "administrator"] \in Account
  BY DEF Account
<1>3. \A u : [user |-> u, role |-> "administrator"] # Nobody
  BY DEF Nobody
<1>4. ASSUME NEW b \in Tab, CreateCredential(b), durable = Nobody
      PROVE  /\ durable' \in {Nobody} \cup Account /\ loaded' \in {Nobody} \cup Account /\ founders' \subseteq User
             /\ OneFirstAdministrator' /\ LoadedIsDurable' /\ PublishedIsDurable'
  <2>1. PICK u \in User : u = tab[b].user
    BY <1>1, <1>4, TabKinds, TabTypes DEF CreateCredential
  <2>2. durable' = [user |-> u, role |-> "administrator"] /\ founders' = founders \cup {u} /\ loaded' = loaded
    BY <1>4, <2>1 DEF CreateCredential
  <2>3. founders = {} /\ loaded = Nobody
    BY <1>1, <1>3, <1>4 DEF OneFirstAdministrator, LoadedIsDurable
  <2>4. \A o \in Tab : tab[o].pc # "publish"
    BY <1>1, <1>3, <1>4 DEF PublishedIsDurable
  <2>5. TabStep(b)
    BY <1>4 DEF TabStep
  <2>6. Turns(b) /\ \A o \in Tab : o # b => tab'[o] = tab[o]
    BY <1>1, <2>5, TabMoves
  <2>7. tab'[b].user = u
    <3>1. tab[b] \in Founding /\ tab' = [tab EXCEPT ![b] = [tab[b] EXCEPT !.pc = "publish"]]
      BY <1>1, <1>4, TabKinds DEF CreateCredential, Step
    <3>2. tab'[b] = [tab[b] EXCEPT !.pc = "publish"]
      BY <1>1, <3>1
    <3>3. QED
      BY <2>1, <3>1, <3>2 DEF Founding
  <2>8. PublishedIsDurable'
    BY <2>2, <2>4, <2>6, <2>7 DEF PublishedIsDurable
  <2>9. OneFirstAdministrator' /\ LoadedIsDurable'
    BY <2>2, <2>3 DEF OneFirstAdministrator, LoadedIsDurable
  <2>10. QED
    BY <1>1, <1>2, <2>2, <2>8, <2>9
<1>5. ASSUME UNCHANGED <<durable, founders>>, loaded' \in {loaded, durable},
             \A b \in Tab : tab'[b].pc = "publish" => tab[b].pc = "publish" /\ tab'[b].user = tab[b].user
      PROVE  /\ durable' \in {Nobody} \cup Account /\ loaded' \in {Nobody} \cup Account /\ founders' \subseteq User
             /\ OneFirstAdministrator' /\ LoadedIsDurable' /\ PublishedIsDurable'
  BY <1>1, <1>5 DEF OneFirstAdministrator, LoadedIsDurable, PublishedIsDurable
<1>6. ASSUME NEW b \in Tab, TabStep(b), ~(CreateCredential(b) /\ durable = Nobody)
      PROVE  /\ UNCHANGED <<durable, founders>> /\ loaded' \in {loaded, durable}
             /\ \A o \in Tab : tab'[o].pc = "publish" => tab[o].pc = "publish" /\ tab'[o].user = tab[o].user
  <2>1. UNCHANGED <<durable, founders>>
    BY <1>6 DEF TabStep, BeginSetup, SendLogin, CreateCredential, PublishCredential, AcquireSlot, Busy, LoginEnds,
       Verified, SaveSession, SendRequest, ReadSession, ExpireSession, TouchSession, Refuse, Perform
  <2>2. loaded' \in {loaded, durable}
    <3>1. CASE PublishCredential(b)
      BY <1>1, <3>1 DEF PublishCredential, PublishedIsDurable
    <3>2. CASE ~PublishCredential(b)
      BY <1>6, <3>2 DEF TabStep, BeginSetup, SendLogin, CreateCredential, AcquireSlot, Busy, LoginEnds,
         Verified, SaveSession, SendRequest, ReadSession, ExpireSession, TouchSession, Refuse, Perform
    <3>3. QED
      BY <3>1, <3>2
  <2>3. Turns(b) /\ \A o \in Tab : o # b => tab'[o] = tab[o]
    BY <1>1, <1>6, TabMoves
  <2>4. tab'[b].pc # "publish"
    BY <1>6, <2>3, TabTypes DEF Turns, Cookie
  <2>5. QED
    BY <2>1, <2>2, <2>3, <2>4
<1>7. CASE AdminTick \/ DeleteExpired \/ UNCHANGED adminVars
  BY <1>5, <1>7 DEF AdminTick, DeleteExpired, adminVars
<1>8. CASE Restart
  <2>1. \A b \in Tab : tab'[b].pc = "idle"
    BY <1>8, TabTypes DEF Restart
  <2>2. QED
    BY <1>5, <1>8, <2>1 DEF Restart
<1>9. CASE \E b \in Tab : TabStep(b)
  BY <1>4, <1>5, <1>6, <1>9
<1>10. QED
  BY <1>7, <1>8, <1>9, AdminKinds
-----------------------------------------------------------------------------
(* The slots.                                                              *)
Busied == {b \in Tab : tab[b].pc \in {"verify", "save"}}

\* Slots that are taken and given back add up.
LEMMA SlotsStep ==
    ASSUME AdminIInv, [AdminNext]_adminVars
    PROVE  slots' \in 0..LoginSlots /\ SlotsAddUp'
<1>1. AdminTypeOK /\ tab \in [Tab -> TabState] /\ slots \in 0..LoginSlots /\ tab' \in [Tab -> TabState]
  BY AdminTypes, CookieStep DEF AdminIInv
<1>2. IsFiniteSet(Busied) /\ Cardinality(Busied) \in Nat /\ slots + Cardinality(Busied) = LoginSlots
  <2>1. Busied \subseteq Tab /\ IsFiniteSet(Tab)
    BY AdminAssumption DEF Busied
  <2>2. IsFiniteSet(Busied)
    BY <2>1, FS_Subset
  <2>3. QED
    BY <2>2, FS_CardinalityType DEF AdminIInv, SlotsAddUp, Busied
<1>3. ASSUME slots' \in Int, Cardinality(Busied') \in Nat, slots' >= 0, slots' + Cardinality(Busied') = LoginSlots
      PROVE  slots' \in 0..LoginSlots /\ SlotsAddUp'
  BY <1>3, AdminNumbers DEF SlotsAddUp, Busied
<1>4. ASSUME slots' = slots, Busied' = Busied PROVE slots' \in 0..LoginSlots /\ SlotsAddUp'
  BY <1>1, <1>2, <1>3, <1>4, AdminNumbers
<1>5. ASSUME NEW b \in Tab, AcquireSlot(b), loaded # Nobody PROVE slots' \in 0..LoginSlots /\ SlotsAddUp'
  <2>1. TabStep(b)
    BY <1>5 DEF TabStep
  <2>2. \A o \in Tab : o # b => tab'[o] = tab[o]
    BY <1>1, <2>1, TabMoves
  <2>3. tab'[b].pc = "verify" /\ tab[b].pc = "enter"
    BY <1>1, <1>5 DEF AcquireSlot, Step
  <2>4. Busied' = Busied \cup {b} /\ b \notin Busied
    BY <2>2, <2>3 DEF Busied
  <2>5. Cardinality(Busied') = Cardinality(Busied) + 1
    BY <1>2, <2>4, FS_AddElement
  <2>6. slots' = slots - 1 /\ slots > 0
    BY <1>5 DEF AcquireSlot
  <2>7. QED
    BY <1>1, <1>2, <1>3, <2>5, <2>6, AdminNumbers
<1>6. ASSUME NEW b \in Tab, LoginEnds(b) \/ \E s \in Session : SaveSession(b, s)
      PROVE  slots' \in 0..LoginSlots /\ SlotsAddUp'
  <2>1. TabStep(b)
    BY <1>6 DEF TabStep
  <2>2. \A o \in Tab : o # b => tab'[o] = tab[o]
    BY <1>1, <2>1, TabMoves
  <2>3. tab[b].pc \in {"verify", "save"} /\ tab'[b] = Ready
    BY <1>1, <1>6 DEF LoginEnds, SaveSession, Step
  <2>4. Busied' = Busied \ {b} /\ b \in Busied
    BY <2>2, <2>3, TabTypes DEF Busied
  <2>5. Cardinality(Busied') = Cardinality(Busied) - 1 /\ IsFiniteSet(Busied')
    BY <1>2, <2>4, FS_RemoveElement
  <2>6. Cardinality(Busied') \in Nat
    BY <2>5, FS_CardinalityType
  <2>7. slots' = slots + 1
    BY <1>6 DEF LoginEnds, SaveSession
  <2>8. QED
    BY <1>1, <1>2, <1>3, <2>5, <2>6, <2>7, AdminNumbers
<1>7. CASE Restart
  <2>1. slots' = LoginSlots /\ \A b \in Tab : tab'[b].pc = "idle"
    BY <1>7, TabTypes DEF Restart
  <2>2. Busied' = {}
    BY <2>1 DEF Busied
  <2>3. Cardinality(Busied') = 0
    BY <2>2, FS_EmptySet
  <2>4. QED
    BY <1>3, <2>1, <2>3, AdminNumbers
<1>8. CASE AdminTick \/ DeleteExpired \/ UNCHANGED adminVars
  BY <1>4, <1>8 DEF AdminTick, DeleteExpired, adminVars, Busied
<1>9. ASSUME NEW b \in Tab, TabStep(b), ~(AcquireSlot(b) /\ loaded # Nobody), ~LoginEnds(b),
             ~ \E s \in Session : SaveSession(b, s)
      PROVE  slots' = slots /\ Busied' = Busied
  <2>1. slots' = slots
    BY <1>9 DEF TabStep, BeginSetup, SendLogin, CreateCredential, PublishCredential, AcquireSlot, Busy,
       Verified, SendRequest, ReadSession, ExpireSession, TouchSession, Refuse, Perform
  <2>2. Turns(b) /\ \A o \in Tab : o # b => tab'[o] = tab[o]
    BY <1>1, <1>9, TabMoves
  <2>3. \/ Verified(b) /\ tab'[b].pc = "save"
        \/ tab'[b].pc \notin {"verify", "save"}
    BY <1>9, <2>2, TabTypes DEF Turns, Cookie
  <2>4. ASSUME ~Verified(b) PROVE tab[b].pc \notin {"verify", "save"}
    BY <1>9, <2>4 DEF TabStep, BeginSetup, SendLogin, CreateCredential, PublishCredential, AcquireSlot, Busy,
       SendRequest, ReadSession, ExpireSession, TouchSession, Refuse, Perform, Arrives
  <2>5. ASSUME Verified(b) PROVE tab[b].pc = "verify" /\ tab'[b].pc = "save"
    <3>1. tab[b].pc = "verify" /\ tab' = [tab EXCEPT ![b] = [tab[b] EXCEPT !.pc = "save"]]
      BY <2>5 DEF Verified, Step
    <3>2. tab[b] \in Login /\ tab'[b] = [tab[b] EXCEPT !.pc = "save"]
      BY <1>1, <3>1, TabKinds
    <3>3. QED
      BY <3>1, <3>2 DEF Login
  <2>6. Busied' = Busied
    BY <2>2, <2>3, <2>4, <2>5 DEF Busied
  <2>7. QED
    BY <2>1, <2>6
<1>10. CASE \E b \in Tab : TabStep(b)
  BY <1>4, <1>5, <1>6, <1>9, <1>10
<1>11. QED
  BY <1>7, <1>8, <1>10, AdminKinds
-----------------------------------------------------------------------------
(* The theorems about the administrator.                                   *)

\* Time and the counters stay within their bounds.
LEMMA CountersStep ==
    ASSUME AdminTypeOK, [AdminNext]_adminVars
    PROVE  time' \in Moment /\ requests' \in 0..MaxRequests /\ restarts' \in 0..MaxRestarts
<1>1. time \in Moment /\ requests \in 0..MaxRequests /\ restarts \in 0..MaxRestarts
  BY AdminTypes
<1>2. ASSUME NEW b \in Tab, TabStep(b)
      PROVE  /\ time' = time /\ restarts' = restarts
             /\ requests' = requests \/ (requests < MaxRequests /\ requests' = requests + 1)
  BY <1>2 DEF TabStep, BeginSetup, SendLogin, CreateCredential, PublishCredential, AcquireSlot, Busy, LoginEnds,
     Verified, SaveSession, SendRequest, ReadSession, ExpireSession, TouchSession, Refuse, Perform, Arrives
<1>3. CASE AdminTick
  BY <1>1, <1>3, AdminNumbers DEF AdminTick, Moment
<1>4. CASE Restart
  BY <1>1, <1>4, AdminNumbers DEF Restart
<1>5. CASE DeleteExpired \/ UNCHANGED adminVars
  BY <1>1, <1>5 DEF DeleteExpired, adminVars
<1>6. CASE \E b \in Tab : TabStep(b)
  BY <1>1, <1>2, <1>6, AdminNumbers
<1>7. QED
  BY <1>3, <1>4, <1>5, <1>6, AdminKinds

\* The server starts with no session and every slot free.
LEMMA AdminInitHolds ==
    ASSUME AdminInit
    PROVE  AdminIInv
<1>1. NoRow \in Row /\ NoRow.seen <= NoRow.used
  BY AdminNumbers DEF NoRow, Row
<1>2. /\ row = [s \in Session |-> NoRow] /\ tab = [b \in Tab |-> Ready] /\ founders = {} /\ served = {}
      /\ slots = LoginSlots /\ loaded = durable /\ durable \in {Nobody} \cup Account
      /\ time = 0 /\ requests = 0 /\ restarts = 0
  BY DEF AdminInit
<1>3. AdminTypeOK
  <2>1. row \in [Session -> Row]
    BY <1>1, <1>2
  <2>2. QED
    BY <1>2, <2>1, AdminTypes, AdminNumbers
<1>4. tab \in [Tab -> TabState] /\ \A b \in Tab : tab[b].pc = "idle"
  BY <1>2, TabTypes
<1>5. SlotsAddUp
  <2>1. {b \in Tab : tab[b].pc \in {"verify", "save"}} = {}
    BY <1>4
  <2>2. Cardinality({b \in Tab : tab[b].pc \in {"verify", "save"}}) = 0
    BY <2>1, FS_EmptySet
  <2>3. QED
    BY <1>2, <2>2, AdminNumbers DEF SlotsAddUp
<1>6. SeenIsUsed
  BY <1>1, <1>2 DEF SeenIsUsed
<1>7. QED
  BY <1>2, <1>3, <1>4, <1>5, <1>6 DEF AdminIInv, OneFirstAdministrator, LoadedIsDurable, PublishedIsDurable,
     CookieIsGood, ServedWasGood, ChangesShowTheirToken

\* A step keeps the invariant.
LEMMA AdminStepHolds ==
    ASSUME AdminIInv, [AdminNext]_adminVars
    PROVE  AdminIInv'
<1>1. AdminTypeOK /\ row' \in [Session -> Row] /\ \A t \in Session : RowGoesTo(row[t], row'[t])
  BY RowMoves DEF AdminIInv
<1>2. SeenIsUsed'
  BY <1>1 DEF RowGoesTo, SeenIsUsed
<1>3. AdminTypeOK'
  BY <1>1, AccountStep, SlotsStep, CountersStep, AdminTypes
<1>4. QED
  BY <1>2, <1>3, AccountStep, SlotsStep, CookieStep, ServedStep DEF AdminIInv

\* However setups, logins, requests, touches and logouts of any number of tabs
\* interleave and wherever the process stops: one first administrator, login
\* slots that add up, sessions that die unused, changes only with their token.
THEOREM AdminStaysGuarded == AdminSpec => []AdminIsGuarded
<1>1. AdminInit => AdminIInv
  BY AdminInitHolds
<1>2. AdminIInv /\ [AdminNext]_adminVars => AdminIInv'
  BY AdminStepHolds
<1>3. AdminIInv => AdminIsGuarded
  BY DEF AdminIInv, AdminIsGuarded, ServedWasGood, Fresh, UnusedSessionDies
<1>4. QED
  BY <1>1, <1>2, <1>3, PTL DEF AdminSpec

\* A session row that was deleted, by a logout, by its expiry or by the cleanup,
\* is never live again, though a request may have read it before.
THEOREM DeletedStaysDeleted == AdminSpec => GoneIsGone
<1>1. AdminInit => AdminIInv
  BY AdminInitHolds
<1>2. AdminIInv /\ [AdminNext]_adminVars => AdminIInv'
  BY AdminStepHolds
<1>3. AdminIInv /\ [AdminNext]_adminVars =>
         [\A s \in Session : row[s].state = "gone" => row'[s].state = "gone"]_adminVars
  BY RowMoves DEF RowGoesTo
<1>4. QED
  BY <1>1, <1>2, <1>3, PTL DEF AdminSpec, GoneIsGone
-----------------------------------------------------------------------------
(***************************************************************************)
(* The participants.  Their tickets and the upgrades that present them.    *)
(***************************************************************************)
Instant == 0..MaxClock
Shown == [is : {TRUE}, ticket : Ticket, purpose : Purpose, room : Room, at : Instant, held : BOOLEAN]
Visit == [pc : {"none", "refused", "credential", "role", "open"}, claims : {Nothing} \cup Shown]
Minted == [is : {TRUE}, who : Person, room : Room, role : Seat, purpose : Purpose, expires : Int]
Asked == [is : {TRUE}, who : Person, room : Room, purpose : Purpose, role : Seat \cup {"none"}]
Swept == [pc : {"idle", "tickets", "look", "forget", "stale", "revoke"}, expired : SUBSET Person,
          inRooms : SUBSET Person, stale : SUBSET Person]

\* The tickets, the request for one and the sweep have their types.
RestIsTyped ==
    /\ minted \in [Ticket -> {Nothing} \cup Minted] /\ ask \in {Nothing} \cup Asked /\ sweep \in Swept

\* An upgrade that went on showed a ticket that fitted and is gone.
PresentedIsGone ==
    \A u \in Upgrade : Went(u) =>
        /\ upgrade[u].claims \in Shown /\ upgrade[u].claims.at <= clock
        /\ upgrade[u].claims.ticket \notin tickets /\ Claims(u).is
        /\ Claims(u).purpose = upgrade[u].claims.purpose /\ Claims(u).room = upgrade[u].claims.room

\* A credential in the registry was issued.
RecordsWereIssued == \A c \in records : issuedAt[c] # Never

\* Somebody who held no live credential when the ticket was shown holds none
\* that is older than that and still counts.
UnheldStaysUnheld ==
    \A u \in Upgrade : upgrade[u].pc = "credential" /\ ~upgrade[u].claims.held =>
        \A c \in records : HolderOf[c] = Claims(u).who =>
            \/ issuedAt[c] >= upgrade[u].claims.at
            \/ issuedAt[c] + CredentialLife <= upgrade[u].claims.at

\* Past the check of the credential somebody held one, or has entered again.
CheckedWasHeld ==
    \A u \in Upgrade : upgrade[u].pc \in {"role", "open"} =>
        upgrade[u].claims.held \/ \E c \in Credential : HolderOf[c] = Claims(u).who /\ issuedAt[c] >= upgrade[u].claims.at

AccessIInv ==
    /\ AccessTypeOK /\ RestIsTyped
    /\ PresentedIsGone /\ TicketAdmitsOne /\ NewestTicketOnly
    /\ RecordsWereIssued /\ UnheldStaysUnheld /\ CheckedWasHeld

-----------------------------------------------------------------------------
(* Types.                                                                  *)

\* The numbers are numbers.
LEMMA AccessNumbers ==
    /\ CredentialLife \in Nat /\ TicketLife \in Nat /\ UnattachedTimeout \in Nat
    /\ MaxClock \in Nat /\ MaxMoves \in Nat
    /\ \A c \in Credential : HolderOf[c] \in Person
    /\ \A at \in Instant : at \in Nat
BY AccessAssumption DEF Instant

\* AccessTypeOK, with the type of an upgrade named.
LEMMA AccessTypes ==
    /\ AccessTypeOK <=>
          /\ clock \in Instant /\ issuedAt \in [Credential -> {Never} \cup 0..clock]
          /\ records \subseteq Credential /\ remembered \in [Person -> Instant \cup {Never}]
          /\ seat \in [Room -> [Person -> Seat \cup {"none"}]] /\ moves \in 0..MaxMoves
          /\ tickets \subseteq Ticket /\ (\A t \in tickets : minted[t].is)
          /\ upgrade \in [Upgrade -> Visit]
    /\ AccessTypeOK' <=>
          /\ clock' \in Instant /\ issuedAt' \in [Credential -> {Never} \cup 0..clock']
          /\ records' \subseteq Credential /\ remembered' \in [Person -> Instant \cup {Never}]
          /\ seat' \in [Room -> [Person -> Seat \cup {"none"}]] /\ moves' \in 0..MaxMoves
          /\ tickets' \subseteq Ticket /\ (\A t \in tickets' : minted'[t].is)
          /\ upgrade' \in [Upgrade -> Visit]
<1>1. tickets \subseteq {t \in Ticket : minted[t].is} <=> tickets \subseteq Ticket /\ \A t \in tickets : minted[t].is
  OBVIOUS
<1>2. tickets' \subseteq {t \in Ticket : minted'[t].is} <=> tickets' \subseteq Ticket /\ \A t \in tickets' : minted'[t].is
  OBVIOUS
<1>3. QED
  BY <1>1, <1>2 DEF AccessTypeOK, Instant, Visit, Shown

\* An unminted ticket and a minted one.
LEMMA MintedIs ==
    /\ Nothing.is = FALSE /\ (\A m \in Minted : m.is = TRUE) /\ (\A a \in Asked : a.is = TRUE)
    /\ Nothing \notin Shown
BY DEF Nothing, Minted, Asked, Shown

\* Steps that touch neither credentials nor the clock, nor what comes after.
Around ==
    \/ \E p \in Person, r \in Room, s \in Seat : TakeSeat(p, r, s)
    \/ \E p \in Person, r \in Room : LoseSeat(p, r)
    \/ \E c \in Credential, r \in Room, w \in Purpose : Authenticate(c, r, w)
    \/ FindRole \/ LookIntoRooms \/ ForgetExpired \/ ForgetStale
Upgrades(u) ==
    \/ \E t \in Ticket, w \in Purpose, r \in Room : Consume(u, t, w, r)
    \/ CheckCredential(u) \/ CheckRole(u)

\* Every step is one of these.
LEMMA AccessKinds ==
    ASSUME [AccessNext]_accessVars
    PROVE  \/ AccessTick \/ (\E c \in Credential : Reenter(c)) \/ Around \/ (\E t \in Ticket : Issue(t))
           \/ (\E u \in Upgrade : Upgrades(u))
           \/ CleanupCredentials \/ CleanupTickets \/ Revoke \/ UNCHANGED accessVars
BY DEF AccessNext, Around, Upgrades
-----------------------------------------------------------------------------
(* Credentials.                                                            *)

\* The clock does not go back; a credential is issued once, now, and comes into
\* the registry when it is.
LEMMA CredentialMoves ==
    ASSUME AccessTypeOK, RecordsWereIssued, [AccessNext]_accessVars
    PROVE  /\ clock' \in Instant /\ clock <= clock'
           /\ issuedAt' \in [Credential -> {Never} \cup 0..clock'] /\ records' \subseteq Credential
           /\ \A c \in Credential : issuedAt[c] # Never => issuedAt'[c] = issuedAt[c]
           /\ \A c \in Credential : issuedAt[c] <= issuedAt'[c]
           /\ \A c \in records' : (c \in records /\ issuedAt'[c] = issuedAt[c]) \/ issuedAt'[c] = clock
<1> DEFINE Goal ==
           /\ clock' \in Instant /\ clock <= clock'
           /\ issuedAt' \in [Credential -> {Never} \cup 0..clock'] /\ records' \subseteq Credential
           /\ \A c \in Credential : issuedAt[c] # Never => issuedAt'[c] = issuedAt[c]
           /\ \A c \in Credential : issuedAt[c] <= issuedAt'[c]
           /\ \A c \in records' : (c \in records /\ issuedAt'[c] = issuedAt[c]) \/ issuedAt'[c] = clock
<1>1. clock \in Instant /\ clock \in Nat /\ issuedAt \in [Credential -> {Never} \cup 0..clock] /\ records \subseteq Credential
  BY AccessTypes, AccessNumbers
<1>2. \A c \in Credential : issuedAt[c] \in Int
  BY <1>1 DEF Never
<1>3. CASE clock' = clock /\ issuedAt' = issuedAt /\ records' \subseteq records
  BY <1>1, <1>2, <1>3
<1>4. CASE AccessTick
  BY <1>1, <1>2, <1>4, AccessNumbers DEF AccessTick, Instant
<1>5. ASSUME NEW c \in Credential, Reenter(c) PROVE Goal
  <2>1. /\ issuedAt[c] = Never /\ issuedAt' = [issuedAt EXCEPT ![c] = clock]
        /\ records' = records \cup {c} /\ clock' = clock
    BY <1>5 DEF Reenter
  <2>2. issuedAt' \in [Credential -> {Never} \cup 0..clock]
    BY <1>1, <2>1
  <2>3. issuedAt'[c] = clock /\ \A d \in Credential : d # c => issuedAt'[d] = issuedAt[d]
    BY <1>1, <2>1
  <2>4. issuedAt[c] <= clock
    BY <1>1, <2>1 DEF Never
  <2>5. QED
    BY <1>1, <1>2, <2>1, <2>2, <2>3, <2>4
<1>6. CASE Around \/ CleanupTickets \/ (\E t \in Ticket : Issue(t)) \/ UNCHANGED accessVars
  BY <1>3, <1>6 DEF Around, TakeSeat, LoseSeat, Authenticate, FindRole, LookIntoRooms, ForgetExpired, ForgetStale,
     CleanupTickets, Issue, accessVars
<1>7. CASE \E u \in Upgrade : Upgrades(u)
  BY <1>3, <1>7 DEF Upgrades, Consume, CheckCredential, CheckRole
<1>8. CASE CleanupCredentials \/ Revoke
  BY <1>3, <1>8 DEF CleanupCredentials, Revoke, Unrevoked
<1>9. QED
  BY <1>4, <1>5, <1>6, <1>7, <1>8, AccessKinds

\* What is in the registry was issued, and stays so.
LEMMA RecordsStep ==
    ASSUME AccessTypeOK, RecordsWereIssued, [AccessNext]_accessVars
    PROVE  RecordsWereIssued'
<1>1. \A c \in records' : (c \in records /\ issuedAt'[c] = issuedAt[c]) \/ issuedAt'[c] = clock
  BY CredentialMoves
<1>2. clock # Never
  BY AccessTypes, AccessNumbers DEF Never
<1>3. QED
  BY <1>1, <1>2 DEF RecordsWereIssued
-----------------------------------------------------------------------------
(* Tickets.                                                                *)

\* A ticket that was minted stays what it is, one that is not in the store
\* comes into it only when it is minted, and of those for the same socket the
\* newest replaces the others.
LEMMA TicketMoves ==
    ASSUME AccessTypeOK, RestIsTyped, NewestTicketOnly, [AccessNext]_accessVars
    PROVE  /\ minted' \in [Ticket -> {Nothing} \cup Minted]
           /\ \A t \in Ticket : minted[t].is => minted'[t] = minted[t]
           /\ tickets' \subseteq Ticket /\ \A t \in tickets' : minted'[t].is
           /\ \A t \in tickets' : t \in tickets \/ ~minted[t].is
           /\ NewestTicketOnly'
<1> DEFINE Goal ==
           /\ minted' \in [Ticket -> {Nothing} \cup Minted]
           /\ \A t \in Ticket : minted[t].is => minted'[t] = minted[t]
           /\ tickets' \subseteq Ticket /\ \A t \in tickets' : minted'[t].is
           /\ \A t \in tickets' : t \in tickets \/ ~minted[t].is
           /\ NewestTicketOnly'
<1>1. /\ minted \in [Ticket -> {Nothing} \cup Minted] /\ ask \in {Nothing} \cup Asked
      /\ tickets \subseteq Ticket /\ \A t \in tickets : minted[t].is
  BY AccessTypes DEF RestIsTyped
<1>2. CASE minted' = minted /\ tickets' \subseteq tickets
  BY <1>1, <1>2 DEF NewestTicketOnly
<1>3. ASSUME NEW t \in Ticket, Issue(t) PROVE Goal
  <2>1. /\ ask.is /\ ask.role # "none" /\ ~minted[t].is
        /\ minted' = [minted EXCEPT ![t] = [is |-> TRUE, who |-> ask.who, room |-> ask.room, role |-> ask.role,
                                        purpose |-> ask.purpose, expires |-> clock + TicketLife]]
        /\ tickets' = {o \in tickets : /\ minted[o].expires > clock
                                       /\ \/ minted[o].room # ask.room
                                          \/ minted[o].who # ask.who
                                          \/ minted[o].purpose # ask.purpose} \cup {t}
    BY <1>3 DEF Issue
  <2>2. ask \in Asked
    BY <1>1, <2>1, MintedIs
  <2>3. clock + TicketLife \in Int
    BY AccessTypes, AccessNumbers
  <2>4. PICK m \in Minted : m = [is |-> TRUE, who |-> ask.who, room |-> ask.room, role |-> ask.role,
                                 purpose |-> ask.purpose, expires |-> clock + TicketLife]
    BY <2>1, <2>2, <2>3 DEF Minted, Asked
  <2>5. m.is = TRUE /\ m.who = ask.who /\ m.room = ask.room /\ m.purpose = ask.purpose
    BY <2>4
  <2>6. minted' = [minted EXCEPT ![t] = m]
    BY <2>1, <2>4
  <2>7. minted' \in [Ticket -> {Nothing} \cup Minted] /\ minted'[t] = m /\ \A o \in Ticket : o # t => minted'[o] = minted[o]
    BY <1>1, <2>6
  <2>8. t \notin tickets
    BY <1>1, <2>1
  <2>9. NewestTicketOnly'
    BY <1>1, <2>1, <2>5, <2>7, <2>8 DEF NewestTicketOnly
  <2>10. QED
    BY <1>1, <2>1, <2>5, <2>7, <2>9
<1>4. CASE Around \/ AccessTick \/ (\E c \in Credential : Reenter(c)) \/ CleanupTickets \/ CleanupCredentials \/ Revoke
           \/ UNCHANGED accessVars
  BY <1>2, <1>4 DEF Around, TakeSeat, LoseSeat, Authenticate, FindRole, LookIntoRooms, ForgetExpired, ForgetStale,
     AccessTick, Reenter, CleanupTickets, CleanupCredentials, Revoke, accessVars
<1>5. CASE \E u \in Upgrade : Upgrades(u)
  BY <1>2, <1>5 DEF Upgrades, Consume, CheckCredential, CheckRole, Without
<1>6. QED
  BY <1>3, <1>4, <1>5, AccessKinds
-----------------------------------------------------------------------------
(* Upgrades.                                                               *)

\* How an upgrade goes on.
Accepted(u) ==
    \E t \in Ticket, w \in Purpose, r \in Room, held \in BOOLEAN :
        /\ t \in tickets /\ Fits(t, w, r) /\ tickets' = tickets \ {t} /\ UNCHANGED <<minted, clock, issuedAt, records>>
        /\ held = generation_is_active(minted[t].who)
        /\ upgrade'[u] = [pc |-> "credential", claims |-> [is |-> TRUE, ticket |-> t, purpose |-> w, room |-> r,
                                                           at |-> clock, held |-> held]]
Passes(u, from, to) ==
    upgrade[u].pc = from /\ upgrade'[u].pc = to /\ upgrade'[u].claims = upgrade[u].claims

Proceeds(u) ==
    \/ upgrade'[u].pc = "refused"
    \/ Accepted(u)
    \/ Passes(u, "credential", "role") /\ generation_is_active(Claims(u).who)
       /\ UNCHANGED <<minted, clock, issuedAt, records>>
    \/ Passes(u, "role", "open") /\ StillSeated(u)

\* Which waits for the check of the credential.
LEMMA AcceptedWaits ==
    ASSUME NEW u, Accepted(u)
    PROVE  upgrade'[u].pc = "credential" /\ upgrade'[u].claims.ticket \in tickets
<1>1. PICK t \in Ticket, w \in Purpose, r \in Room, held \in BOOLEAN :
        /\ t \in tickets
        /\ upgrade'[u] = [pc |-> "credential", claims |-> [is |-> TRUE, ticket |-> t, purpose |-> w, room |-> r,
                                                           at |-> clock, held |-> held]]
  BY DEF Accepted
<1>2. QED
  BY <1>1

\* One upgrade is replaced.
LEMMA OneUpgrade ==
    ASSUME AccessTypeOK, NEW u \in Upgrade, NEW x \in Visit, upgrade' = [upgrade EXCEPT ![u] = x]
    PROVE  upgrade' \in [Upgrade -> Visit] /\ upgrade'[u] = x /\ \A v \in Upgrade : v # u => upgrade'[v] = upgrade[v]
BY AccessTypes

\* A step of an upgrade moves that upgrade only.
LEMMA UpgradeMoves ==
    ASSUME AccessTypeOK, RestIsTyped, NEW u \in Upgrade, Upgrades(u)
    PROVE  upgrade' \in [Upgrade -> Visit] /\ Proceeds(u) /\ \A v \in Upgrade : v # u => upgrade'[v] = upgrade[v]
<1> DEFINE Goal == upgrade' \in [Upgrade -> Visit] /\ Proceeds(u) /\ \A v \in Upgrade : v # u => upgrade'[v] = upgrade[v]
<1>1. upgrade[u] \in Visit /\ clock \in Instant
  BY AccessTypes
<1>2. ASSUME NEW t \in Ticket, NEW w \in Purpose, NEW r \in Room, Consume(u, t, w, r) PROVE Goal
  <2>1. CASE t \in tickets /\ Fits(t, w, r)
    <3>1. PICK held \in BOOLEAN : held = generation_is_active(minted[t].who)
      BY DEF generation_is_active
    <3>2. PICK x : x = [pc |-> "credential", claims |-> [is |-> TRUE, ticket |-> t, purpose |-> w, room |-> r,
                                                         at |-> clock, held |-> held]]
      OBVIOUS
    <3>3. x \in Visit
      BY <1>1, <3>2 DEF Visit, Shown
    <3>4. upgrade' = [upgrade EXCEPT ![u] = x]
      BY <1>2, <2>1, <3>1, <3>2 DEF Consume
    <3>5. upgrade' \in [Upgrade -> Visit] /\ upgrade'[u] = x /\ \A v \in Upgrade : v # u => upgrade'[v] = upgrade[v]
      BY <3>3, <3>4, OneUpgrade
    <3>6. tickets' = tickets \ {t} /\ UNCHANGED <<minted, clock, issuedAt, records>>
      BY <1>2 DEF Consume, Without
    <3>7. Accepted(u)
      BY <2>1, <3>1, <3>2, <3>5, <3>6 DEF Accepted
    <3>8. QED
      BY <3>5, <3>7 DEF Proceeds
  <2>2. CASE ~(t \in tickets /\ Fits(t, w, r))
    <3>1. PICK x \in Visit : x = [pc |-> "refused", claims |-> Nothing]
      BY DEF Visit
    <3>2. upgrade' = [upgrade EXCEPT ![u] = x]
      BY <1>2, <2>2, <3>1 DEF Consume
    <3>3. QED
      BY <3>1, <3>2, OneUpgrade DEF Proceeds
  <2>3. QED
    BY <2>1, <2>2
<1>3. ASSUME NEW pc \in {"refused", "role", "open"}, upgrade' = [upgrade EXCEPT ![u].pc = pc]
      PROVE  /\ upgrade' \in [Upgrade -> Visit] /\ upgrade'[u].pc = pc /\ upgrade'[u].claims = upgrade[u].claims
             /\ \A v \in Upgrade : v # u => upgrade'[v] = upgrade[v]
  <2>1. PICK x \in Visit : x = [upgrade[u] EXCEPT !.pc = pc]
    BY <1>1 DEF Visit
  <2>2. x.pc = pc /\ x.claims = upgrade[u].claims
    BY <1>1, <2>1 DEF Visit
  <2>3. upgrade' = [upgrade EXCEPT ![u] = x]
    BY <1>3, <2>1
  <2>4. QED
    BY <2>2, <2>3, OneUpgrade
<1>4. CASE CheckCredential(u)
  <2>1. CASE generation_is_active(Claims(u).who)
    <3>1. upgrade' = [upgrade EXCEPT ![u].pc = "role"] /\ upgrade[u].pc = "credential"
          /\ UNCHANGED <<minted, clock, issuedAt, records>>
      BY <1>4, <2>1 DEF CheckCredential
    <3>2. QED
      BY <1>3, <2>1, <3>1 DEF Proceeds, Passes
  <2>2. CASE ~generation_is_active(Claims(u).who)
    <3>1. upgrade' = [upgrade EXCEPT ![u].pc = "refused"]
      BY <1>4, <2>2 DEF CheckCredential
    <3>2. QED
      BY <1>3, <3>1 DEF Proceeds
  <2>3. QED
    BY <2>1, <2>2
<1>5. CASE CheckRole(u)
  <2>1. CASE StillSeated(u)
    <3>1. upgrade' = [upgrade EXCEPT ![u].pc = "open"] /\ upgrade[u].pc = "role"
      BY <1>5, <2>1 DEF CheckRole
    <3>2. QED
      BY <1>3, <2>1, <3>1 DEF Proceeds, Passes
  <2>2. CASE ~StillSeated(u)
    <3>1. upgrade' = [upgrade EXCEPT ![u].pc = "refused"]
      BY <1>5, <2>2 DEF CheckRole
    <3>2. QED
      BY <1>3, <3>1 DEF Proceeds
  <2>3. QED
    BY <2>1, <2>2
<1>6. QED
  BY <1>2, <1>4, <1>5 DEF Upgrades

\* An upgrade stays as it is or goes on by its own step.
LEMMA UpgradeTypes ==
    ASSUME AccessTypeOK, RestIsTyped, [AccessNext]_accessVars
    PROVE  /\ upgrade' \in [Upgrade -> Visit]
           /\ \A u \in Upgrade : upgrade'[u] = upgrade[u] \/ Proceeds(u)
           /\ \A u, v \in Upgrade : upgrade'[u] # upgrade[u] /\ upgrade'[v] # upgrade[v] => u = v
<1>1. CASE \E u \in Upgrade : Upgrades(u)
  BY <1>1, UpgradeMoves
<1>2. CASE ~ \E u \in Upgrade : Upgrades(u)
  <2>1. upgrade' = upgrade
    BY <1>2, AccessKinds DEF Around, TakeSeat, LoseSeat, Authenticate, FindRole, LookIntoRooms, ForgetExpired,
       ForgetStale, AccessTick, Reenter, Issue, CleanupTickets, CleanupCredentials, Revoke, accessVars
  <2>2. QED
    BY <2>1, AccessTypes
<1>3. QED
  BY <1>1, <1>2
-----------------------------------------------------------------------------
(* Each part of the invariant is kept by every step.                       *)

\* An upgrade that stays as it is keeps the ticket it showed, which does not
\* come back.
LEMMA ShownStays ==
    ASSUME AccessIInv, [AccessNext]_accessVars, NEW u \in Upgrade, Went(u), upgrade'[u].claims = upgrade[u].claims
    PROVE  /\ upgrade'[u].claims \in Shown /\ upgrade'[u].claims.at <= clock'
           /\ upgrade'[u].claims.ticket \notin tickets' /\ Claims(u)' = Claims(u)
<1>1. /\ AccessTypeOK /\ RestIsTyped /\ NewestTicketOnly /\ RecordsWereIssued /\ clock \in Nat
      /\ upgrade[u].claims \in Shown /\ upgrade[u].claims.at <= clock
      /\ upgrade[u].claims.ticket \notin tickets /\ Claims(u).is
  BY AccessTypes, AccessNumbers DEF AccessIInv, PresentedIsGone
<1>2. PICK t \in Ticket : t = upgrade[u].claims.ticket
  BY <1>1 DEF Shown
<1>3. t \notin tickets' /\ minted'[t] = minted[t]
  BY <1>1, <1>2, TicketMoves DEF Claims
<1>4. upgrade[u].claims.at <= clock'
  <2>1. clock <= clock' /\ clock' \in Nat /\ upgrade[u].claims.at \in Nat
    BY <1>1, CredentialMoves, AccessNumbers DEF Shown
  <2>2. QED
    BY <1>1, <2>1
<1>5. QED
  BY <1>1, <1>2, <1>3, <1>4 DEF Claims

\* A ticket that was shown is gone, and what it was shown for fits it.
LEMMA PresentedStep ==
    ASSUME AccessIInv, [AccessNext]_accessVars
    PROVE  PresentedIsGone'
<1>1. /\ AccessTypeOK /\ RestIsTyped /\ NewestTicketOnly /\ PresentedIsGone /\ clock \in Nat /\ clock \in Instant
      /\ \A t \in tickets : minted[t].is
  BY AccessTypes, AccessNumbers DEF AccessIInv
<1> DEFINE Gone(u) ==
        /\ upgrade[u].claims \in Shown /\ upgrade[u].claims.at <= clock
        /\ upgrade[u].claims.ticket \notin tickets /\ Claims(u).is
        /\ Claims(u).purpose = upgrade[u].claims.purpose /\ Claims(u).room = upgrade[u].claims.room
<1>2. ASSUME NEW u \in Upgrade, Went(u), upgrade'[u].claims = upgrade[u].claims PROVE Gone(u)'
  <2>1. Gone(u)
    BY <1>1, <1>2 DEF PresentedIsGone
  <2>2. /\ upgrade'[u].claims \in Shown /\ upgrade'[u].claims.at <= clock'
        /\ upgrade'[u].claims.ticket \notin tickets' /\ Claims(u)' = Claims(u)
    BY <1>2, ShownStays
  <2>3. QED
    BY <1>2, <2>1, <2>2
<1>3. ASSUME NEW u \in Upgrade, Accepted(u) PROVE Gone(u)'
  <2>1. PICK t \in Ticket, w \in Purpose, r \in Room, held \in BOOLEAN :
        /\ t \in tickets /\ Fits(t, w, r) /\ tickets' = tickets \ {t} /\ minted' = minted /\ clock' = clock
        /\ upgrade'[u] = [pc |-> "credential", claims |-> [is |-> TRUE, ticket |-> t, purpose |-> w, room |-> r,
                                                           at |-> clock, held |-> held]]
    BY <1>3 DEF Accepted
  <2>2. upgrade'[u].claims = [is |-> TRUE, ticket |-> t, purpose |-> w, room |-> r, at |-> clock, held |-> held]
    BY <2>1
  <2>3. upgrade'[u].claims \in Shown
    BY <1>1, <2>2 DEF Shown
  <2>4. Claims(u)' = minted[t]
    BY <2>1, <2>2 DEF Claims
  <2>5. QED
    BY <1>1, <2>1, <2>2, <2>3, <2>4 DEF Fits
<1>4. \A u \in Upgrade : upgrade'[u] = upgrade[u] \/ Proceeds(u)
  BY <1>1, UpgradeTypes
<1>5. ASSUME NEW u \in Upgrade, Went(u)' PROVE Gone(u)'
  <2>1. CASE upgrade'[u] = upgrade[u]
    BY <1>2, <1>5, <2>1 DEF Went
  <2>2. CASE Accepted(u)
    BY <1>3, <2>2
  <2>3. CASE Passes(u, "credential", "role") \/ Passes(u, "role", "open")
    BY <1>2, <2>3 DEF Passes, Went
  <2>4. QED
    BY <1>4, <1>5, <2>1, <2>2, <2>3 DEF Proceeds, Went
<1>6. QED
  BY <1>5 DEF PresentedIsGone

\* No two upgrades go on with the same ticket.
LEMMA AdmitsOneStep ==
    ASSUME AccessIInv, [AccessNext]_accessVars
    PROVE  TicketAdmitsOne'
<1>1. AccessTypeOK /\ RestIsTyped /\ TicketAdmitsOne /\ PresentedIsGone
  BY DEF AccessIInv
<1>2. /\ \A u \in Upgrade : upgrade'[u] = upgrade[u] \/ Proceeds(u)
      /\ \A u, v \in Upgrade : upgrade'[u] # upgrade[u] /\ upgrade'[v] # upgrade[v] => u = v
  BY <1>1, UpgradeTypes
<1>3. ASSUME NEW u \in Upgrade, Went(u)'
      PROVE  \/ Went(u) /\ upgrade'[u].claims = upgrade[u].claims
             \/ upgrade'[u].claims.ticket \in tickets
  <2>1. CASE Accepted(u)
    BY <2>1, AcceptedWaits
  <2>2. CASE ~Accepted(u)
    BY <1>2, <1>3, <2>2 DEF Proceeds, Passes, Went
  <2>3. QED
    BY <2>1, <2>2
<1>4. SUFFICES ASSUME NEW u \in Upgrade, NEW v \in Upgrade, Went(u)', Went(v)',
                      upgrade'[u].claims.ticket = upgrade'[v].claims.ticket, u # v
               PROVE  FALSE
  BY DEF TicketAdmitsOne
<1>5. \A x \in Upgrade : Went(x) => upgrade[x].claims.ticket \notin tickets
  BY <1>1 DEF PresentedIsGone
<1>6. CASE /\ Went(u) /\ upgrade'[u].claims = upgrade[u].claims
           /\ Went(v) /\ upgrade'[v].claims = upgrade[v].claims
  BY <1>1, <1>4, <1>6 DEF TicketAdmitsOne
<1>7. CASE upgrade'[u].claims.ticket \in tickets
  <2>1. ~(Went(u) /\ upgrade'[u].claims = upgrade[u].claims) /\ ~(Went(v) /\ upgrade'[v].claims = upgrade[v].claims)
    BY <1>4, <1>5, <1>7
  <2>2. upgrade'[u] # upgrade[u] /\ upgrade'[v] # upgrade[v]
    BY <1>4, <2>1 DEF Went
  <2>3. QED
    BY <1>2, <1>4, <2>2
<1>8. CASE upgrade'[v].claims.ticket \in tickets
  BY <1>4, <1>7, <1>8
<1>9. QED
  BY <1>3, <1>4, <1>6, <1>7, <1>8

\* Who held no live credential gets a socket only by entering again.
LEMMA HeldStep ==
    ASSUME AccessIInv, [AccessNext]_accessVars
    PROVE  UnheldStaysUnheld' /\ CheckedWasHeld'
<1>1. /\ AccessTypeOK /\ RestIsTyped /\ RecordsWereIssued /\ PresentedIsGone /\ UnheldStaysUnheld /\ CheckedWasHeld
      /\ clock \in Nat /\ records \subseteq Credential /\ issuedAt \in [Credential -> {Never} \cup 0..clock]
  BY AccessTypes, AccessNumbers DEF AccessIInv
<1>2. \A u \in Upgrade : upgrade'[u] = upgrade[u] \/ Proceeds(u)
  BY <1>1, UpgradeTypes
<1>3. /\ \A c \in Credential : issuedAt[c] # Never => issuedAt'[c] = issuedAt[c]
      /\ \A c \in Credential : issuedAt[c] <= issuedAt'[c]
      /\ \A c \in records' : (c \in records /\ issuedAt'[c] = issuedAt[c]) \/ issuedAt'[c] = clock
      /\ records' \subseteq Credential /\ issuedAt' \in [Credential -> {Never} \cup 0..clock'] /\ clock' \in Nat
  BY <1>1, CredentialMoves, AccessNumbers
<1>4. \A c \in Credential : issuedAt[c] \in Int /\ issuedAt'[c] \in Int
  BY <1>1, <1>3 DEF Never
<1>5. CredentialLife \in Nat
  BY AccessNumbers
<1>6. ASSUME NEW u \in Upgrade, Went(u)
      PROVE  upgrade[u].claims.at \in Nat /\ upgrade[u].claims.at <= clock /\ upgrade[u].claims.held \in BOOLEAN
  BY <1>1, <1>6, AccessNumbers DEF PresentedIsGone, Shown
<1>7. ASSUME NEW u \in Upgrade, upgrade'[u].pc = "credential", ~upgrade'[u].claims.held,
             NEW c \in records', HolderOf[c] = Claims(u).who'
      PROVE  issuedAt'[c] >= upgrade'[u].claims.at \/ issuedAt'[c] + CredentialLife <= upgrade'[u].claims.at
  <2>1. CASE upgrade'[u] = upgrade[u]
    <3>1. Went(u) /\ upgrade[u].pc = "credential" /\ ~upgrade[u].claims.held
      BY <1>7, <2>1 DEF Went
    <3>2. HolderOf[c] = Claims(u).who
      BY <1>7, <2>1, <3>1, ShownStays
    <3>3. CASE c \in records /\ issuedAt'[c] = issuedAt[c]
      BY <1>1, <2>1, <3>1, <3>2, <3>3 DEF UnheldStaysUnheld
    <3>4. CASE issuedAt'[c] = clock
      BY <1>1, <1>6, <2>1, <3>1, <3>4
    <3>5. QED
      BY <1>3, <3>3, <3>4
  <2>2. CASE Accepted(u)
    <3>1. PICK t \in Ticket, w \in Purpose, r \in Room, held \in BOOLEAN :
        /\ UNCHANGED <<minted, clock, issuedAt, records>>
        /\ held = generation_is_active(minted[t].who)
        /\ upgrade'[u] = [pc |-> "credential", claims |-> [is |-> TRUE, ticket |-> t, purpose |-> w, room |-> r,
                                                           at |-> clock, held |-> held]]
      BY <2>2 DEF Accepted
    <3>2. upgrade'[u].claims.at = clock /\ upgrade'[u].claims.held = held /\ upgrade'[u].claims.ticket = t
      BY <3>1
    <3>3. ~generation_is_active(minted[t].who) /\ HolderOf[c] = minted[t].who
      BY <1>7, <3>1, <3>2 DEF Claims
    <3>4. c \in records /\ c \in Credential /\ ~Live(c)
      BY <1>1, <3>1, <3>3 DEF generation_is_active
    <3>5. issuedAt[c] + CredentialLife <= clock
      BY <1>1, <1>4, <1>5, <3>4 DEF Live
    <3>6. QED
      BY <3>1, <3>2, <3>5
  <2>3. QED
    BY <1>2, <1>7, <2>1, <2>2 DEF Proceeds, Passes
<1>8. ASSUME NEW u \in Upgrade, upgrade'[u].pc \in {"role", "open"}
      PROVE  upgrade'[u].claims.held
             \/ \E c \in Credential : HolderOf[c] = Claims(u).who' /\ issuedAt'[c] >= upgrade'[u].claims.at
  <2>1. /\ Went(u) /\ upgrade'[u].claims = upgrade[u].claims
        /\ \/ upgrade[u].pc \in {"role", "open"}
           \/ upgrade[u].pc = "credential" /\ generation_is_active(Claims(u).who) /\ issuedAt' = issuedAt
    <3>1. CASE upgrade'[u] = upgrade[u]
      BY <1>8, <3>1 DEF Went
    <3>2. CASE Passes(u, "credential", "role") /\ generation_is_active(Claims(u).who)
               /\ UNCHANGED <<minted, clock, issuedAt, records>>
      BY <3>2 DEF Passes, Went
    <3>3. CASE Passes(u, "role", "open")
      BY <3>3 DEF Passes, Went
    <3>4. ~Accepted(u)
      BY <1>8, AcceptedWaits
    <3>5. QED
      BY <1>2, <1>8, <3>1, <3>2, <3>3, <3>4 DEF Proceeds
  <2>2. Claims(u)' = Claims(u) /\ upgrade[u].claims.at \in Nat
    BY <1>6, <2>1, ShownStays
  <2>3. CASE upgrade[u].pc \in {"role", "open"}
    <3>1. CASE upgrade[u].claims.held
      BY <2>1, <3>1
    <3>2. CASE ~upgrade[u].claims.held
      <4>1. PICK c \in Credential : HolderOf[c] = Claims(u).who /\ issuedAt[c] >= upgrade[u].claims.at
        BY <1>1, <2>3, <3>2 DEF CheckedWasHeld
      <4>2. issuedAt'[c] >= upgrade[u].claims.at
        BY <1>3, <1>4, <2>2, <4>1
      <4>3. QED
        BY <2>1, <2>2, <4>1, <4>2
    <3>3. QED
      BY <3>1, <3>2
  <2>4. CASE upgrade[u].pc = "credential" /\ generation_is_active(Claims(u).who) /\ issuedAt' = issuedAt
    <3>1. CASE upgrade[u].claims.held
      BY <2>1, <3>1
    <3>2. CASE ~upgrade[u].claims.held
      <4>1. PICK c \in Credential : HolderOf[c] = Claims(u).who /\ Live(c)
        BY <2>4 DEF generation_is_active
      <4>2. issuedAt[c] >= upgrade[u].claims.at \/ issuedAt[c] + CredentialLife <= upgrade[u].claims.at
        BY <1>1, <2>4, <3>2, <4>1 DEF UnheldStaysUnheld, Live
      <4>3. issuedAt[c] + CredentialLife > clock /\ upgrade[u].claims.at <= clock
        BY <1>6, <2>1, <4>1 DEF Live
      <4>4. issuedAt[c] >= upgrade[u].claims.at
        BY <1>1, <1>4, <1>5, <2>2, <4>2, <4>3
      <4>5. QED
        BY <2>1, <2>2, <2>4, <4>1, <4>4
    <3>3. QED
      BY <3>1, <3>2
  <2>5. QED
    BY <2>1, <2>3, <2>4
<1>9. UnheldStaysUnheld'
  BY <1>7 DEF UnheldStaysUnheld
<1>10. CheckedWasHeld'
  BY <1>8 DEF CheckedWasHeld
<1>11. QED
  BY <1>9, <1>10
-----------------------------------------------------------------------------
(* The people, the rooms, the request and the sweep.                       *)

\* Who is remembered, who sits where, how often seats changed.
LEMMA PeopleTypes ==
    ASSUME AccessTypeOK, [AccessNext]_accessVars
    PROVE  /\ remembered' \in [Person -> Instant \cup {Never}]
           /\ seat' \in [Room -> [Person -> Seat \cup {"none"}]] /\ moves' \in 0..MaxMoves
<1>1. /\ remembered \in [Person -> Instant \cup {Never}] /\ clock \in Instant
      /\ seat \in [Room -> [Person -> Seat \cup {"none"}]] /\ moves \in 0..MaxMoves /\ MaxMoves \in Nat
  BY AccessTypes, AccessNumbers
<1>2. moves' \in 0..MaxMoves
  <2>1. moves' = moves \/ (moves < MaxMoves /\ moves' = moves + 1)
    BY AccessKinds DEF Around, TakeSeat, LoseSeat, Authenticate, FindRole, LookIntoRooms, ForgetExpired, ForgetStale,
       AccessTick, Reenter, Issue, CleanupTickets, CleanupCredentials, Revoke, Upgrades, Consume, CheckCredential,
       CheckRole, accessVars
  <2>2. QED
    BY <1>1, <2>1
<1>3. seat' \in [Room -> [Person -> Seat \cup {"none"}]]
  <2>1. ASSUME NEW p \in Person, NEW r \in Room, NEW s \in Seat \cup {"none"}, seat' = [seat EXCEPT ![r][p] = s]
        PROVE  seat' \in [Room -> [Person -> Seat \cup {"none"}]]
    <3>1. [seat[r] EXCEPT ![p] = s] \in [Person -> Seat \cup {"none"}]
      BY <1>1
    <3>2. seat' = [seat EXCEPT ![r] = [seat[r] EXCEPT ![p] = s]]
      BY <2>1
    <3>3. QED
      BY <1>1, <3>1, <3>2
  <2>2. \/ seat' = seat
        \/ \E p \in Person, r \in Room, s \in Seat \cup {"none"} : seat' = [seat EXCEPT ![r][p] = s]
    BY AccessKinds DEF Around, TakeSeat, LoseSeat, Authenticate, FindRole, LookIntoRooms, ForgetExpired, ForgetStale,
       AccessTick, Reenter, Issue, CleanupTickets, CleanupCredentials, Revoke, Upgrades, Consume, CheckCredential,
       CheckRole, accessVars
  <2>3. QED
    BY <1>1, <2>1, <2>2
<1>4. remembered' \in [Person -> Instant \cup {Never}]
  <2>1. ASSUME NEW gone, Forget(gone) PROVE remembered' \in [Person -> Instant \cup {Never}]
    BY <1>1, <2>1 DEF Forget
  <2>2. ASSUME NEW c \in Credential, Reenter(c) PROVE remembered' \in [Person -> Instant \cup {Never}]
    <3>1. remembered' = remembered \/ remembered' = [remembered EXCEPT ![HolderOf[c]] = clock]
      BY <2>2 DEF Reenter
    <3>2. QED
      BY <1>1, <3>1
  <2>3. \/ remembered' = remembered \/ (\E gone : Forget(gone)) \/ \E c \in Credential : Reenter(c)
    <3>1. CASE ForgetExpired \/ ForgetStale
      BY <3>1 DEF ForgetExpired, ForgetStale
    <3>2. CASE ~(ForgetExpired \/ ForgetStale) /\ ~ \E c \in Credential : Reenter(c)
      BY <3>2, AccessKinds DEF Around, TakeSeat, LoseSeat, Authenticate, FindRole, LookIntoRooms,
         AccessTick, Issue, CleanupTickets, CleanupCredentials, Revoke, Upgrades, Consume, CheckCredential,
         CheckRole, accessVars
    <3>3. QED
      BY <3>1, <3>2
  <2>4. QED
    BY <1>1, <2>1, <2>2, <2>3
<1>5. QED
  BY <1>2, <1>3, <1>4

\* The request for a ticket and the sweep.
LEMMA RestTyped ==
    ASSUME AccessTypeOK, RestIsTyped, [AccessNext]_accessVars
    PROVE  ask' \in {Nothing} \cup Asked /\ sweep' \in Swept
<1>1. /\ ask \in {Nothing} \cup Asked /\ sweep \in Swept
      /\ seat \in [Room -> [Person -> Seat \cup {"none"}]] /\ records \subseteq Credential
  BY AccessTypes DEF RestIsTyped
<1>2. ask' \in {Nothing} \cup Asked
  <2>1. ASSUME NEW c \in Credential, NEW r \in Room, NEW w \in Purpose, Authenticate(c, r, w) PROVE ask' \in Asked
    BY <2>1, AccessNumbers DEF Authenticate, Asked
  <2>2. CASE FindRole
    <3>1. ask \in Asked
      BY <1>1, <2>2, MintedIs DEF FindRole
    <3>2. seat[ask.room][ask.who] \in Seat \cup {"none"}
      BY <1>1, <3>1 DEF Asked
    <3>3. ask' = Nothing \/ ask' = [ask EXCEPT !.role = seat[ask.room][ask.who]]
      BY <2>2 DEF FindRole
    <3>4. QED
      BY <3>1, <3>2, <3>3 DEF Asked
  <2>3. ASSUME NEW t \in Ticket, Issue(t) PROVE ask' = Nothing
    BY <2>3 DEF Issue
  <2>4. CASE /\ ~FindRole /\ ~(\E t \in Ticket : Issue(t))
             /\ ~(\E c \in Credential, r \in Room, w \in Purpose : Authenticate(c, r, w))
    <3>1. ask' = ask
      BY <2>4, AccessKinds DEF Around, TakeSeat, LoseSeat, LookIntoRooms, ForgetExpired, ForgetStale,
         AccessTick, Reenter, CleanupTickets, CleanupCredentials, Revoke, Upgrades, Consume, CheckCredential,
         CheckRole, accessVars
    <3>2. QED
      BY <1>1, <3>1
  <2>5. QED
    BY <2>1, <2>2, <2>3, <2>4
<1>3. sweep' \in Swept
  <2>1. InRooms \subseteq Person /\ Unattached \subseteq Person /\ Expired \subseteq Person
    BY <1>1, AccessNumbers DEF InRooms, Unattached, Remembered, Expired
  <2>2. CASE CleanupCredentials \/ CleanupTickets \/ LookIntoRooms \/ ForgetExpired \/ ForgetStale \/ Revoke
    <3>1. /\ sweep.expired \in SUBSET Person /\ sweep.inRooms \in SUBSET Person /\ sweep.stale \in SUBSET Person
          /\ InRooms \in SUBSET Person /\ Unattached \in SUBSET Person /\ Expired \in SUBSET Person
          /\ {} \in SUBSET Person
      BY <1>1, <2>1 DEF Swept
    <3>2. CASE CleanupCredentials
      BY <1>1, <3>1, <3>2 DEF CleanupCredentials, Swept
    <3>3. CASE CleanupTickets
      BY <1>1, <3>3 DEF CleanupTickets, Swept
    <3>4. CASE LookIntoRooms
      BY <1>1, <3>1, <3>4 DEF LookIntoRooms, Swept
    <3>5. CASE ForgetExpired
      BY <1>1, <3>1, <3>5 DEF ForgetExpired, Swept
    <3>6. CASE ForgetStale
      BY <1>1, <3>1, <3>6 DEF ForgetStale, Swept
    <3>7. CASE Revoke
      BY <3>1, <3>7 DEF Revoke, Swept
    <3>8. QED
      BY <2>2, <3>2, <3>3, <3>4, <3>5, <3>6, <3>7
  <2>3. CASE ~(CleanupCredentials \/ CleanupTickets \/ LookIntoRooms \/ ForgetExpired \/ ForgetStale \/ Revoke)
    <3>1. sweep' = sweep
      BY <2>3, AccessKinds DEF Around, TakeSeat, LoseSeat, Authenticate, FindRole, AccessTick, Reenter, Issue,
         Upgrades, Consume, CheckCredential, CheckRole, accessVars
    <3>2. QED
      BY <1>1, <3>1
  <2>4. QED
    BY <2>2, <2>3
<1>4. QED
  BY <1>2, <1>3
-----------------------------------------------------------------------------
(* The theorems about the participants.                                    *)

\* Everybody has just consented and nobody asked for a ticket yet.
LEMMA AccessInitHolds ==
    ASSUME AccessInit
    PROVE  AccessIInv
<1>1. /\ clock = 0 /\ remembered = [p \in Person |-> 0] /\ moves = 0 /\ tickets = {}
      /\ minted = [t \in Ticket |-> Nothing] /\ ask = Nothing
      /\ upgrade = [u \in Upgrade |-> [pc |-> "none", claims |-> Nothing]]
      /\ sweep = [pc |-> "idle", expired |-> {}, inRooms |-> {}, stale |-> {}]
      /\ issuedAt = [c \in Credential |-> IF c \in records THEN 0 ELSE Never]
  BY DEF AccessInit
<1>2. records \subseteq Credential
  <2>1. \A p \in Person : (CHOOSE c \in Credential : HolderOf[c] = p) \in Credential
    BY AccessAssumption
  <2>2. records = {(CHOOSE c \in Credential : HolderOf[c] = p) : p \in Person}
    BY DEF AccessInit
  <2>3. QED
    BY <2>1, <2>2
<1>3. seat \in [Room -> [Person -> Seat \cup {"none"}]]
  <2>1. PICK empty : empty = [r \in Room |-> [p \in Person |-> "none"]]
    OBVIOUS
  <2>2. empty \in [Room -> [Person -> Seat \cup {"none"}]]
    BY <2>1
  <2>3. ASSUME NEW p \in Person, NEW r \in Room, seat = [empty EXCEPT ![r][p] = "A"]
        PROVE  seat \in [Room -> [Person -> Seat \cup {"none"}]]
    <3>1. [empty[r] EXCEPT ![p] = "A"] \in [Person -> Seat \cup {"none"}]
      BY <2>2 DEF Seat
    <3>2. QED
      BY <2>2, <2>3, <3>1
  <2>4. seat = empty \/ \E p \in Person, r \in Room : seat = [empty EXCEPT ![r][p] = "A"]
    BY <2>1 DEF AccessInit
  <2>5. QED
    BY <2>2, <2>3, <2>4
<1>4. 0 \in Instant /\ 0 \in 0..MaxMoves
  BY AccessNumbers DEF Instant
<1>5. AccessTypeOK
  <2>1. upgrade \in [Upgrade -> Visit]
    BY <1>1 DEF Visit
  <2>2. issuedAt \in [Credential -> {Never} \cup 0..clock]
    BY <1>1
  <2>3. QED
    BY <1>1, <1>2, <1>3, <1>4, <2>1, <2>2, AccessTypes
<1>6. RestIsTyped
  BY <1>1 DEF RestIsTyped, Swept
<1>7. RecordsWereIssued
  BY <1>1, <1>2 DEF RecordsWereIssued, Never
<1>8. \A u \in Upgrade : upgrade[u].pc = "none"
  BY <1>1
<1>9. PresentedIsGone /\ TicketAdmitsOne /\ NewestTicketOnly /\ UnheldStaysUnheld /\ CheckedWasHeld
  BY <1>1, <1>8 DEF PresentedIsGone, TicketAdmitsOne, NewestTicketOnly, UnheldStaysUnheld, CheckedWasHeld, Went
<1>10. QED
  BY <1>5, <1>6, <1>7, <1>9 DEF AccessIInv

\* A step keeps the invariant.
LEMMA AccessStepHolds ==
    ASSUME AccessIInv, [AccessNext]_accessVars
    PROVE  AccessIInv'
<1>1. AccessTypeOK /\ RestIsTyped /\ NewestTicketOnly /\ RecordsWereIssued
  BY DEF AccessIInv
<1>2. AccessTypeOK'
  BY <1>1, CredentialMoves, TicketMoves, UpgradeTypes, PeopleTypes, AccessTypes
<1>3. RestIsTyped'
  BY <1>1, TicketMoves, RestTyped DEF RestIsTyped
<1>4. NewestTicketOnly' /\ RecordsWereIssued'
  BY <1>1, TicketMoves, RecordsStep
<1>5. QED
  BY <1>2, <1>3, <1>4, PresentedStep, AdmitsOneStep, HeldStep DEF AccessIInv

\* Whatever requests, upgrades, re-entries and cleanups interleave: a ticket
\* admits one socket, of its own room and kind, the newest one of its
\* participant, who held a live credential or has entered again.
THEOREM TicketsStaySound == AccessSpec => []TicketsAreSound
<1>1. AccessInit => AccessIInv
  BY AccessInitHolds
<1>2. AccessIInv /\ [AccessNext]_accessVars => AccessIInv'
  BY AccessStepHolds
<1>3. AccessIInv => TicketsAreSound
  BY DEF AccessIInv, TicketsAreSound, PresentedIsGone, CheckedWasHeld, SocketMatchesTicket, OrphanedTicketIsDead, Went
<1>4. QED
  BY <1>1, <1>2, <1>3, PTL DEF AccessSpec

\* A socket opens only for a participant who has the seat of the ticket at that
\* moment (CheckRole), and the cleanup of credentials lists nobody who holds
\* one that is left (CleanupCredentials).
LEMMA LostSeatsAndExpiredStayOut == AccessSpec => OpensForTheSeated /\ ExpiredHoldNoCredential
<1>1. AccessInit => AccessIInv
  BY AccessInitHolds
<1>2. AccessIInv /\ [AccessNext]_accessVars => AccessIInv'
  BY AccessStepHolds
<1>3. AccessIInv /\ [AccessNext]_accessVars =>
         [\A u \in Upgrade : upgrade'[u].pc = "open" /\ upgrade[u].pc # "open" =>
             seat[Claims(u).room][Claims(u).who] = Claims(u).role]_accessVars
  <2>1. SUFFICES ASSUME AccessIInv, [AccessNext]_accessVars, NEW u \in Upgrade,
                        upgrade'[u].pc = "open", upgrade[u].pc # "open"
                 PROVE  seat[Claims(u).room][Claims(u).who] = Claims(u).role
    OBVIOUS
  <2>2. Proceeds(u)
    BY <2>1, UpgradeTypes DEF AccessIInv
  <2>3. ~Accepted(u)
    BY <2>1, AcceptedWaits
  <2>4. QED
    BY <2>1, <2>2, <2>3 DEF Proceeds, Passes, StillSeated
<1>4. AccessIInv /\ [AccessNext]_accessVars =>
         [sweep.pc = "idle" /\ sweep'.pc = "tickets" =>
             \A p \in sweep'.expired : ~\E c \in records' : HolderOf[c] = p]_accessVars
  <2>1. SUFFICES ASSUME AccessIInv, [AccessNext]_accessVars, sweep.pc = "idle", sweep'.pc = "tickets"
                 PROVE  \A p \in sweep'.expired : ~\E c \in records' : HolderOf[c] = p
    OBVIOUS
  <2>2. sweep \in Swept
    BY <2>1 DEF AccessIInv, RestIsTyped
  <2>3. CleanupCredentials
    BY <2>1, <2>2, AccessKinds DEF Around, TakeSeat, LoseSeat, Authenticate, FindRole, AccessTick, Reenter, Issue,
       Upgrades, Consume, CheckCredential, CheckRole, accessVars, CleanupTickets, LookIntoRooms, ForgetExpired,
       ForgetStale, Revoke
  <2>4. sweep' = [sweep EXCEPT !.pc = "tickets", !.expired = Expired] /\ records' = {c \in records : Live(c)}
    BY <2>3 DEF CleanupCredentials
  <2>5. sweep'.expired = Expired
    BY <2>2, <2>4 DEF Swept
  <2>6. \A p \in Expired : ~ \E c \in {d \in records : Live(d)} : HolderOf[c] = p
    BY DEF Expired
  <2>7. QED
    BY <2>4, <2>5, <2>6
<1>5. QED
  BY <1>1, <1>2, <1>3, <1>4, PTL DEF AccessSpec, OpensForTheSeated, ExpiredHoldNoCredential

-----------------------------------------------------------------------------
(***************************************************************************)
(* The log of a session.                                                   *)
(***************************************************************************)

\* What a handle, the queue and the writer hold.
Logged == [from : Source, size : 1..MaxEntryBytes, id : Nat]
Reserved == [pc : {"send"}, size : 1..MaxEntryBytes, id : Nat]
Resting == {[pc |-> "run"], [pc |-> "closing"], [pc |-> "ended"]}
Appending == [pc : {"append"}, next : {"run", "closing"}, entry : Logged]

LogTyped ==
    /\ live \in BOOLEAN /\ bytes \in 0..MaxLogBytes /\ calls \in 0..MaxCalls
    /\ handle \in [Source -> {AtRest} \cup Reserved]
    /\ taken \in Seq(Logged) /\ queue \in Seq(Logged) /\ persisted \in Seq(Logged)
    /\ Len(queue) <= QueueCapacity
    /\ writer \in Resting \cup Appending
    /\ owner \in {"none", "held", "waiting", "drained", "aborted"}

\* An entry is known by the call that reserved its bytes.
IdsDiffer ==
    /\ \A i \in 1..Len(taken) : taken[i].id < calls
    /\ \A i, j \in 1..Len(taken) : taken[i].id = taken[j].id => i = j
    /\ \A l \in Reserving : handle[l].id < calls /\ \A i \in 1..Len(taken) : taken[i].id # handle[l].id
    /\ \A l, m \in Reserving : handle[l].id = handle[m].id => l = m

\* Nobody has taken the queue from the writer.
Flowing == live /\ owner # "aborted"
PhasesFit ==
    /\ owner = "none" <=> ~live
    /\ ~Flowing => writer.pc = "ended"
    /\ writer.pc = "ended" => queue = <<>>
    /\ owner = "drained" => writer.pc = "ended"
    /\ (writer.pc \in {"closing", "ended"} \/ (writer.pc = "append" /\ writer.next = "closing")) => closed

\* The writer has dealt with the first n entries, one is perhaps in its hand and
\* the others wait in their order.
Held == IF writer.pc = "append" THEN 1 ELSE 0
WriterIsAt(n) ==
    /\ \E place \in [1..Len(persisted) -> 1..n] : StoredUpTo(n, place)
    /\ IsFiniteSet(failed) /\ Len(persisted) + Cardinality(failed) = n
    /\ \A x \in failed : \E k \in 1..n : x = taken[k].id
    /\ Flowing => /\ n + Held + Len(queue) = Len(taken)
                  /\ writer.pc = "append" => writer.entry = taken[n + 1]
                  /\ \A i \in 1..Len(queue) : queue[i] = taken[n + Held + i]

LogIInv ==
    /\ LogTyped /\ IdsDiffer /\ PhasesFit /\ BytesAreExact
    /\ \E n \in 0..Len(taken) : WriterIsAt(n)

-----------------------------------------------------------------------------
(* The allowance.                                                          *)

\* So many bytes, so many elements.
LEMMA OnePile ==
    ASSUME NEW x, NEW n \in Nat
    PROVE  IsFiniteSet({x} \X (1..n)) /\ Cardinality({x} \X (1..n)) = n
<1>1. IsFiniteSet({x}) /\ Cardinality({x}) = 1
  BY FS_Singleton
<1>2. IsFiniteSet(1..n) /\ Cardinality(1..n) = n
  BY FS_Interval
<1>3. IsFiniteSet({x} \X (1..n)) /\ Cardinality({x} \X (1..n)) = Cardinality({x}) * Cardinality(1..n)
  BY <1>1, <1>2, FS_Product
<1>4. QED
  BY <1>1, <1>2, <1>3

\* Who is charged a byte.
LEMMA InCharged ==
    ASSUME NEW x
    PROVE  x \in Charged <=> \/ \E i \in 1..Len(taken) : x \in BytesOf(taken[i])
                             \/ \E l \in Reserving : x \in BytesOf(handle[l])
BY DEF Charged

\* The same after a step.
LEMMA InChargedThen ==
    ASSUME NEW x
    PROVE  x \in Charged' <=> \/ \E i \in 1..Len(taken') : x \in {taken'[i].id} \X (1..taken'[i].size)
                              \/ \E l \in Reserving' : x \in {handle'[l].id} \X (1..handle'[l].size)
BY DEF Charged, BytesOf

\* The handles by their kind.
LEMMA HandleTypes ==
    ASSUME LogTyped, NEW l \in Source
    PROVE  \/ handle[l] = AtRest /\ handle[l].pc = "idle" /\ l \notin Reserving
           \/ /\ handle[l] \in Reserved /\ handle[l].pc = "send" /\ l \in Reserving
              /\ handle[l].size \in 1..MaxEntryBytes /\ handle[l].id \in Nat
BY DEF LogTyped, Reserved, AtRest, Reserving

\* The entries that were taken.
LEMMA TakenTypes ==
    ASSUME LogTyped
    PROVE  /\ Len(taken) \in Nat
           /\ \A i \in 1..Len(taken) : taken[i] \in Logged /\ taken[i].id \in Nat /\ taken[i].size \in 1..MaxEntryBytes
<1>1. taken \in Seq(Logged)
  BY DEF LogTyped
<1>2. Len(taken) \in Nat /\ \A i \in 1..Len(taken) : taken[i] \in Logged
  BY <1>1
<1>3. \A e \in Logged : e.id \in Nat /\ e.size \in 1..MaxEntryBytes
  BY DEF Logged
<1>4. QED
  BY <1>2, <1>3

\* What is charged is finite and names calls that were made.
LEMMA ChargedIsFinite ==
    ASSUME LogTyped, IdsDiffer
    PROVE  /\ Charged \subseteq (0..calls - 1) \X (1..MaxEntryBytes)
           /\ IsFiniteSet(Charged) /\ Cardinality(Charged) \in Nat
<1>1. calls \in Nat /\ MaxEntryBytes \in Nat /\ MaxLogBytes \in Nat
  BY LogAssumption DEF LogTyped
<1>2. ASSUME NEW x \in Charged PROVE x \in (0..calls - 1) \X (1..MaxEntryBytes)
  <2>1. CASE \E i \in 1..Len(taken) : x \in BytesOf(taken[i])
    <3>1. PICK i \in 1..Len(taken) : x \in BytesOf(taken[i])
      BY <2>1
    <3>2. PICK k \in Nat, n \in 1..MaxEntryBytes : k = taken[i].id /\ n = taken[i].size
      BY <3>1, TakenTypes
    <3>3. k < calls
      BY <3>1, <3>2 DEF IdsDiffer
    <3>4. k \in 0..calls - 1 /\ 1..n \subseteq 1..MaxEntryBytes
      BY <1>1, <3>2, <3>3
    <3>5. QED
      BY <3>1, <3>2, <3>4 DEF BytesOf
  <2>2. CASE \E l \in Reserving : x \in BytesOf(handle[l])
    <3>1. PICK l \in Reserving : x \in BytesOf(handle[l])
      BY <2>2
    <3>2. l \in Source
      BY DEF Reserving
    <3>3. handle[l].id \in 0..calls - 1 /\ 1..handle[l].size \subseteq 1..MaxEntryBytes
      BY <1>1, <3>2, HandleTypes DEF IdsDiffer
    <3>4. QED
      BY <3>1, <3>3 DEF BytesOf
  <2>3. QED
    BY <2>1, <2>2, InCharged
<1>3. IsFiniteSet((0..calls - 1) \X (1..MaxEntryBytes))
  <2>1. IsFiniteSet(0..calls - 1) /\ IsFiniteSet(1..MaxEntryBytes)
    BY <1>1, FS_Interval
  <2>2. QED
    BY <2>1, FS_Product
<1>4. IsFiniteSet(Charged)
  BY <1>2, <1>3, FS_Subset
<1>5. QED
  BY <1>2, <1>4, FS_CardinalityType

\* The bytes of a handle are charged to nobody else.
LEMMA BytesAreApart ==
    ASSUME LogTyped, IdsDiffer, NEW l \in Reserving
    PROVE  /\ \A i \in 1..Len(taken) : BytesOf(taken[i]) \cap BytesOf(handle[l]) = {}
           /\ \A m \in Reserving \ {l} : BytesOf(handle[m]) \cap BytesOf(handle[l]) = {}
<1>1. \A i \in 1..Len(taken) : taken[i].id # handle[l].id
  BY DEF IdsDiffer
<1>2. \A m \in Reserving \ {l} : handle[m].id # handle[l].id
  BY DEF IdsDiffer
<1>3. QED
  BY <1>1, <1>2 DEF BytesOf

\* A reservation charges its bytes.
LEMMA ReserveCharges ==
    ASSUME LogIInv, NEW l \in Source, NEW n \in 1..MaxEntryBytes, handle[l] = AtRest,
           handle' = [handle EXCEPT ![l] = [pc |-> "send", size |-> n, id |-> calls]],
           bytes' = bytes + n, taken' = taken
    PROVE  BytesAreExact'
<1>1. LogTyped /\ IdsDiffer /\ BytesAreExact
  BY DEF LogIInv
<1>2. calls \in Nat /\ n \in Nat /\ bytes \in Nat
  BY <1>1, LogAssumption DEF LogTyped
<1>3. l \notin Reserving /\ Reserving' = Reserving \cup {l} /\ l \in Reserving'
      /\ handle'[l].id = calls /\ handle'[l].size = n /\ \A m \in Reserving : handle'[m] = handle[m]
  BY <1>1 DEF LogTyped, Reserving, AtRest
<1> DEFINE New == {calls} \X (1..n)
<1>4. \A x : x \in Charged' <=> x \in Charged \/ x \in New
  <2>1. TAKE x
  <2>2. (\E m \in Reserving' : x \in {handle'[m].id} \X (1..handle'[m].size))
            <=> x \in New \/ \E m \in Reserving : x \in BytesOf(handle[m])
    BY <1>3 DEF BytesOf
  <2>3. (\E i \in 1..Len(taken') : x \in {taken'[i].id} \X (1..taken'[i].size))
            <=> \E i \in 1..Len(taken) : x \in BytesOf(taken[i])
    BY DEF BytesOf
  <2> HIDE DEF New
  <2>4. QED
    BY <2>2, <2>3, InCharged, InChargedThen
<1>5. Charged' = Charged \cup New /\ Charged \cap New = {}
  <2>1. Charged \cap New = {}
    BY <1>1, <1>2, ChargedIsFinite
  <2> HIDE DEF New
  <2>2. QED
    BY <1>4, <2>1
<1>6. IsFiniteSet(New) /\ Cardinality(New) = n /\ IsFiniteSet(Charged) /\ Cardinality(Charged) \in Nat
  BY <1>1, <1>2, OnePile, ChargedIsFinite
<1>7. Cardinality(Charged') = Cardinality(Charged) + n
  <2>1. Cardinality({}) = 0
    BY FS_EmptySet
  <2> HIDE DEF New
  <2>2. Cardinality(Charged \cup New) = Cardinality(Charged) + Cardinality(New) - Cardinality(Charged \cap New)
    BY <1>6, FS_Union
  <2>3. QED
    <3>1. Cardinality(Charged \cap New) = 0
      BY <1>5, <2>1
    <3>2. Cardinality(Charged') = Cardinality(Charged \cup New)
      BY <1>5
    <3>3. QED
      BY <1>2, <1>6, <2>2, <3>1, <3>2
<1>8. QED
  BY <1>1, <1>7 DEF BytesAreExact

\* Giving back takes them away again.
LEMMA GiveBackDischarges ==
    ASSUME LogIInv, NEW l \in Reserving,
           handle' = [handle EXCEPT ![l] = AtRest], bytes' = bytes - handle[l].size, taken' = taken
    PROVE  BytesAreExact' /\ bytes' \in Nat
<1>1. LogTyped /\ IdsDiffer /\ BytesAreExact
  BY DEF LogIInv
<1>2. l \in Source /\ handle[l].size \in Nat /\ bytes \in Nat
  BY <1>1, HandleTypes, LogAssumption DEF LogTyped, Reserving
<1>3. Reserving' = Reserving \ {l} /\ \A m \in Reserving \ {l} : handle'[m] = handle[m]
  BY <1>1, <1>2 DEF LogTyped, Reserving, AtRest
<1> DEFINE Old == BytesOf(handle[l])
<1>4. \A x : x \in Charged' <=> x \in Charged /\ x \notin Old
  <2>1. TAKE x
  <2>2. (\E m \in Reserving' : x \in {handle'[m].id} \X (1..handle'[m].size))
            <=> \E m \in Reserving \ {l} : x \in BytesOf(handle[m])
    BY <1>3 DEF BytesOf
  <2>3. (\E i \in 1..Len(taken') : x \in {taken'[i].id} \X (1..taken'[i].size))
            <=> \E i \in 1..Len(taken) : x \in BytesOf(taken[i])
    BY DEF BytesOf
  <2>4. /\ \A i \in 1..Len(taken) : x \in BytesOf(taken[i]) => x \notin Old
        /\ \A m \in Reserving \ {l} : x \in BytesOf(handle[m]) => x \notin Old
    BY <1>1, BytesAreApart
  <2> HIDE DEF Old
  <2>5. x \in Old <=> x \in BytesOf(handle[l])
    BY DEF Old
  <2>6. QED
    BY <2>2, <2>3, <2>4, <2>5, InCharged, InChargedThen
<1>5. Charged' = Charged \ Old /\ Charged \cap Old = Old
  <2> HIDE DEF Old
  <2>1. Old \subseteq Charged
    BY InCharged DEF Old
  <2>2. QED
    BY <1>4, <2>1
<1>6. Cardinality(Old) = handle[l].size /\ IsFiniteSet(Charged) /\ Cardinality(Charged) \in Nat
  BY <1>1, <1>2, OnePile, ChargedIsFinite DEF BytesOf
<1>7. IsFiniteSet(Charged') /\ Cardinality(Charged') = Cardinality(Charged) - handle[l].size
  <2> HIDE DEF Old
  <2>1. IsFiniteSet(Charged \ Old) /\ Cardinality(Charged \ Old) = Cardinality(Charged) - Cardinality(Charged \cap Old)
    BY <1>6, FS_Difference
  <2>2. QED
    BY <1>5, <1>6, <2>1
<1>8. Cardinality(Charged') \in Nat
  BY <1>7, FS_CardinalityType
<1>9. QED
  BY <1>1, <1>7, <1>8 DEF BytesAreExact

\* An entry that is taken keeps its charge.
LEMMA TakeKeepsCharge ==
    ASSUME LogIInv, NEW l \in Reserving,
           handle' = [handle EXCEPT ![l] = AtRest], bytes' = bytes, taken' = Append(taken, Entry(l))
    PROVE  BytesAreExact'
<1>1. LogTyped /\ IdsDiffer /\ BytesAreExact
  BY DEF LogIInv
<1>2. l \in Source
  BY DEF Reserving
<1>3. Reserving' = Reserving \ {l} /\ \A m \in Reserving \ {l} : handle'[m] = handle[m]
  BY <1>1, <1>2 DEF LogTyped, Reserving, AtRest
<1> DEFINE n == Len(taken)
<1>4. /\ n \in Nat /\ Len(taken') = n + 1 /\ \A i \in 1..n : taken'[i] = taken[i]
      /\ taken'[n + 1].id = handle[l].id /\ taken'[n + 1].size = handle[l].size
  BY <1>1 DEF LogTyped, Entry
<1>5. \A i \in 1..n + 1 : i = n + 1 \/ i \in 1..n
  BY <1>4
<1>6. \A x : x \in Charged' <=> x \in Charged
  <2>1. TAKE x
  <2>2. (\E m \in Reserving' : x \in {handle'[m].id} \X (1..handle'[m].size))
            <=> \E m \in Reserving \ {l} : x \in BytesOf(handle[m])
    BY <1>3 DEF BytesOf
  <2>3. (\E i \in 1..Len(taken') : x \in {taken'[i].id} \X (1..taken'[i].size))
            <=> x \in BytesOf(handle[l]) \/ \E i \in 1..Len(taken) : x \in BytesOf(taken[i])
    <3>1. n + 1 \in 1..n + 1 /\ \A i \in 1..n : i \in 1..n + 1
      BY <1>4
    <3>2. QED
      BY <1>4, <1>5, <3>1 DEF BytesOf
  <2>4. QED
    BY <2>2, <2>3, InCharged, InChargedThen
<1>7. QED
  BY <1>1, <1>6 DEF BytesAreExact

-----------------------------------------------------------------------------
(* The order.                                                              *)

\* What has been dealt with stays so while taken only grows.
LEMMA StoredKept ==
    ASSUME NEW n \in Nat, WriterIsAt(n), persisted' = persisted, failed' = failed,
           \A k \in 1..n : taken'[k] = taken[k]
    PROVE  /\ \E place \in [1..Len(persisted') -> 1..n] : StoredUpTo(n, place)'
           /\ IsFiniteSet(failed') /\ Len(persisted') + Cardinality(failed') = n
           /\ \A x \in failed' : \E k \in 1..n : x = taken'[k].id
<1>1. PICK place \in [1..Len(persisted) -> 1..n] : StoredUpTo(n, place)
  BY DEF WriterIsAt
<1>2. StoredUpTo(n, place)'
  BY <1>1 DEF StoredUpTo
<1>3. QED
  BY <1>1, <1>2 DEF WriterIsAt

\* The writer's entry is stored, or failed.
LEMMA AppendMoves ==
    ASSUME LogTyped, IdsDiffer, NEW n \in 0..Len(taken), WriterIsAt(n), Flowing, AppendEvent, writer \in Appending
    PROVE  n + 1 \in 0..Len(taken) /\ WriterIsAt(n + 1)'
<1>1. /\ writer.pc = "append" /\ Held = 1 /\ writer' = [pc |-> writer.next] /\ writer.next \in {"run", "closing"}
      /\ UNCHANGED <<live, taken, queue, owner>>
  BY DEF AppendEvent, Held, Appending
<1>2. /\ taken \in Seq(Logged) /\ queue \in Seq(Logged) /\ persisted \in Seq(Logged)
      /\ Len(taken) \in Nat /\ Len(queue) \in Nat /\ Len(persisted) \in Nat /\ n \in Nat
  BY DEF LogTyped
<1>3. n + 1 \in 1..Len(taken) /\ writer.entry = taken[n + 1] /\ n + 1 + Len(queue) = Len(taken)
      /\ \A i \in 1..Len(queue) : queue[i] = taken[n + 1 + i]
  BY <1>1, <1>2 DEF WriterIsAt
<1>4. PICK place \in [1..Len(persisted) -> 1..n] : StoredUpTo(n, place)
  BY DEF WriterIsAt
<1>5. \A x \in failed : \E k \in 1..n : x = taken[k].id
  BY DEF WriterIsAt
<1>6. taken[n + 1].id \notin failed
  <2>1. \A k \in 1..n : k \in 1..Len(taken) /\ k # n + 1
    BY <1>2, <1>3
  <2>2. QED
    BY <1>3, <1>5, <2>1 DEF IdsDiffer
<1>7. IsFiniteSet(failed) /\ Cardinality(failed) \in Nat /\ Len(persisted) + Cardinality(failed) = n
  BY FS_CardinalityType DEF WriterIsAt
<1>8. Flowing' => /\ n + 1 + Held' + Len(queue') = Len(taken') /\ writer'.pc # "append"
                  /\ \A i \in 1..Len(queue') : queue'[i] = taken'[n + 1 + Held' + i]
  <2>1. Held' = 0 /\ writer'.pc # "append"
    BY <1>1 DEF Held
  <2>2. \A i \in 1..Len(queue) : n + 1 + 0 + i = n + 1 + i
    BY <1>2
  <2>3. QED
    <3>1. n + 1 + 0 + Len(queue) = Len(taken) /\ queue' = queue /\ taken' = taken
      BY <1>1, <1>2, <1>3
    <3>2. \A i \in 1..Len(queue) : queue[i] = taken[n + 1 + 0 + i]
      BY <1>3, <2>2
    <3>3. QED
      BY <2>1, <3>1, <3>2
<1>9. CASE persisted' = Append(persisted, writer.entry) /\ failed' = failed
  <2> DEFINE m == Len(persisted)
  <2>1. PICK there : there = [i \in 1..m + 1 |-> IF i = m + 1 THEN n + 1 ELSE place[i]]
    OBVIOUS
  <2>2. Len(persisted') = m + 1 /\ persisted'[m + 1] = taken[n + 1] /\ \A i \in 1..m : persisted'[i] = persisted[i]
    BY <1>2, <1>3, <1>9
  <2>3. \A i \in 1..m + 1 : i = m + 1 \/ i \in 1..m
    BY <1>2
  <2>4. \A i \in 1..m : there[i] = place[i] /\ place[i] \in 1..n /\ place[i] < n + 1 /\ i # m + 1
    BY <1>2, <1>4, <2>1
  <2>5. there[m + 1] = n + 1 /\ there \in [1..m + 1 -> 1..n + 1]
    BY <1>2, <2>1, <2>3, <2>4
  <2>6. \A i, j \in 1..m + 1 : i < j => there[i] < there[j]
    <3>1. SUFFICES ASSUME NEW i \in 1..m + 1, NEW j \in 1..m + 1, i < j PROVE there[i] < there[j]
      OBVIOUS
    <3>2. i \in 1..m
      BY <1>2, <3>1
    <3>3. CASE j = m + 1
      BY <2>4, <2>5, <3>2, <3>3
    <3>4. CASE j \in 1..m
      BY <1>4, <2>4, <3>1, <3>2, <3>4 DEF StoredUpTo
    <3>5. QED
      BY <2>3, <3>3, <3>4
  <2>7. \A i \in 1..m + 1 : persisted'[i] = taken[there[i]]
    BY <1>4, <2>2, <2>3, <2>4, <2>5 DEF StoredUpTo
  <2>8. \A k \in 1..n + 1 : taken[k].id \notin failed <=> \E i \in 1..m + 1 : there[i] = k
    <3>1. SUFFICES ASSUME NEW k \in 1..n + 1
                   PROVE  taken[k].id \notin failed <=> \E i \in 1..m + 1 : there[i] = k
      OBVIOUS
    <3>2. CASE k = n + 1
      BY <1>2, <1>6, <2>5, <3>2
    <3>3. CASE k \in 1..n
      <4>1. (\E i \in 1..m + 1 : there[i] = k) <=> \E i \in 1..m : place[i] = k
        <5>1. k # n + 1 /\ \A i \in 1..m : i \in 1..m + 1
          BY <1>2, <3>3
        <5>2. QED
          BY <2>3, <2>4, <2>5, <5>1
      <4>2. QED
        BY <1>4, <3>3, <4>1 DEF StoredUpTo
    <3>4. QED
      BY <1>2, <3>2, <3>3
  <2>9. StoredUpTo(n + 1, there)'
    BY <1>1, <1>9, <2>2, <2>6, <2>7, <2>8 DEF StoredUpTo
  <2>10. IsFiniteSet(failed') /\ Len(persisted') + Cardinality(failed') = n + 1
    BY <1>2, <1>7, <1>9, <2>2
  <2>11. \A x \in failed' : \E k \in 1..n + 1 : x = taken'[k].id
    BY <1>1, <1>2, <1>5, <1>9
  <2>12. \E other \in [1..Len(persisted') -> 1..n + 1] : StoredUpTo(n + 1, other)'
    BY <2>2, <2>5, <2>9
  <2>13. QED
    BY <1>2, <1>3, <1>8, <2>10, <2>11, <2>12 DEF WriterIsAt
<1>10. CASE failed' = failed \cup {writer.entry.id} /\ persisted' = persisted
  <2>1. place \in [1..Len(persisted) -> 1..n + 1] /\ \A i \in 1..Len(persisted) : place[i] \in 1..n
    <3>1. \A x \in 1..n : x \in 1..n + 1
      BY <1>2
    <3>2. QED
      BY <1>4, <3>1
  <2>2. \A k \in 1..n + 1 : taken[k].id \notin failed' <=> \E i \in 1..Len(persisted) : place[i] = k
    <3>1. SUFFICES ASSUME NEW k \in 1..n + 1
                   PROVE  taken[k].id \notin failed' <=> \E i \in 1..Len(persisted) : place[i] = k
      OBVIOUS
    <3>2. CASE k = n + 1
      <4>1. k \notin 1..n
        BY <1>2, <3>2
      <4>2. QED
        BY <1>3, <1>10, <2>1, <3>2, <4>1
    <3>3. CASE k \in 1..n
      <4>1. taken[k].id # taken[n + 1].id
        BY <1>2, <1>3, <3>3 DEF IdsDiffer
      <4>2. QED
        BY <1>3, <1>4, <1>10, <3>3, <4>1 DEF StoredUpTo
    <3>4. QED
      BY <1>2, <3>2, <3>3
  <2>3. StoredUpTo(n + 1, place)'
    BY <1>1, <1>4, <1>10, <2>2 DEF StoredUpTo
  <2>4. IsFiniteSet(failed') /\ Cardinality(failed') = Cardinality(failed) + 1
    BY <1>3, <1>6, <1>7, <1>10, FS_AddElement
  <2>5. Len(persisted') + Cardinality(failed') = n + 1
    BY <1>2, <1>7, <1>10, <2>4
  <2>6. \A x \in failed' : \E k \in 1..n + 1 : x = taken'[k].id
    <3>1. \A k \in 1..n : k \in 1..n + 1
      BY <1>2
    <3>2. n + 1 \in 1..n + 1
      BY <1>2
    <3>3. QED
      BY <1>1, <1>3, <1>5, <1>10, <3>1, <3>2
  <2>7. \E other \in [1..Len(persisted') -> 1..n + 1] : StoredUpTo(n + 1, other)'
    BY <1>10, <2>1, <2>3
  <2>8. QED
    BY <1>2, <1>3, <1>8, <2>4, <2>5, <2>6, <2>7 DEF WriterIsAt
<1>11. QED
  BY <1>9, <1>10 DEF AppendEvent

\* No other step changes what has been dealt with.
LEMMA OrderMoves ==
    ASSUME LogIInv, [LogNext]_logVars
    PROVE  \E n \in 0..Len(taken') : WriterIsAt(n)'
<1>1. PICK n \in 0..Len(taken) : WriterIsAt(n)
  BY DEF LogIInv
<1>2. /\ LogTyped /\ IdsDiffer /\ PhasesFit
      /\ taken \in Seq(Logged) /\ queue \in Seq(Logged) /\ n \in Nat
      /\ Len(taken) \in Nat /\ Len(queue) \in Nat /\ (queue = <<>> <=> Len(queue) = 0)
  BY DEF LogIInv, LogTyped
<1>3. Flowing => /\ n + Held + Len(queue) = Len(taken)
                 /\ writer.pc = "append" => writer.entry = taken[n + 1]
                 /\ \A i \in 1..Len(queue) : queue[i] = taken[n + Held + i]
  BY <1>1 DEF WriterIsAt
<1>4. Held \in {0, 1} /\ (Held = 1 <=> writer.pc = "append")
  BY DEF Held
<1>5. ASSUME persisted' = persisted, failed' = failed, n <= Len(taken'), Len(taken') \in Nat,
             \A k \in 1..n : taken'[k] = taken[k],
             Flowing' => /\ n + Held' + Len(queue') = Len(taken')
                         /\ writer'.pc = "append" => writer'.entry = taken'[n + 1]
                         /\ \A i \in 1..Len(queue') : queue'[i] = taken'[n + Held' + i]
      PROVE  \E k \in 0..Len(taken') : WriterIsAt(k)'
  <2>1. /\ \E place \in [1..Len(persisted') -> 1..n] : StoredUpTo(n, place)'
        /\ IsFiniteSet(failed') /\ Len(persisted') + Cardinality(failed') = n
        /\ \A x \in failed' : \E k \in 1..n : x = taken'[k].id
    BY <1>1, <1>2, <1>5, StoredKept
  <2>2. WriterIsAt(n)'
    BY <1>5, <2>1 DEF WriterIsAt
  <2>3. QED
    BY <1>2, <1>5, <2>2
<1>6. ASSUME UNCHANGED <<taken, queue, writer, persisted, failed>>, Flowing' => Flowing
      PROVE  \E k \in 0..Len(taken') : WriterIsAt(k)'
  <2>1. Held' = Held
    BY <1>6 DEF Held
  <2>2. QED
    BY <1>1, <1>2, <1>3, <1>5, <1>6, <2>1
<1>7. ASSUME NEW l \in Source, GiveBack(l) \/ \E k \in EntrySizes : ReserveBytes(l, k)
      PROVE  \E k \in 0..Len(taken') : WriterIsAt(k)'
  BY <1>6, <1>7 DEF GiveBack, ReserveBytes, Flowing
<1>8. ASSUME NEW l \in Source, Discard(l) \/ Enqueue(l) PROVE \E k \in 0..Len(taken') : WriterIsAt(k)'
  <2> DEFINE e == Entry(l)
  <2>1. /\ taken' = Append(taken, e) /\ UNCHANGED <<live, writer, persisted, failed, owner>>
        /\ (live /\ queue' = Append(queue, e)) \/ (~live /\ queue' = queue)
    BY <1>8 DEF Discard, Enqueue
  <2> HIDE DEF e
  <2>2. /\ Len(taken') = Len(taken) + 1 /\ taken'[Len(taken) + 1] = e
        /\ \A k \in 1..Len(taken) : taken'[k] = taken[k]
    BY <1>2, <2>1
  <2>3. Held' = Held /\ (Flowing' <=> Flowing)
    BY <2>1 DEF Held, Flowing
  <2>4. CASE Flowing
    <3>1. Len(queue') = Len(queue) + 1 /\ queue'[Len(queue) + 1] = e /\ \A i \in 1..Len(queue) : queue'[i] = queue[i]
      <4>1. queue' = Append(queue, e)
        BY <2>1, <2>4 DEF Flowing
      <4>2. QED
        BY <1>2, <4>1
    <3>2. n + Held + Len(queue) = Len(taken)
      BY <1>3, <2>4
    <3>3. n + Held' + Len(queue') = Len(taken')
      <4>1. PICK q \in Nat, t \in Nat : q = Len(queue) /\ t = Len(taken)
        BY <1>2
      <4>2. Held \in Nat
        BY <1>4
      <4>3. n + Held + q = t /\ n + Held' + Len(queue') = n + Held + (q + 1) /\ Len(taken') = t + 1
        BY <2>2, <2>3, <3>1, <3>2, <4>1
      <4>4. n + Held + (q + 1) = t + 1
        BY <1>2, <4>1, <4>2, <4>3
      <4>5. QED
        BY <4>3, <4>4
    <3>4. ASSUME NEW i \in 1..Len(queue') PROVE queue'[i] = taken'[n + Held' + i]
      <4>1. CASE i = Len(queue) + 1
        <5>1. n + Held + i = Len(taken) + 1
          BY <1>2, <1>4, <3>2, <4>1
        <5>2. QED
          BY <2>2, <2>3, <3>1, <4>1, <5>1
      <4>2. CASE i \in 1..Len(queue)
        <5>1. n + Held + i \in 1..Len(taken)
          BY <1>2, <1>4, <3>2, <4>2
        <5>2. QED
          BY <1>3, <2>2, <2>3, <2>4, <3>1, <4>2, <5>1
      <4>3. QED
        BY <1>2, <3>1, <3>4, <4>1, <4>2
    <3>5. writer'.pc = "append" => writer'.entry = taken'[n + 1]
      <4>1. SUFFICES ASSUME writer.pc = "append" PROVE writer.entry = taken'[n + 1]
        BY <2>1
      <4>2. n + 1 \in 1..Len(taken)
        BY <1>2, <1>4, <3>2, <4>1
      <4>3. QED
        BY <1>3, <2>2, <2>4, <4>1, <4>2
    <3>6. n <= Len(taken') /\ Len(taken') \in Nat /\ \A k \in 1..n : taken'[k] = taken[k]
      BY <1>2, <2>2
    <3>7. QED
      BY <1>5, <2>1, <3>3, <3>4, <3>5, <3>6
  <2>5. CASE ~Flowing
    <3>1. n <= Len(taken') /\ Len(taken') \in Nat /\ \A k \in 1..n : taken'[k] = taken[k]
      BY <1>2, <2>2
    <3>2. QED
      BY <1>5, <2>1, <2>3, <2>5, <3>1
  <2>6. QED
    BY <2>4, <2>5
<1>9. CASE ReceiveEntry
  <2>1. /\ writer.pc \in {"run", "closing"} /\ queue # <<>> /\ queue' = Tail(queue)
        /\ writer'.pc = "append" /\ writer'.entry = Head(queue)
        /\ UNCHANGED <<live, taken, persisted, failed, owner>>
    BY <1>9 DEF ReceiveEntry
  <2>2. Flowing /\ Held = 0 /\ Held' = 1
    BY <1>2, <2>1 DEF PhasesFit, Held
  <2>3. Len(queue') = Len(queue) - 1 /\ Head(queue) = queue[1] /\ Len(queue) >= 1
        /\ \A i \in 1..Len(queue') : queue'[i] = queue[i + 1]
    BY <1>2, <2>1
  <2>4. n + Len(queue) = Len(taken) /\ \A i \in 1..Len(queue) : queue[i] = taken[n + i]
    <3>1. \A i \in 1..Len(queue) : n + 0 + i = n + i
      BY <1>2
    <3>2. QED
      BY <1>2, <1>3, <2>2, <3>1
  <2>5. n + 1 + Len(queue') = Len(taken)
    <3>1. n \in Nat /\ Len(queue) \in Nat /\ n + Len(queue) = Len(taken)
      BY <1>2, <2>4
    <3>2. Len(queue') = Len(queue) - 1
      BY <2>3
    <3>3. QED
      BY <3>1, <3>2
  <2>6. writer'.entry = taken[n + 1]
    BY <1>2, <2>1, <2>3, <2>4
  <2>7. ASSUME NEW i \in 1..Len(queue') PROVE queue'[i] = taken[n + 1 + i]
    <3>1. i + 1 \in 1..Len(queue) /\ n + (i + 1) = n + 1 + i
      BY <1>2, <2>3
    <3>2. QED
      BY <2>3, <2>4, <3>1
  <2>8. n <= Len(taken') /\ Len(taken') \in Nat
    BY <1>2, <2>1
  <2>9. QED
    BY <1>5, <2>1, <2>2, <2>5, <2>6, <2>7, <2>8
<1>10. CASE AppendEvent
  <2>1. writer.pc = "append" /\ writer \in Appending /\ taken' = taken
    BY <1>2, <1>10 DEF AppendEvent, LogTyped, Resting
  <2>2. Flowing
    BY <1>2, <2>1 DEF PhasesFit
  <2>3. QED
    BY <1>1, <1>2, <1>10, <2>1, <2>2, AppendMoves
<1>11. CASE BeginClosing \/ WriterEnds
  <2>1. /\ UNCHANGED <<live, taken, queue, persisted, failed, owner>>
        /\ writer.pc # "append" /\ writer'.pc # "append"
    BY <1>11 DEF BeginClosing, WriterEnds
  <2>2. Held' = 0 /\ Held = 0 /\ (Flowing' <=> Flowing)
    BY <2>1 DEF Held, Flowing
  <2>3. QED
    BY <1>2, <1>3, <1>5, <2>1, <2>2
<1>12. CASE ShutdownLog \/ ShutdownReturns
  BY <1>6, <1>12 DEF ShutdownLog, ShutdownReturns, Flowing
<1>13. CASE ShutdownTimesOut
  <2>1. ~Flowing' /\ UNCHANGED <<taken, persisted, failed>>
    BY <1>13 DEF ShutdownTimesOut, Flowing
  <2>2. QED
    BY <1>2, <1>5, <2>1
<1>14. CASE UNCHANGED logVars
  BY <1>6, <1>14 DEF logVars, Flowing
<1>15. QED
  BY <1>7, <1>8, <1>9, <1>10, <1>11, <1>12, <1>13, <1>14 DEF LogNext

-----------------------------------------------------------------------------
(* Every step of the log.                                                  *)

\* What a step does to the handles, the allowance and the entries.
LEMMA LogMoves ==
    ASSUME LogTyped, [LogNext]_logVars
    PROVE  \/ UNCHANGED <<bytes, handle, calls, taken>>
           \/ UNCHANGED <<bytes, handle, taken>> /\ calls < MaxCalls /\ calls' = calls + 1
           \/ \E l \in Source, n \in 1..MaxEntryBytes :
                /\ handle[l] = AtRest /\ calls < MaxCalls /\ calls' = calls + 1 /\ bytes + n <= MaxLogBytes
                /\ handle' = [handle EXCEPT ![l] = [pc |-> "send", size |-> n, id |-> calls]]
                /\ bytes' = bytes + n /\ taken' = taken
           \/ \E l \in Reserving :
                /\ handle' = [handle EXCEPT ![l] = AtRest] /\ calls' = calls
                /\ \/ bytes' = bytes - handle[l].size /\ taken' = taken
                   \/ bytes' = bytes /\ taken' = Append(taken, Entry(l))
<1>1. ASSUME NEW l \in Source, NEW n \in EntrySizes, ReserveBytes(l, n)
      PROVE  \/ UNCHANGED <<bytes, handle, taken>> /\ calls < MaxCalls /\ calls' = calls + 1
             \/ /\ handle[l] = AtRest /\ calls < MaxCalls /\ calls' = calls + 1 /\ bytes + n <= MaxLogBytes
                /\ handle' = [handle EXCEPT ![l] = [pc |-> "send", size |-> n, id |-> calls]]
                /\ bytes' = bytes + n /\ taken' = taken /\ n \in 1..MaxEntryBytes
  <2>1. n \in Nat \ {0} /\ MaxEntryBytes \in Nat
    BY LogAssumption
  <2>2. handle[l] = AtRest
    BY <1>1, HandleTypes DEF ReserveBytes
  <2>3. QED
    BY <1>1, <2>1, <2>2 DEF ReserveBytes
<1>2. ASSUME NEW l \in Source, Discard(l) \/ Enqueue(l)
      PROVE  /\ l \in Reserving /\ handle' = [handle EXCEPT ![l] = AtRest] /\ calls' = calls
             /\ bytes' = bytes /\ taken' = Append(taken, Entry(l))
  BY <1>2 DEF Discard, Enqueue, Reserving
<1>3. ASSUME NEW l \in Source, GiveBack(l)
      PROVE  /\ l \in Reserving /\ handle' = [handle EXCEPT ![l] = AtRest] /\ calls' = calls
             /\ bytes' = bytes - handle[l].size /\ taken' = taken
  BY <1>3 DEF GiveBack, Reserving
<1>4. CASE ReceiveEntry \/ AppendEvent \/ BeginClosing \/ WriterEnds \/ ShutdownLog \/ ShutdownReturns
           \/ ShutdownTimesOut \/ UNCHANGED logVars
  BY <1>4 DEF ReceiveEntry, AppendEvent, BeginClosing, WriterEnds, ShutdownLog, ShutdownReturns, ShutdownTimesOut, logVars
<1>5. QED
  BY <1>1, <1>2, <1>3, <1>4 DEF LogNext

\* An entry that is taken.
LEMMA EntryTypes ==
    ASSUME LogTyped, NEW l \in Reserving
    PROVE  Entry(l) \in Logged /\ Entry(l).id = handle[l].id
<1>1. l \in Source
  BY DEF Reserving
<1>2. handle[l].size \in 1..MaxEntryBytes /\ handle[l].id \in Nat
  BY <1>1, HandleTypes
<1>3. QED
  BY <1>1, <1>2 DEF Entry, Logged

\* Ids stay apart.
LEMMA IdsStep ==
    ASSUME LogTyped, IdsDiffer, [LogNext]_logVars
    PROVE  IdsDiffer'
<1>1. calls \in Nat /\ taken \in Seq(Logged) /\ Len(taken) \in Nat /\ \A l \in Reserving : l \in Source
  BY DEF LogTyped, Reserving
<1>2. ASSUME UNCHANGED <<handle, taken>>, calls' = calls \/ calls' = calls + 1 PROVE IdsDiffer'
  <2>1. Reserving' = Reserving
    BY <1>2 DEF Reserving
  <2>2. \A l \in Reserving : handle[l].id \in Nat
    BY <1>1, HandleTypes
  <2>3. QED
    BY <1>1, <1>2, <2>1, <2>2, TakenTypes DEF IdsDiffer
<1>3. ASSUME NEW l \in Source, NEW n \in 1..MaxEntryBytes, handle[l] = AtRest, calls' = calls + 1, taken' = taken,
             handle' = [handle EXCEPT ![l] = [pc |-> "send", size |-> n, id |-> calls]]
      PROVE  IdsDiffer'
  <2>1. /\ Reserving' = Reserving \cup {l} /\ l \notin Reserving /\ handle'[l].id = calls
        /\ \A m \in Reserving : handle'[m] = handle[m]
    BY <1>3 DEF LogTyped, Reserving, AtRest
  <2>2. /\ \A m \in Reserving : handle[m].id \in Nat /\ handle[m].id < calls
        /\ \A i \in 1..Len(taken) : taken[i].id \in Nat /\ taken[i].id < calls
    BY <1>1, HandleTypes, TakenTypes DEF IdsDiffer
  <2>3. \A i \in 1..Len(taken) : taken[i].id < calls + 1 /\ taken[i].id # calls
    BY <1>1, <2>2
  <2>4. \A m \in Reserving : handle[m].id < calls + 1 /\ handle[m].id # calls
    BY <1>1, <2>2
  <2>5. calls < calls + 1
    BY <1>1
  <2>6. QED
    BY <1>3, <2>1, <2>3, <2>4, <2>5 DEF IdsDiffer
<1>4. ASSUME NEW l \in Reserving, handle' = [handle EXCEPT ![l] = AtRest], calls' = calls,
             taken' = taken \/ taken' = Append(taken, Entry(l))
      PROVE  IdsDiffer'
  <2>1. Reserving' = Reserving \ {l} /\ \A m \in Reserving \ {l} : handle'[m] = handle[m]
    BY <1>1, <1>4 DEF LogTyped, Reserving, AtRest
  <2>2. CASE taken' = taken
    BY <1>4, <2>1, <2>2 DEF IdsDiffer
  <2>3. CASE taken' = Append(taken, Entry(l))
    <3> DEFINE n == Len(taken)
    <3>1. Len(taken') = n + 1 /\ taken'[n + 1].id = handle[l].id /\ \A i \in 1..n : taken'[i] = taken[i]
      BY <1>1, <2>3, EntryTypes
    <3>2. \A i \in 1..n + 1 : i = n + 1 \/ i \in 1..n
      BY <1>1
    <3>3. handle[l].id < calls /\ \A i \in 1..n : taken[i].id # handle[l].id
      BY DEF IdsDiffer
    <3>4. \A m \in Reserving \ {l} : handle[m].id # handle[l].id
      BY DEF IdsDiffer
    <3>5. \A i \in 1..n + 1 : taken'[i].id < calls
      BY <3>1, <3>2, <3>3 DEF IdsDiffer
    <3>6. \A i, j \in 1..n + 1 : taken'[i].id = taken'[j].id => i = j
      BY <3>1, <3>2, <3>3 DEF IdsDiffer
    <3>7. \A m \in Reserving \ {l} : \A i \in 1..n + 1 : taken'[i].id # handle[m].id
      BY <3>1, <3>2, <3>4 DEF IdsDiffer
    <3>8. QED
      BY <1>4, <2>1, <3>1, <3>5, <3>6, <3>7 DEF IdsDiffer
  <2>4. QED
    BY <1>4, <2>2, <2>3
<1>5. QED
  BY <1>2, <1>3, <1>4, LogMoves

\* The charge stays exact.
LEMMA BytesStep ==
    ASSUME LogIInv, [LogNext]_logVars
    PROVE  BytesAreExact' /\ bytes' \in 0..MaxLogBytes /\ calls' \in 0..MaxCalls
<1>1. LogTyped /\ BytesAreExact
  BY DEF LogIInv
<1>2. bytes \in 0..MaxLogBytes /\ calls \in 0..MaxCalls /\ MaxLogBytes \in Nat /\ MaxCalls \in Nat
  BY <1>1, LogAssumption DEF LogTyped
<1>3. ASSUME UNCHANGED <<bytes, handle, taken>> PROVE BytesAreExact'
  BY <1>1, <1>3 DEF BytesAreExact, Charged, Reserving
<1>4. ASSUME NEW l \in Reserving, handle' = [handle EXCEPT ![l] = AtRest], calls' = calls,
             \/ bytes' = bytes - handle[l].size /\ taken' = taken
             \/ bytes' = bytes /\ taken' = Append(taken, Entry(l))
      PROVE  BytesAreExact' /\ bytes' \in 0..MaxLogBytes
  <2>1. handle[l].size \in 1..MaxEntryBytes /\ MaxEntryBytes \in Nat
    BY <1>1, HandleTypes, LogAssumption DEF Reserving
  <2>2. CASE bytes' = bytes - handle[l].size /\ taken' = taken
    <3>1. BytesAreExact' /\ bytes' \in Nat
      BY <1>4, <2>2, GiveBackDischarges
    <3>2. bytes' <= MaxLogBytes
      BY <1>2, <2>1, <2>2
    <3>3. QED
      BY <1>2, <3>1, <3>2
  <2>3. CASE bytes' = bytes /\ taken' = Append(taken, Entry(l))
    BY <1>2, <1>4, <2>3, TakeKeepsCharge
  <2>4. QED
    BY <1>4, <2>2, <2>3
<1>5. ASSUME NEW l \in Source, NEW n \in 1..MaxEntryBytes, handle[l] = AtRest, bytes + n <= MaxLogBytes,
             handle' = [handle EXCEPT ![l] = [pc |-> "send", size |-> n, id |-> calls]],
             bytes' = bytes + n, taken' = taken
      PROVE  BytesAreExact' /\ bytes' \in 0..MaxLogBytes
  <2>1. bytes' \in 0..MaxLogBytes
    BY <1>2, <1>5, LogAssumption
  <2>2. QED
    BY <1>5, <2>1, ReserveCharges
<1>6. calls' \in 0..MaxCalls
  BY <1>1, <1>2, LogMoves
<1>7. QED
  BY <1>1, <1>2, <1>3, <1>4, <1>5, <1>6, LogMoves

\* Who has the queue.
LEMMA PhasesStep ==
    ASSUME LogTyped, PhasesFit, [LogNext]_logVars
    PROVE  PhasesFit'
<1>1. writer \in Resting \cup Appending
  BY DEF LogTyped
<1>2. ASSUME UNCHANGED <<live, owner, writer, closed>>, queue' = queue \/ writer.pc # "ended" PROVE PhasesFit'
  BY <1>2 DEF PhasesFit, Flowing
<1>3. ASSUME NEW l \in Source, Discard(l) \/ GiveBack(l) \/ \E n \in EntrySizes : ReserveBytes(l, n)
      PROVE  PhasesFit'
  BY <1>2, <1>3 DEF Discard, GiveBack, ReserveBytes
<1>4. ASSUME NEW l \in Source, Enqueue(l) PROVE PhasesFit'
  BY <1>2, <1>4 DEF Enqueue, PhasesFit
<1>5. CASE ReceiveEntry
  <2>1. /\ UNCHANGED <<live, owner, closed>>
        /\ writer.pc \in {"run", "closing"} /\ writer'.pc = "append" /\ writer'.next = writer.pc
    BY <1>5 DEF ReceiveEntry
  <2>2. QED
    BY <2>1 DEF PhasesFit, Flowing
<1>6. CASE AppendEvent
  <2>1. UNCHANGED <<live, owner, closed>> /\ writer.pc = "append" /\ writer'.pc = writer.next
        /\ writer.next \in {"run", "closing"}
    BY <1>1, <1>6 DEF AppendEvent, Resting, Appending
  <2>2. QED
    BY <2>1 DEF PhasesFit, Flowing
<1>7. CASE BeginClosing \/ WriterEnds
  <2>1. /\ UNCHANGED <<live, owner>> /\ closed' /\ writer.pc \in {"run", "closing"}
        /\ \/ writer'.pc = "closing"
           \/ writer'.pc = "ended" /\ queue' = <<>>
    BY <1>7 DEF BeginClosing, WriterEnds, PhasesFit
  <2>2. QED
    BY <2>1 DEF PhasesFit, Flowing
<1>8. CASE ShutdownLog \/ ShutdownReturns
  BY <1>8 DEF ShutdownLog, ShutdownReturns, PhasesFit, Flowing
<1>9. CASE ShutdownTimesOut
  <2>1. live' = live /\ owner = "waiting" /\ owner' = "aborted" /\ closed' /\ queue' = <<>> /\ writer'.pc = "ended"
    BY <1>9 DEF ShutdownTimesOut
  <2>2. QED
    BY <2>1 DEF PhasesFit, Flowing
<1>10. CASE UNCHANGED logVars
  BY <1>2, <1>10 DEF logVars
<1>11. QED
  BY <1>3, <1>4, <1>5, <1>6, <1>7, <1>8, <1>9, <1>10 DEF LogNext

\* Handles and entries keep their types.
LEMMA HandlesTyped ==
    ASSUME LogTyped, [LogNext]_logVars
    PROVE  handle' \in [Source -> {AtRest} \cup Reserved] /\ taken' \in Seq(Logged)
<1>1. handle \in [Source -> {AtRest} \cup Reserved] /\ taken \in Seq(Logged) /\ calls \in Nat
  BY DEF LogTyped
<1>2. ASSUME NEW l \in Source, NEW n \in 1..MaxEntryBytes,
             handle' = [handle EXCEPT ![l] = [pc |-> "send", size |-> n, id |-> calls]]
      PROVE  handle' \in [Source -> {AtRest} \cup Reserved]
  <2>1. [pc |-> "send", size |-> n, id |-> calls] \in Reserved
    BY <1>1 DEF Reserved
  <2>2. QED
    BY <1>1, <1>2, <2>1
<1>3. ASSUME NEW l \in Reserving, handle' = [handle EXCEPT ![l] = AtRest]
      PROVE  handle' \in [Source -> {AtRest} \cup Reserved] /\ Append(taken, Entry(l)) \in Seq(Logged)
  <2>1. Entry(l) \in Logged
    BY EntryTypes
  <2>2. Append(taken, Entry(l)) \in Seq(Logged)
    <3> DEFINE e == Entry(l)
    <3> HIDE DEF e
    <3>1. e \in Logged
      BY <2>1 DEF e
    <3>2. Append(taken, e) \in Seq(Logged)
      BY <1>1, <3>1
    <3>3. QED
      BY <3>2 DEF e
  <2>3. handle' \in [Source -> {AtRest} \cup Reserved]
    BY <1>1, <1>3
  <2>4. QED
    BY <2>2, <2>3
<1>4. QED
  BY <1>1, <1>2, <1>3, LogMoves

\* So do the queue, the writer and the log.
LEMMA QueueTyped ==
    ASSUME LogTyped, [LogNext]_logVars
    PROVE  /\ queue' \in Seq(Logged) /\ persisted' \in Seq(Logged) /\ Len(queue') <= QueueCapacity
           /\ writer' \in Resting \cup Appending /\ live' \in BOOLEAN
           /\ owner' \in {"none", "held", "waiting", "drained", "aborted"}
<1>1. /\ queue \in Seq(Logged) /\ persisted \in Seq(Logged) /\ Len(queue) <= QueueCapacity
      /\ writer \in Resting \cup Appending /\ live \in BOOLEAN
      /\ owner \in {"none", "held", "waiting", "drained", "aborted"}
      /\ QueueCapacity \in Nat \ {0}
  BY LogAssumption DEF LogTyped
<1>2. ASSUME NEW l \in Source, Discard(l) \/ GiveBack(l) \/ \E n \in EntrySizes : ReserveBytes(l, n)
      PROVE  UNCHANGED <<queue, persisted, writer, live, owner>>
  BY <1>2 DEF Discard, GiveBack, ReserveBytes
<1>3. ASSUME NEW l \in Source, Enqueue(l)
      PROVE  /\ UNCHANGED <<persisted, writer, live, owner>>
             /\ queue' \in Seq(Logged) /\ Len(queue') <= QueueCapacity
  <2>1. Entry(l) \in Logged
    BY <1>3, EntryTypes DEF Enqueue, Reserving
  <2> DEFINE e == Entry(l)
  <2>2. queue' = Append(queue, e) /\ Len(queue) < QueueCapacity /\ UNCHANGED <<persisted, writer, live, owner>>
    BY <1>3 DEF Enqueue
  <2> HIDE DEF e
  <2>3. e \in Logged
    BY <2>1 DEF e
  <2>4. QED
    BY <1>1, <2>2, <2>3
<1>4. CASE ReceiveEntry
  <2>1. /\ UNCHANGED <<persisted, live, owner>> /\ queue # <<>> /\ queue' = Tail(queue)
        /\ writer' = [pc |-> "append", next |-> writer.pc, entry |-> Head(queue)] /\ writer.pc \in {"run", "closing"}
    BY <1>4 DEF ReceiveEntry
  <2>2. queue' \in Seq(Logged) /\ Len(queue') <= QueueCapacity /\ Head(queue) \in Logged
    BY <1>1, <2>1
  <2>3. writer' \in Appending
    BY <2>1, <2>2 DEF Appending
  <2>4. QED
    BY <1>1, <2>1, <2>2, <2>3
<1>5. CASE AppendEvent
  <2>1. writer.pc = "append" /\ writer \in Appending
    BY <1>1, <1>5 DEF AppendEvent, Resting
  <2>2. writer.entry \in Logged /\ writer.next \in {"run", "closing"}
    BY <2>1 DEF Appending
  <2>3. /\ UNCHANGED <<queue, live, owner>> /\ writer' = [pc |-> writer.next]
        /\ persisted' = persisted \/ persisted' = Append(persisted, writer.entry)
    BY <1>5 DEF AppendEvent
  <2>4. persisted' \in Seq(Logged)
    BY <1>1, <2>2, <2>3
  <2>5. writer' \in Resting
    BY <2>2, <2>3 DEF Resting
  <2>6. QED
    BY <1>1, <2>3, <2>4, <2>5
<1>6. CASE BeginClosing \/ WriterEnds
  <2>1. UNCHANGED <<queue, persisted, live, owner>> /\ writer' \in Resting
    BY <1>6 DEF BeginClosing, WriterEnds, Resting
  <2>2. QED
    BY <1>1, <2>1
<1>7. CASE ShutdownLog \/ ShutdownReturns \/ ShutdownTimesOut
  <2>1. /\ UNCHANGED <<persisted, live>> /\ owner' \in {"waiting", "drained", "aborted"}
        /\ UNCHANGED <<queue, writer>> \/ (queue' = <<>> /\ writer' \in Resting)
    BY <1>7 DEF ShutdownLog, ShutdownReturns, ShutdownTimesOut, Resting
  <2>2. <<>> \in Seq(Logged) /\ Len(<<>>) <= QueueCapacity
    BY <1>1
  <2>3. QED
    BY <1>1, <2>1, <2>2
<1>8. CASE UNCHANGED logVars
  BY <1>1, <1>8 DEF logVars
<1>9. QED
  BY <1>1, <1>2, <1>3, <1>4, <1>5, <1>6, <1>7, <1>8 DEF LogNext

\* Every step keeps the invariant of the log.
LEMMA LogStepHolds ==
    ASSUME LogIInv, [LogNext]_logVars
    PROVE  LogIInv'
<1>1. LogTyped /\ IdsDiffer /\ PhasesFit
  BY DEF LogIInv
<1>2. LogTyped'
  BY <1>1, HandlesTyped, QueueTyped, BytesStep DEF LogTyped
<1>3. IdsDiffer' /\ PhasesFit'
  BY <1>1, IdsStep, PhasesStep
<1>4. BytesAreExact' /\ \E n \in 0..Len(taken') : WriterIsAt(n)'
  BY BytesStep, OrderMoves
<1>5. QED
  BY <1>2, <1>3, <1>4 DEF LogIInv

\* A log begins so.
LEMMA LogInitHolds == LogInit => LogIInv
<1>1. SUFFICES ASSUME LogInit PROVE LogIInv
  OBVIOUS
<1>2. /\ live \in BOOLEAN /\ bytes = 0 /\ handle = [l \in Source |-> AtRest] /\ calls = 0
      /\ taken = <<>> /\ queue = <<>> /\ persisted = <<>> /\ failed = {}
      /\ \/ live /\ writer = [pc |-> "run"] /\ owner = "held"
         \/ ~live /\ closed /\ writer = [pc |-> "ended"] /\ owner = "none"
  BY <1>1 DEF LogInit
<1>3. writer \in Resting /\ writer.pc \in {"run", "ended"} /\ (writer.pc = "ended" <=> ~live)
  BY <1>2 DEF Resting
<1>4. Reserving = {} /\ Len(taken) = 0 /\ 1..Len(taken) = {} /\ 1..Len(persisted) = {} /\ Len(persisted) = 0
  BY <1>2 DEF Reserving, AtRest
<1>5. LogTyped
  <2>1. <<>> \in Seq(Logged) /\ Len(<<>>) = 0
    OBVIOUS
  <2>2. 0 \in 0..MaxLogBytes /\ 0 \in 0..MaxCalls /\ 0 <= QueueCapacity
    BY LogAssumption
  <2>3. QED
    BY <1>2, <1>3, <2>1, <2>2 DEF LogTyped
<1>6. IdsDiffer
  BY <1>4 DEF IdsDiffer
<1>7. PhasesFit
  BY <1>2, <1>3 DEF PhasesFit, Flowing
<1>8. BytesAreExact
  <2>1. \A x : x \notin Charged
    BY <1>4, InCharged
  <2>2. Charged = {}
    BY <2>1
  <2>3. QED
    BY <1>2, <2>2, FS_EmptySet DEF BytesAreExact
<1>9. WriterIsAt(0)
  <2>1. PICK place : place = [i \in 1..Len(persisted) |-> i]
    OBVIOUS
  <2>2. place \in [1..Len(persisted) -> 1..0] /\ StoredUpTo(0, place)
    BY <1>4, <2>1 DEF StoredUpTo
  <2>3. IsFiniteSet(failed) /\ Cardinality(failed) = 0
    BY <1>2, FS_EmptySet
  <2>4. Held = 0 /\ Len(queue) = 0 /\ writer.pc # "append"
    BY <1>2, <1>3 DEF Held
  <2>5. QED
    <3>1. 0 + Held + Len(queue) = Len(taken) /\ Len(persisted) + Cardinality(failed) = 0
      BY <1>4, <2>3, <2>4
    <3>2. (\A x \in failed : \E k \in 1..0 : x = taken[k].id) /\ 1..Len(queue) = {}
      BY <1>2, <2>4
    <3>3. \E other \in [1..Len(persisted) -> 1..0] : StoredUpTo(0, other)
      BY <2>2
    <3>4. QED
      BY <2>3, <2>4, <3>1, <3>2, <3>3 DEF WriterIsAt
<1>10. QED
  BY <1>4, <1>5, <1>6, <1>7, <1>8, <1>9 DEF LogIInv

\* Whoever logs, while the writer stores, fails, drains or is aborted: the
\* allowance is charged for what was accepted or is on its way, the stored
\* events are the accepted entries in their order, and a drain that was not
\* cut short has stored all of them (session_log.rs).
THEOREM LogStaysComplete == LogSpec => []LogIsComplete
<1>1. LogInit => LogIInv
  BY LogInitHolds
<1>2. LogIInv /\ [LogNext]_logVars => LogIInv'
  BY LogStepHolds
<1>3. LogIInv => LogIsComplete
  <2>1. SUFFICES ASSUME LogIInv PROVE LogIsComplete
    OBVIOUS
  <2>2. PICK n \in 0..Len(taken) : WriterIsAt(n)
    BY <2>1 DEF LogIInv
  <2>3. LogTyped /\ IdsDiffer /\ PhasesFit /\ BytesAreExact /\ Len(taken) \in Nat /\ Len(queue) \in Nat
        /\ n \in Nat /\ calls \in 0..MaxCalls /\ MaxCalls \in Nat
    BY <2>1, LogAssumption DEF LogIInv, LogTyped
  <2>4. StoredInOrder
    BY <2>2 DEF WriterIsAt, StoredInOrder
  <2>5. DrainedMeansStored
    <3>1. SUFFICES ASSUME owner = "drained" PROVE Len(persisted) + Cardinality(failed) = Len(taken)
      BY DEF DrainedMeansStored
    <3>2. Flowing /\ writer.pc = "ended" /\ Len(queue) = 0
      BY <2>3, <3>1 DEF PhasesFit, Flowing
    <3>3. Held = 0 /\ n + Held + Len(queue) = Len(taken)
      BY <2>2, <3>2 DEF WriterIsAt, Held
    <3>4. QED
      BY <2>2, <2>3, <3>2, <3>3 DEF WriterIsAt
  <2>6. failed \subseteq 0..MaxCalls
    <3>1. SUFFICES ASSUME NEW x \in failed PROVE x \in 0..MaxCalls
      OBVIOUS
    <3>2. PICK k \in 1..n : x = taken[k].id
      BY <2>2 DEF WriterIsAt
    <3>3. k \in 1..Len(taken)
      BY <2>3
    <3>4. taken[k].id \in Nat /\ taken[k].id < calls
      BY <2>3, <3>3, TakenTypes DEF IdsDiffer
    <3>5. QED
      BY <2>3, <3>2, <3>4
  <2>7. LogTypeOK
    BY <2>3, <2>6 DEF LogTypeOK, LogTyped
  <2>8. QED
    BY <2>3, <2>4, <2>5, <2>7 DEF LogIsComplete
<1>4. QED
  BY <1>1, <1>2, <1>3, PTL DEF LogSpec

\* After the shutdown has returned no call of log is told Ok: the writer has
\* ended then, and a queue it has left is closed.
LEMMA NothingIsLoggedLate == LogSpec => NothingAfterShutdown
<1>1. LogInit => LogIInv
  BY LogInitHolds
<1>2. LogIInv /\ [LogNext]_logVars => LogIInv'
  BY LogStepHolds
<1>3. LogIInv /\ [LogNext]_logVars => [(owner \in {"drained", "aborted"}) => taken' = taken]_logVars
  <2>1. SUFFICES ASSUME LogIInv, LogNext, owner \in {"drained", "aborted"} PROVE taken' = taken
    BY DEF logVars
  <2>2. closed
    BY <2>1 DEF LogIInv, PhasesFit, Flowing
  <2>3. live
    BY <2>1 DEF LogIInv, PhasesFit
  <2>4. ASSUME NEW l \in Source, Discard(l) \/ Enqueue(l) \/ GiveBack(l) \/ \E n \in EntrySizes : ReserveBytes(l, n)
        PROVE  taken' = taken
    BY <2>2, <2>3, <2>4 DEF Discard, Enqueue, GiveBack, ReserveBytes
  <2>5. CASE ReceiveEntry \/ AppendEvent \/ BeginClosing \/ WriterEnds
    BY <2>5 DEF ReceiveEntry, AppendEvent, BeginClosing, WriterEnds
  <2>6. CASE ShutdownLog \/ ShutdownReturns \/ ShutdownTimesOut
    BY <2>6 DEF ShutdownLog, ShutdownReturns, ShutdownTimesOut
  <2>7. QED
    BY <2>1, <2>4, <2>5, <2>6 DEF LogNext
<1>4. QED
  BY <1>1, <1>2, <1>3, PTL DEF LogSpec, NothingAfterShutdown
-----------------------------------------------------------------------------
(***************************************************************************)
(* The remote agent.                                                       *)
(***************************************************************************)

\* What the state of the instance says of the requests it has sent: the caller
\* waits for the newest, the first is the create, a shutdown ends them.
InstanceFits ==
    /\ sent \in Seq(Op) /\ handled \in Seq(Nat)
    /\ waiting # 0 => waiting = Len(sent)
    /\ instance = "none" => sent = <<>>
    /\ instance = "creating" <=> waiting # 0 /\ sent[waiting] = "create"
    /\ instance = "failed" => waiting = 0 /\ outcome = "error"
    /\ instance \in {"active", "down"} => sent # <<>>
    /\ \A i \in 1..Len(sent) : sent[i] = "create" <=> i = 1
    /\ (\E i \in 1..Len(sent) : sent[i] = "shutdown") <=> instance = "down"

\* Without a timeout the requests that were sent have been handled in their
\* order, except perhaps the newest, and its caller still waits.
NothingOvertakes ==
    timeouts = {} =>
        /\ HandledInOrder
        /\ \/ wire = {} /\ Len(handled) = Len(sent)
           \/ /\ wire = {Len(sent)} /\ Len(handled) = Len(sent) - 1 /\ waiting = Len(sent)
              /\ waiting \notin replies
        /\ hosted => \A i \in 1..Len(handled) : sent[handled[i]] # "shutdown"
        /\ sent = <<>> => ~hosted

\* Requests go to an endpoint that was looked at.
EndpointWasChecked == sent # <<>> => validate_remote_endpoint(endpoint)

RemoteIInv ==
    /\ RemoteTypeOK /\ InstanceFits
    /\ ShutdownIsLast /\ NothingOvertakes /\ EveryAnswerIsLogged /\ EndpointWasChecked

\* A client begins so.
LEMMA RemoteInitHolds == RemoteInit => RemoteIInv
BY RemoteAssumption DEF RemoteInit, RemoteIInv, RemoteTypeOK, InstanceFits, ShutdownIsLast, NothingOvertakes, HandledInOrder,
   EveryAnswerIsLogged, EndpointWasChecked, Op

\* A request goes out.
LEMMA SendHolds ==
    ASSUME RemoteIInv, NEW op \in Op, Send(op),
           UNCHANGED <<endpoint, replies, handled, hosted, timeouts, logged, outcome>>,
           \/ op = "create" /\ instance = "none" /\ instance' = "creating" /\ validate_remote_endpoint(endpoint)
           \/ op = "shutdown" /\ instance = "active" /\ instance' = "down"
           \/ op \notin {"create", "shutdown"} /\ instance = "active" /\ instance' = "active"
    PROVE  RemoteIInv'
<1> DEFINE n == Len(sent) + 1
<1>1. /\ sent \in Seq(Op) /\ handled \in Seq(Nat) /\ waiting = 0 /\ Len(sent) \in Nat
  BY DEF RemoteIInv, InstanceFits, Send
<1>2. /\ sent' \in Seq(Op) /\ Len(sent') = n /\ waiting' = n /\ wire' = wire \cup {n} /\ n \in Nat /\ n # 0
      /\ \A i \in 1..Len(sent) : sent'[i] = sent[i]
      /\ sent'[n] = op /\ sent' # <<>>
  BY <1>1 DEF Send
<1>3. \A i \in 1..n : i = n \/ i \in 1..Len(sent)
  BY <1>1
<1>4. \A i \in 1..Len(sent) : sent[i] # "shutdown"
  BY DEF RemoteIInv, InstanceFits
<1>5. op = "create" <=> n = 1
  BY <1>1 DEF RemoteIInv, InstanceFits
<1>6. RemoteTypeOK'
  <2>1. wire \subseteq 1..Len(sent) /\ replies \subseteq 1..Len(sent) /\ replies' = replies
    BY DEF RemoteIInv, RemoteTypeOK
  <2>2. 1..Len(sent) \subseteq 1..n /\ n \in 1..n /\ n \in 0..n
    BY <1>1
  <2>3. wire' \subseteq 1..n /\ replies' \subseteq 1..n /\ waiting' \in 0..n
    <3> HIDE DEF n
    <3> QED
      BY <1>2, <2>1, <2>2
  <2>4. \A i \in 1..n : sent'[i] \in Op
    BY <1>1, <1>2, <1>3
  <2>5. instance' \in {"none", "creating", "active", "down", "failed"}
    OBVIOUS
  <2>6. QED
    BY <1>2, <2>3, <2>4, <2>5 DEF RemoteTypeOK
<1>7. InstanceFits'
  <2>1. \A i \in 1..n : sent'[i] = "create" <=> i = 1
    BY <1>1, <1>2, <1>3, <1>5 DEF RemoteIInv, InstanceFits
  <2>2. (\E i \in 1..n : sent'[i] = "shutdown") <=> op = "shutdown"
    BY <1>1, <1>2, <1>3, <1>4
  <2>3. QED
    BY <1>1, <1>2, <1>5, <2>1, <2>2 DEF InstanceFits
<1>8. ShutdownIsLast'
  BY <1>2, <1>3, <1>4 DEF ShutdownIsLast
<1>9. NothingOvertakes'
  <2>1. SUFFICES ASSUME timeouts = {} PROVE NothingOvertakes'
    BY DEF NothingOvertakes
  <2>2. HandledInOrder /\ wire = {} /\ Len(handled) = Len(sent)
    BY <1>1, <2>1 DEF RemoteIInv, NothingOvertakes
  <2>3. HandledInOrder' /\ wire' = {n} /\ Len(handled') = n - 1
    BY <1>1, <1>2, <2>2 DEF HandledInOrder
  <2>4. \A i \in 1..Len(handled) : handled[i] = i /\ sent'[handled[i]] # "shutdown"
    BY <1>2, <1>4, <2>1, <2>2 DEF HandledInOrder
  <2>5. n \notin replies
    BY <1>1 DEF RemoteIInv, RemoteTypeOK
  <2>6. QED
    BY <1>2, <2>3, <2>4, <2>5 DEF NothingOvertakes
<1>10. EveryAnswerIsLogged' /\ EndpointWasChecked'
  <2>1. validate_remote_endpoint(endpoint)
    BY DEF RemoteIInv, InstanceFits, EndpointWasChecked
  <2>2. QED
    BY <2>1 DEF RemoteIInv, EveryAnswerIsLogged, EndpointWasChecked, validate_remote_endpoint
<1>11. QED
  BY <1>6, <1>7, <1>8, <1>9, <1>10 DEF RemoteIInv

\* The service handles a request.
LEMMA HandleHolds ==
    ASSUME RemoteIInv, NEW n \in 1..Len(sent), HandleRequest(n)
    PROVE  RemoteIInv'
<1>1. /\ sent \in Seq(Op) /\ handled \in Seq(Nat) /\ Len(sent) \in Nat /\ n \in Nat
      /\ n \in wire /\ wire' = wire \ {n} /\ replies' = replies \cup {n}
      /\ UNCHANGED <<endpoint, instance, waiting, sent, timeouts, logged, outcome>>
  BY DEF RemoteIInv, InstanceFits, HandleRequest
<1>2. /\ handled' \in Seq(Nat) /\ Len(handled') = Len(handled) + 1 /\ handled'[Len(handled) + 1] = n
      /\ \A i \in 1..Len(handled) : handled'[i] = handled[i]
  BY <1>1 DEF HandleRequest
<1>3. RemoteTypeOK' /\ InstanceFits' /\ ShutdownIsLast' /\ EndpointWasChecked'
  BY <1>1, <1>2 DEF RemoteIInv, RemoteTypeOK, InstanceFits, ShutdownIsLast, EndpointWasChecked, validate_remote_endpoint
<1>4. EveryAnswerIsLogged'
  <2>1. \A i \in 1..Len(handled) : handled[i] \in replies \cup timeouts \cup logged
    BY DEF RemoteIInv, EveryAnswerIsLogged
  <2>2. timeouts' = timeouts /\ logged' = logged /\ replies' = replies \cup {n}
    BY <1>1
  <2>3. Len(handled) \in Nat
    BY <1>1
  <2>4. ASSUME NEW i \in 1..Len(handled') PROVE handled'[i] \in replies' \cup timeouts' \cup logged'
    <3>1. CASE i \in 1..Len(handled)
      BY <1>2, <2>1, <2>2, <3>1
    <3>2. CASE i = Len(handled) + 1
      BY <1>2, <2>2, <3>2
    <3>3. QED
      BY <1>2, <2>3, <3>1, <3>2
  <2>5. QED
    BY <2>4 DEF EveryAnswerIsLogged
<1>5. NothingOvertakes'
  <2>1. SUFFICES ASSUME timeouts = {} PROVE NothingOvertakes'
    BY <1>1 DEF NothingOvertakes
  <2>2. n = Len(sent) /\ wire = {n} /\ Len(handled) = n - 1 /\ HandledInOrder
    BY <1>1, <2>1 DEF RemoteIInv, NothingOvertakes
  <2>3. wire' = {} /\ Len(handled') = Len(sent)
    BY <1>1, <1>2, <2>2
  <2>4. \A i \in 1..n : i = n \/ i \in 1..Len(handled)
    BY <1>1, <2>2
  <2>5. \A i \in 1..Len(handled') : handled'[i] = i
    BY <1>1, <1>2, <2>1, <2>2, <2>3, <2>4 DEF HandledInOrder
  <2>6. ASSUME hosted', NEW i \in 1..Len(handled') PROVE sent[handled'[i]] # "shutdown"
    <3>1. handled'[i] = i /\ i \in 1..n
      BY <2>2, <2>3, <2>5
    <3>2. CASE i = n
      BY <2>6, <3>1, <3>2 DEF HandleRequest
    <3>3. CASE i # n
      BY <3>1, <3>3, <2>2 DEF RemoteIInv, ShutdownIsLast
    <3>4. QED
      BY <3>2, <3>3
  <2>7. QED
    BY <1>1, <2>3, <2>5, <2>6 DEF NothingOvertakes, HandledInOrder
<1>6. QED
  BY <1>3, <1>4, <1>5 DEF RemoteIInv

\* A call ends, with an answer or without one.
LEMMA SettledHolds ==
    ASSUME RemoteIInv, NEW n \in 1..Len(sent), NEW result \in {"ok", "error"}, Settled(n, result),
           n = waiting, UNCHANGED <<endpoint, sent, wire, handled, hosted>>,
           \/ n \in replies /\ replies' = replies \ {n} /\ logged' = logged \cup {n} /\ timeouts' = timeouts
           \/ replies' = replies /\ logged' = logged /\ timeouts' = timeouts \cup {n}
    PROVE  RemoteIInv'
<1>1. /\ sent \in Seq(Op) /\ handled \in Seq(Nat) /\ Len(sent) \in Nat /\ n \in Nat /\ n # 0
      /\ n = Len(sent) /\ waiting' = 0 /\ outcome' = result
  BY DEF RemoteIInv, InstanceFits, Settled
<1>2. IF sent[n] # "create" THEN instance' = instance /\ instance # "creating"
      ELSE /\ instance = "creating" /\ n = 1
           /\ instance' = IF result = "ok" THEN "active" ELSE "failed"
  BY <1>1 DEF RemoteIInv, InstanceFits, Settled
<1>3. instance \notin {"none", "failed"} /\ sent # <<>>
  BY <1>1 DEF RemoteIInv, InstanceFits
<1>4. RemoteTypeOK'
  <2>1. instance' \in {"none", "creating", "active", "down", "failed"}
    BY <1>2 DEF RemoteIInv, RemoteTypeOK
  <2>2. waiting' \in 0..Len(sent) /\ replies' \subseteq replies
    BY <1>1
  <2>3. QED
    BY <2>1, <2>2 DEF RemoteIInv, RemoteTypeOK
<1>5. InstanceFits'
  <2>1. (\E i \in 1..Len(sent) : sent[i] = "shutdown") <=> instance' = "down"
    BY <1>1, <1>2 DEF RemoteIInv, InstanceFits
  <2>2. instance' \notin {"none", "creating"} /\ (instance' = "failed" => result = "error")
    BY <1>2, <1>3 DEF RemoteIInv, RemoteTypeOK
  <2>3. QED
    BY <1>1, <1>3, <2>1, <2>2 DEF RemoteIInv, InstanceFits
<1>6. ShutdownIsLast' /\ EndpointWasChecked' /\ EveryAnswerIsLogged'
  BY DEF RemoteIInv, ShutdownIsLast, EndpointWasChecked, validate_remote_endpoint, EveryAnswerIsLogged
<1>7. NothingOvertakes'
  <2>1. SUFFICES ASSUME timeouts' = {} PROVE NothingOvertakes'
    BY DEF NothingOvertakes
  <2>2. timeouts = {} /\ n \in replies
    BY <2>1
  <2>3. wire = {} /\ Len(handled) = Len(sent)
    BY <1>1, <2>2 DEF RemoteIInv, NothingOvertakes
  <2>4. QED
    BY <2>2, <2>3 DEF RemoteIInv, NothingOvertakes, HandledInOrder
<1>8. QED
  BY <1>4, <1>5, <1>6, <1>7 DEF RemoteIInv

\* Every step keeps the invariant of the client.
LEMMA RemoteStepHolds ==
    ASSUME RemoteIInv, [RemoteNext]_remoteVars
    PROVE  RemoteIInv'
<1>1. ASSUME UNCHANGED <<endpoint, waiting, sent, wire, replies, handled, hosted, timeouts, logged>>,
             \/ instance' = instance /\ outcome' = outcome
             \/ instance = "none" /\ instance' = "failed" /\ outcome' = "error"
      PROVE  RemoteIInv'
  <2>1. instance = "none" => waiting = 0 /\ sent = <<>>
    BY DEF RemoteIInv, RemoteTypeOK, InstanceFits
  <2>2. RemoteTypeOK' /\ InstanceFits'
    BY <1>1, <2>1 DEF RemoteIInv, RemoteTypeOK, InstanceFits
  <2>3. ShutdownIsLast' /\ NothingOvertakes' /\ EveryAnswerIsLogged' /\ EndpointWasChecked'
    BY <1>1 DEF RemoteIInv, ShutdownIsLast, NothingOvertakes, HandledInOrder, EveryAnswerIsLogged, EndpointWasChecked,
       validate_remote_endpoint
  <2>4. QED
    BY <2>2, <2>3 DEF RemoteIInv
<1>2. CASE Create
  <2>1. CASE validate_remote_endpoint(endpoint)
    BY <1>2, <2>1, SendHolds DEF Create, Op
  <2>2. CASE ~validate_remote_endpoint(endpoint)
    BY <1>1, <1>2, <2>2 DEF Create
  <2>3. QED
    BY <2>1, <2>2
<1>3. CASE ConnectFails
  BY <1>1, <1>3 DEF ConnectFails
<1>4. CASE Shutdown
  BY <1>4, SendHolds DEF Shutdown, Op
<1>5. ASSUME NEW op \in {"start", "observe", "respond", "finish"}, Invoke(op) PROVE RemoteIInv'
  BY <1>5, SendHolds DEF Invoke, Op
<1>6. ASSUME NEW n \in 1..Len(sent), HandleRequest(n) PROVE RemoteIInv'
  BY <1>6, HandleHolds
<1>7. ASSUME NEW n \in 1..Len(sent), LoseMessage(n) PROVE RemoteIInv'
  <2>1. /\ UNCHANGED <<endpoint, instance, waiting, sent, handled, hosted, timeouts, logged, outcome>>
        /\ wire' = wire \ {n} /\ replies' = replies \ {n} /\ n \in timeouts /\ timeouts # {}
    BY <1>7 DEF LoseMessage
  <2>2. RemoteTypeOK' /\ InstanceFits'
    BY <2>1 DEF RemoteIInv, RemoteTypeOK, InstanceFits
  <2>3. ShutdownIsLast' /\ NothingOvertakes' /\ EveryAnswerIsLogged' /\ EndpointWasChecked'
    BY <2>1 DEF RemoteIInv, ShutdownIsLast, NothingOvertakes, EveryAnswerIsLogged, EndpointWasChecked,
       validate_remote_endpoint
  <2>4. QED
    BY <2>2, <2>3 DEF RemoteIInv
<1>8. ASSUME NEW n \in 1..Len(sent), TimesOut(n) PROVE RemoteIInv'
  BY <1>8, SettledHolds DEF TimesOut
<1>9. ASSUME NEW n \in 1..Len(sent), NEW good \in BOOLEAN, Answered(n, good) PROVE RemoteIInv'
  BY <1>9, SettledHolds DEF Answered
<1>10. CASE UNCHANGED remoteVars
  BY <1>1, <1>10 DEF remoteVars
<1>11. QED
  BY <1>2, <1>3, <1>4, <1>5, <1>6, <1>7, <1>8, <1>9, <1>10 DEF RemoteNext

\* Whatever is lost, late or timed out between client and service: the shutdown
\* is an agent's last request, calls are handled in order until one times out,
\* nobody is left behind without a timeout or an error, and every answer in
\* time had its log entries recorded.
LEMMA RemoteStaysOrderly == RemoteSpec => []RemoteIsOrderly
<1>1. RemoteInit => RemoteIInv
  BY RemoteInitHolds
<1>2. RemoteIInv /\ [RemoteNext]_remoteVars => RemoteIInv'
  BY RemoteStepHolds
<1>3. RemoteIInv => RemoteIsOrderly
  <2>1. SUFFICES ASSUME RemoteIInv PROVE RemoteIsOrderly
    OBVIOUS
  <2>2. sent \in Seq(Op) /\ Len(sent) \in Nat
    BY <2>1 DEF RemoteIInv, InstanceFits
  <2>3. HandledInOrder /\ RequestsStayConfined
    BY <2>1 DEF RemoteIInv, NothingOvertakes, HandledInOrder, EndpointWasChecked, RequestsStayConfined,
       validate_remote_endpoint
  <2>4. LeftBehindByTimeout
    <3>1. SUFFICES ASSUME hosted, wire = {}, waiting = 0, instance = "down", timeouts = {} PROVE FALSE
      BY <2>1 DEF LeftBehindByTimeout, RemoteIInv, InstanceFits
    <3>2. PICK i \in 1..Len(sent) : sent[i] = "shutdown"
      BY <2>1, <3>1 DEF RemoteIInv, InstanceFits
    <3>3. Len(handled) = Len(sent) /\ HandledInOrder
      BY <2>1, <3>1 DEF RemoteIInv, NothingOvertakes
    <3>4. handled[i] = i
      BY <3>1, <3>2, <3>3 DEF HandledInOrder
    <3>5. QED
      BY <2>1, <3>1, <3>2, <3>3, <3>4 DEF RemoteIInv, NothingOvertakes
  <2>5. QED
    BY <2>1, <2>3, <2>4 DEF RemoteIInv, RemoteIsOrderly
<1>4. QED
  BY <1>1, <1>2, <1>3, PTL DEF RemoteSpec
-----------------------------------------------------------------------------
(***************************************************************************)
(* The values a remote agent is sent and sends.                            *)
(***************************************************************************)

\* An integer in its range, or a number of halves.
ValueTyped == json \in {int(n) : n \in IntMin..IntMax} \cup {double(h) : h \in Int}

\* The number ranges.
LEMMA ValueNumbers ==
    /\ Exact \in Nat /\ IntLimit \in Nat /\ Exact < IntLimit /\ Exact > 0
    /\ IntMax = IntLimit - 1 /\ IntMin = -IntLimit
BY ValuesAssumption DEF IntMax, IntMin

\* Halving and doubling.
LEMMA Halves ==
    /\ \A n \in Int : 2 * n \in Int /\ (2 * n) % 2 = 0 /\ (2 * n) \div 2 = n
    /\ \A h \in Int : h % 2 = 0 => h \div 2 \in Int /\ 2 * (h \div 2) = h
OBVIOUS

\* What a double becomes.
LEMMA BackFromProst ==
    ASSUME NEW h \in Int
    PROVE  /\ prost_to_json(double(h)) \in {int(n) : n \in IntMin..IntMax} \cup {double(h)}
           /\ Value(prost_to_json(double(h))) = h \/ h = 2 * (IntMax + 1)
<1>1. double(h).halves = h /\ double(h).is = "double"
  BY DEF double
<1>2. CASE h % 2 = 0 /\ h >= 2 * IntMin /\ h <= 2 * (IntMax + 1)
  <2>1. PICK n \in Int : n = h \div 2 /\ 2 * n = h
    BY <1>2, Halves
  <2>2. prost_to_json(double(h)) = int(IF n > IntMax THEN IntMax ELSE n)
    BY <1>1, <1>2, <2>1 DEF prost_to_json
  <2>3. n >= IntMin /\ n <= IntMax + 1
    BY <1>2, <2>1, ValueNumbers
  <2>4. CASE n > IntMax
    <3>1. n = IntMax + 1 /\ IntMax \in IntMin..IntMax
      BY <2>3, <2>4, ValueNumbers
    <3>2. prost_to_json(double(h)) = int(IntMax)
      BY <2>2, <2>4
    <3>3. QED
      BY <2>1, <3>1, <3>2
  <2>5. CASE ~(n > IntMax)
    <3>1. n \in IntMin..IntMax /\ prost_to_json(double(h)) = int(n)
      BY <2>2, <2>3, <2>5, ValueNumbers
    <3>2. Value(int(n)) = 2 * n
      BY DEF Value, int
    <3>3. QED
      BY <2>1, <3>1, <3>2
  <2>6. QED
    BY <2>4, <2>5
<1>3. CASE ~(h % 2 = 0 /\ h >= 2 * IntMin /\ h <= 2 * (IntMax + 1))
  <2>1. prost_to_json(double(h)) = double(h)
    BY <1>1, <1>3 DEF prost_to_json
  <2>2. QED
    BY <1>1, <2>1 DEF Value
<1>4. QED
  BY <1>2, <1>3

\* What a value is on the wire: an integer of less than 54 bits as the double of
\* that value, a double as it is, the rest refused.
LEMMA OnToProst ==
    ASSUME ValueTyped
    PROVE  \/ json_to_prost(json) = Refused
           \/ \E h \in Int : json_to_prost(json) = double(h) /\ h = Value(json)
<1>1. CASE json \in {int(n) : n \in IntMin..IntMax}
  <2>1. PICK n \in IntMin..IntMax : json = int(n)
    BY <1>1
  <2>2. n \in Int /\ 2 * n \in Int /\ (2 * n) \div 2 = n
    BY ValueNumbers, Halves
  <2>3. json.is = "int" /\ json.halves = 2 * n
    BY <2>1 DEF int
  <2>4. json_to_prost(json) = Refused \/ json_to_prost(json) = double(2 * n)
    BY <2>2, <2>3 DEF json_to_prost
  <2>5. QED
    BY <2>2, <2>3, <2>4 DEF Value
<1>2. CASE json \in {double(h) : h \in Int}
  <2>1. PICK h \in Int : json = double(h)
    BY <1>2
  <2>2. json_to_prost(json) = double(h) /\ Value(json) = h
    BY <2>1 DEF double, json_to_prost, Value
  <2>3. QED
    BY <2>2
<1>3. QED
  BY <1>1, <1>2 DEF ValueTyped

\* A number that crosses arrives as the same number, for any two ranges of exact
\* doubles and of integers of which the first is the smaller (json_to_prost,
\* prost_to_json).
LEMMA CrossingsKeepValues == ValueSpec => []CrossingKeepsValue
<1>1. ValueInit => ValueTyped
  <2>1. \A h \in Doubles : h \in Int
    BY ValueNumbers DEF Doubles
  <2>2. QED
    BY <2>1 DEF ValueInit, ValueTyped
<1>2. ValueTyped /\ [Cross]_valueVars => ValueTyped'
  <2>1. SUFFICES ASSUME ValueTyped, Cross PROVE ValueTyped'
    BY DEF ValueTyped, valueVars
  <2>2. PICK h \in Int : json_to_prost(json) = double(h)
    BY <2>1, OnToProst DEF Cross
  <2>3. json' \in {int(n) : n \in IntMin..IntMax} \cup {double(h)}
    BY <2>1, <2>2, BackFromProst DEF Cross
  <2>4. QED
    BY <2>3 DEF ValueTyped
<1>3. ValueTyped => CrossingKeepsValue
  <2>1. SUFFICES ASSUME ValueTyped, json_to_prost(json) # Refused
                 PROVE  \/ Value(prost_to_json(json_to_prost(json))) = Value(json)
                        \/ Value(json) = 2 * (IntMax + 1)
    BY DEF CrossingKeepsValue
  <2>2. PICK h \in Int : json_to_prost(json) = double(h) /\ h = Value(json)
    BY <2>1, OnToProst
  <2>3. QED
    BY <2>2, BackFromProst
<1>4. QED
  BY <1>1, <1>2, <1>3, PTL DEF ValueSpec
-----------------------------------------------------------------------------
(***************************************************************************)
(* Refused input.                                                          *)
(***************************************************************************)
Bucket == [tokens : Nat, at : Nat]
WireState == [phase : {"none", "reading", "counting", "writing", "closing", "flushing", "gone"}, budget : Bucket,
              reason : Reason, count : Nat, rest : [Reason -> Nat]]
RefusalWindow == [open : BOOLEAN, persisted : Nat, occurrences : Nat]
Tally == [received : Nat, accepted : Nat, flushes : Nat, strays : Nat, rejected : [Reason -> Nat],
          records : [Reason -> Nat], recorded : [Reason -> Nat], lost : [Reason -> Nat]]

InputTyped ==
    /\ second \in Nat /\ registered \in Wire \cup {0} /\ wires \in [Wire -> WireState]
    /\ chatBudget \in Bucket /\ chatBudget.at <= second
    /\ \A w \in Wire : wires[w].budget.at <= second
    /\ windows \in [Reason -> RefusalWindow] /\ \A r \in Reason : windows[r].persisted <= second
    /\ tally \in Tally

\* Only a socket that flushes has counts in its hands, and the registered one
\* has not begun to close.
WiresFit ==
    /\ \A w \in Wire : wires[w].phase # "flushing" => \A r \in Reason : wires[w].rest[r] = 0
    /\ registered # 0 => wires[registered].phase \in {"reading", "counting", "writing"}

\* Nobody has spent what the bucket did not have.
BudgetCovers == tally.accepted + chatBudget.tokens <= ChatBurst + ChatRate * chatBudget.at

\* The sockets that are about to write a record of a reason.
Owing(r) == {w \in Wire : (wires[w].phase = "writing" /\ wires[w].reason = r) \/ wires[w].rest[r] > 0}
Records(r) == tally.records[r] + Cardinality(Owing(r)) - 2 * tally.flushes

\* Written records and those about to be written: one opens a window, another
\* must wait for the time of the window to pass, a flush has two of its own.
RecordsAreSpaced ==
    \A r \in Reason :
        IF windows[r].open THEN Window * (Records(r) - 1) <= windows[r].persisted
        ELSE Window * Records(r) <= second

\* What is left in a window when nobody will flush it has been counted by
\* sockets that nobody knew any more.
LeftByStrays ==
    registered = 0 /\ (\A w \in Wire : wires[w].phase # "closing") =>
        \A r \in Reason : windows[r].occurrences <= tally.strays

InputIInv ==
    /\ InputTyped /\ WiresFit
    /\ RejectionsAddUp /\ RecordsAreSpaced /\ BudgetCovers /\ LeftByStrays

\* The numbers are numbers.
LEMMA InputNumbers ==
    /\ WireBurst \in Nat /\ WireRate \in Nat /\ ChatBurst \in Nat /\ ChatRate \in Nat /\ Window \in Nat
    /\ MaxSeconds \in Nat /\ MaxMessages \in Nat /\ IsFiniteSet(Wire) /\ 0 \notin Wire
BY InputAssumption

\* Arithmetic of rates.
LEMMA Rates ==
    ASSUME NEW k \in Nat, NEW a \in Int, NEW b \in Int
    PROVE  /\ k * a \in Int /\ k * (a + b) = k * a + k * b /\ k * (a - b) = k * a - k * b
           /\ a <= b => k * a <= k * b
           /\ k * (a + 1) = k * a + k /\ a * k = k * a
<1>1. k * a \in Int /\ k * b \in Int /\ k * (a + b) = k * a + k * b /\ k * (a - b) = k * a - k * b
      /\ k * (a + 1) = k * a + k /\ a * k = k * a
  OBVIOUS
<1>2. ASSUME a <= b PROVE k * a <= k * b
  <2>1. b - a \in Nat
    BY <1>2
  <2>2. k * (b - a) >= 0
    BY <2>1
  <2>3. k * (b - a) = k * b - k * a
    OBVIOUS
  <2>4. QED
    BY <1>1, <2>2, <2>3
<1>3. QED
  BY <1>1, <1>2

-----------------------------------------------------------------------------
(* What the sockets have in hand.                                          *)

\* A pile for each socket.
Pile(f) == UNION {{w} \X (1..f[w]) : w \in Wire}

\* What is in a pile.
LEMMA InPile ==
    ASSUME NEW f, NEW w, NEW k
    PROVE  <<w, k>> \in Pile(f) <=> w \in Wire /\ k \in 1..f[w]
BY DEF Pile

\* Finitely many piles are finite together.
LEMMA PilesAreFinite ==
    ASSUME NEW f \in [Wire -> Nat]
    PROVE  IsFiniteSet(Pile(f)) /\ Cardinality(Pile(f)) \in Nat
<1> DEFINE piles == {{w} \X (1..f[w]) : w \in Wire}
<1> DEFINE pile == [w \in Wire |-> {w} \X (1..f[w])]
<1>1. pile \in Surjection(Wire, piles)
  BY DEF Surjection
<1>2. IsFiniteSet(piles)
  <2> HIDE DEF piles, pile
  <2>1. QED
    BY <1>1, InputNumbers, FS_Surjection
<1>3. \A T \in piles : IsFiniteSet(T)
  <2>1. \A w \in Wire : f[w] \in Nat
    OBVIOUS
  <2>2. \A w \in Wire : IsFiniteSet({w} \X (1..f[w]))
    BY <2>1, OnePile
  <2>3. QED
    BY <2>2
<1>4. IsFiniteSet(UNION piles)
  <2> HIDE DEF piles
  <2>1. QED
    BY <1>2, <1>3, FS_UNION
<1>5. QED
  BY <1>4, FS_CardinalityType DEF Pile

\* One pile changes.
LEMMA PileMoves ==
    ASSUME NEW f \in [Wire -> Nat], NEW g \in [Wire -> Nat], NEW w \in Wire, \A v \in Wire \ {w} : g[v] = f[v]
    PROVE  Cardinality(Pile(g)) = Cardinality(Pile(f)) - f[w] + g[w]
<1>1. PICK rest : rest = Pile(f) \ ({w} \X (1..f[w]))
  OBVIOUS
<1>2. IsFiniteSet(rest) /\ Cardinality(rest) \in Nat
  BY <1>1, PilesAreFinite, FS_Difference, FS_CardinalityType
<1>3. \A h \in {f, g} : Pile(h) = rest \cup ({w} \X (1..h[w])) /\ rest \cap ({w} \X (1..h[w])) = {}
  <2>1. \A v \in Wire : v # w => f[v] = g[v]
    OBVIOUS
  <2>2. rest = UNION {{v} \X (1..f[v]) : v \in Wire \ {w}}
    BY <1>1 DEF Pile
  <2>3. rest = UNION {{v} \X (1..g[v]) : v \in Wire \ {w}}
    BY <2>1, <2>2
  <2>4. QED
    BY <2>2, <2>3 DEF Pile
<1>4. \A h \in {f, g} : Cardinality(Pile(h)) = Cardinality(rest) + h[w]
  <2>1. SUFFICES ASSUME NEW h \in {f, g} PROVE Cardinality(Pile(h)) = Cardinality(rest) + h[w]
    OBVIOUS
  <2>2. PICK own : own = {w} \X (1..h[w])
    OBVIOUS
  <2>3. h[w] \in Nat /\ IsFiniteSet(own) /\ Cardinality(own) = h[w]
    BY <2>2, OnePile
  <2>4. Pile(h) = rest \cup own /\ rest \cap own = {}
    BY <1>3, <2>2
  <2>5. Cardinality(rest \cup own) = Cardinality(rest) + Cardinality(own) - Cardinality(rest \cap own)
    BY <1>2, <2>3, FS_Union
  <2>6. Cardinality(rest \cap own) = 0
    BY <2>4, FS_EmptySet
  <2>7. QED
    BY <1>2, <2>3, <2>4, <2>5, <2>6
<1>5. QED
  BY <1>2, <1>4

\* What one socket has in hand, by its phase.
LEMMA HandTypes ==
    ASSUME InputTyped, NEW w \in Wire, NEW r \in Reason
    PROVE  /\ wires[w] \in WireState /\ wires[w].rest[r] \in Nat /\ wires[w].count \in Nat
           /\ InHand(w, r) \in Nat
           /\ wires[w].phase \notin {"counting", "writing"} => InHand(w, r) = wires[w].rest[r]
           /\ wires[w].phase = "counting" => InHand(w, r) = (IF wires[w].reason = r THEN 1 ELSE 0) + wires[w].rest[r]
           /\ wires[w].phase = "writing" =>
                InHand(w, r) = (IF wires[w].reason = r THEN wires[w].count ELSE 0) + wires[w].rest[r]
<1>1. wires[w] \in WireState
  BY DEF InputTyped
<1>2. wires[w].rest[r] \in Nat /\ wires[w].count \in Nat
  BY <1>1 DEF WireState
<1>3. QED
  BY <1>1, <1>2 DEF InHand

\* Together.
LEMMA TotalMoves ==
    ASSUME InputTyped, InputTyped', NEW w \in Wire, \A v \in Wire \ {w} : wires'[v] = wires[v], NEW r \in Reason
    PROVE  /\ TotalInHand(r) \in Nat
           /\ TotalInHand(r)' = TotalInHand(r) - InHand(w, r) + InHand(w, r)'
<1>1. PICK f : f = [v \in Wire |-> InHand(v, r)]
  OBVIOUS
<1>2. PICK g : g = [v \in Wire |-> InHand(v, r)']
  OBVIOUS
<1>3. f \in [Wire -> Nat]
  BY <1>1, HandTypes
<1>4. \A v \in Wire : InHand(v, r)' \in Nat
  <2>1. \A v \in Wire : wires'[v] \in WireState
    BY DEF InputTyped
  <2>2. \A v \in Wire : wires'[v].rest[r] \in Nat /\ wires'[v].count \in Nat
    BY <2>1 DEF WireState
  <2>3. QED
    BY <2>2 DEF InHand
<1>5. g \in [Wire -> Nat] /\ \A v \in Wire \ {w} : g[v] = f[v]
  BY <1>1, <1>2, <1>4 DEF InHand
<1>6. TotalInHand(r) = Cardinality(Pile(f)) /\ TotalInHand(r)' = Cardinality(Pile(g))
  BY <1>1, <1>2 DEF TotalInHand, Pile
<1>7. QED
  BY <1>1, <1>2, <1>3, <1>5, <1>6, PileMoves, PilesAreFinite

-----------------------------------------------------------------------------
(* Types.                                                                  *)

\* A bucket after its refill.
LEMMA RefilledTypes ==
    ASSUME InputTyped, NEW b \in Bucket, b.at <= second, NEW burst \in Nat, NEW rate \in Nat
    PROVE  /\ Refilled(b, burst, rate) \in Bucket /\ Refilled(b, burst, rate).at = second
           /\ Refilled(b, burst, rate).tokens <= b.tokens + (second - b.at) * rate
           /\ Spent(Refilled(b, burst, rate)) \in Bucket /\ Spent(Refilled(b, burst, rate)).at = second
           /\ Spent(Refilled(b, burst, rate)).tokens <= Refilled(b, burst, rate).tokens
           /\ Refilled(b, burst, rate).tokens >= 1 =>
                Spent(Refilled(b, burst, rate)).tokens = Refilled(b, burst, rate).tokens - 1
<1>1. b.tokens \in Nat /\ b.at \in Nat /\ second \in Nat /\ second - b.at \in Nat
  BY DEF Bucket, InputTyped
<1>2. PICK t : t = b.tokens + (second - b.at) * rate
  OBVIOUS
<1>3. t \in Nat
  <2>1. rate * (second - b.at) >= rate * 0 /\ rate * (second - b.at) \in Int /\ (second - b.at) * rate = rate * (second - b.at)
    BY <1>1, Rates
  <2>2. QED
    BY <1>1, <1>2, <2>1
<1>4. PICK n \in Nat : n = (IF t < burst THEN t ELSE burst) /\ n <= t
  BY <1>3
<1>5. Refilled(b, burst, rate) = [tokens |-> n, at |-> second]
  BY <1>2, <1>4 DEF Refilled
<1>6. Spent([tokens |-> n, at |-> second]) = [tokens |-> IF n >= 1 THEN n - 1 ELSE n, at |-> second]
  BY DEF Spent
<1>7. (IF n >= 1 THEN n - 1 ELSE n) \in Nat /\ (IF n >= 1 THEN n - 1 ELSE n) <= n
  OBVIOUS
<1>8. QED
  BY <1>1, <1>2, <1>4, <1>5, <1>6, <1>7 DEF Bucket

\* What becomes of the tally.
LEMMA TallyTypes ==
    ASSUME tally \in Tally, NEW r \in Reason, NEW n \in Nat
    PROVE  /\ Written(r, n) \in Tally /\ NotWritten(r, n) \in Tally
           /\ [tally EXCEPT !.received = @ + 1, !.rejected[r] = @ + 1] \in Tally
           /\ [tally EXCEPT !.received = @ + 1, !.accepted = @ + 1] \in Tally
           /\ [tally EXCEPT !.received = @ + 1] \in Tally
           /\ [tally EXCEPT !.strays = @ + 1] \in Tally
           /\ [tally EXCEPT !.flushes = @ + 1] \in Tally
<1>1. /\ tally.received + 1 \in Nat /\ tally.accepted + 1 \in Nat /\ tally.strays + 1 \in Nat /\ tally.flushes + 1 \in Nat
  BY DEF Tally
<1>2. \A f \in [Reason -> Nat], m \in Nat : [f EXCEPT ![r] = @ + m] \in [Reason -> Nat]
  OBVIOUS
<1>3. /\ tally.rejected \in [Reason -> Nat] /\ tally.records \in [Reason -> Nat]
      /\ tally.recorded \in [Reason -> Nat] /\ tally.lost \in [Reason -> Nat]
  BY DEF Tally
<1>4. /\ [tally.rejected EXCEPT ![r] = @ + 1] \in [Reason -> Nat] /\ [tally.records EXCEPT ![r] = @ + 1] \in [Reason -> Nat]
      /\ [tally.recorded EXCEPT ![r] = @ + n] \in [Reason -> Nat] /\ [tally.lost EXCEPT ![r] = @ + n] \in [Reason -> Nat]
  BY <1>2, <1>3
<1>5. Written(r, n) = [tally EXCEPT !.records = [tally.records EXCEPT ![r] = @ + 1],
                                    !.recorded = [tally.recorded EXCEPT ![r] = @ + n]]
  BY DEF Written, Tally
<1>6. NotWritten(r, n) = [tally EXCEPT !.lost = [tally.lost EXCEPT ![r] = @ + n]]
  BY DEF NotWritten, Tally
<1>7. [tally EXCEPT !.received = @ + 1, !.rejected[r] = @ + 1]
        = [tally EXCEPT !.received = tally.received + 1, !.rejected = [tally.rejected EXCEPT ![r] = @ + 1]]
  BY DEF Tally
<1>8. Written(r, n) \in Tally /\ NotWritten(r, n) \in Tally
  BY <1>4, <1>5, <1>6 DEF Tally
<1>9. [tally EXCEPT !.received = @ + 1, !.rejected[r] = @ + 1] \in Tally
  BY <1>1, <1>4, <1>7 DEF Tally
<1>10. QED
  BY <1>1, <1>8, <1>9 DEF Tally

\* One socket and what it does to the tally.
LEMMA WireTyped ==
    ASSUME InputTyped, NEW w \in Wire, NEW s \in WireState, wires' = [wires EXCEPT ![w] = s], s.budget.at <= second,
           tally' \in Tally, second' = second, registered' \in Wire \cup {0},
           chatBudget' = chatBudget \/ (chatBudget' \in Bucket /\ chatBudget'.at = second),
           windows' \in [Reason -> RefusalWindow], \A r \in Reason : windows'[r].persisted <= second
    PROVE  InputTyped'
BY DEF InputTyped

\* Every step keeps the types.
LEMMA InputTypedStep ==
    ASSUME InputTyped, WiresFit, [InputNext]_inputVars
    PROVE  InputTyped'
<1>1. /\ second \in Nat /\ registered \in Wire \cup {0} /\ wires \in [Wire -> WireState]
      /\ chatBudget \in Bucket /\ chatBudget.at <= second
      /\ \A w \in Wire : wires[w] \in WireState /\ wires[w].budget.at <= second /\ wires[w].budget \in Bucket
      /\ windows \in [Reason -> RefusalWindow] /\ \A r \in Reason : windows[r].persisted <= second
      /\ tally \in Tally
  BY DEF InputTyped, WireState
<1>2. CASE SecondPasses
  <2>1. second' = second + 1 /\ UNCHANGED <<wires, registered, chatBudget, windows, tally>>
    BY <1>2 DEF SecondPasses
  <2>2. \A n \in Nat : n <= second => n <= second + 1
    BY <1>1
  <2>3. /\ chatBudget.at \in Nat /\ \A w \in Wire : wires[w].budget.at \in Nat
        /\ \A r \in Reason : windows[r].persisted \in Nat
    BY <1>1 DEF Bucket, RefusalWindow
  <2>4. QED
    BY <1>1, <2>1, <2>2, <2>3 DEF InputTyped
<1>3. ASSUME NEW w \in Wire, OpenWire(w) PROVE InputTyped'
  <2>1. [Closed EXCEPT !.phase = "reading", !.budget = Full(WireBurst)] \in WireState
    BY <1>1, InputNumbers DEF Closed, Full, WireState, Bucket, Reason
  <2>2. [Closed EXCEPT !.phase = "reading", !.budget = Full(WireBurst)].budget.at = second
    BY DEF Closed, Full
  <2>3. /\ wires' = [wires EXCEPT ![w] = [Closed EXCEPT !.phase = "reading", !.budget = Full(WireBurst)]]
        /\ second' = second /\ tally' = tally /\ chatBudget' = chatBudget /\ windows' = windows /\ registered' = w
    BY <1>3 DEF OpenWire, KeepsChat
  <2>4. [Closed EXCEPT !.phase = "reading", !.budget = Full(WireBurst)].budget.at <= second
    BY <1>1, <2>2
  <2>5. QED
    BY <1>1, <2>1, <2>3, <2>4, WireTyped
<1>4. ASSUME NEW w \in Wire, NEW kind \in {"chat", "bad", "other"}, Receive(w, kind) PROVE InputTyped'
  <2> DEFINE own == Spent(Refilled(wires[w].budget, WireBurst, WireRate))
  <2> DEFINE chat == Spent(Refilled(chatBudget, ChatBurst, ChatRate))
  <2>1. own \in Bucket /\ own.at = second /\ chat \in Bucket /\ chat.at = second
    BY <1>1, RefilledTypes, InputNumbers
  <2>2. chatBudget' = chatBudget \/ chatBudget' = chat
    BY <1>4 DEF Receive
  <2>3. UNCHANGED <<second, registered, windows>>
    BY <1>4 DEF Receive
  <2>4. \/ /\ wires' = [wires EXCEPT ![w].budget = own]
           /\ tally' = [tally EXCEPT !.received = @ + 1, !.accepted = IF kind = "chat" THEN @ + 1 ELSE @]
        \/ \E r \in Reason :
             /\ wires' = [wires EXCEPT ![w].budget = own, ![w].phase = "counting", ![w].reason = r]
             /\ tally' = [tally EXCEPT !.received = @ + 1, !.rejected[r] = @ + 1]
    BY <1>4 DEF Receive, Verdict, Reason
  <2> HIDE DEF own, chat
  <2>5. tally' \in Tally
    <3>1. \A r \in Reason : [tally EXCEPT !.received = @ + 1, !.rejected[r] = @ + 1] \in Tally
      BY <1>1, TallyTypes
    <3>2. [tally EXCEPT !.received = @ + 1, !.accepted = IF kind = "chat" THEN @ + 1 ELSE @] \in Tally
      <4>1. "refused" \in Reason /\ 0 \in Nat
        BY DEF Reason
      <4>2. [tally EXCEPT !.received = @ + 1, !.accepted = @ + 1] \in Tally /\ [tally EXCEPT !.received = @ + 1] \in Tally
        BY <1>1, <4>1, TallyTypes
      <4>3. kind # "chat" => [tally EXCEPT !.received = @ + 1, !.accepted = IF kind = "chat" THEN @ + 1 ELSE @]
                               = [tally EXCEPT !.received = @ + 1]
        BY <1>1 DEF Tally
      <4>4. QED
        BY <4>2, <4>3
    <3>3. QED
      BY <2>4, <3>1, <3>2
  <2>6. CASE wires' = [wires EXCEPT ![w].budget = own]
    <3>1. PICK s : s = [wires[w] EXCEPT !.budget = own]
      OBVIOUS
    <3>2. s \in WireState /\ s.budget = own
      BY <1>1, <2>1, <3>1 DEF WireState
    <3>3. s.budget.at <= second
      BY <1>1, <2>1, <3>2
    <3>4. wires' = [wires EXCEPT ![w] = s]
      BY <1>1, <2>6, <3>1
    <3>5. QED
      BY <1>1, <2>1, <2>2, <2>3, <2>5, <3>2, <3>3, <3>4, WireTyped
  <2>7. ASSUME NEW r \in Reason, wires' = [wires EXCEPT ![w].budget = own, ![w].phase = "counting", ![w].reason = r]
        PROVE  InputTyped'
    <3>1. PICK s : s = [wires[w] EXCEPT !.budget = own, !.phase = "counting", !.reason = r]
      OBVIOUS
    <3>2. s \in WireState /\ s.budget = own
      BY <1>1, <2>1, <3>1 DEF WireState
    <3>3. s.budget.at <= second
      BY <1>1, <2>1, <3>2
    <3>4. wires' = [wires EXCEPT ![w] = s]
      BY <1>1, <2>7, <3>1
    <3>5. QED
      BY <1>1, <2>1, <2>2, <2>3, <2>5, <3>2, <3>3, <3>4, WireTyped
  <2>8. QED
    BY <2>4, <2>6, <2>7
<1>5. ASSUME NEW w \in Wire, Count(w) PROVE InputTyped'
  <2>1. PICK r \in Reason : r = wires[w].reason
    BY <1>1 DEF WireState
  <2>2. PICK n \in Nat : n = windows[r].occurrences + 1
    BY <1>1 DEF RefusalWindow
  <2>3. \/ /\ windows' = [windows EXCEPT ![r] = [open |-> TRUE, persisted |-> second, occurrences |-> 0]]
           /\ wires' = [wires EXCEPT ![w].phase = "writing", ![w].count = n]
        \/ /\ windows' = [windows EXCEPT ![r].occurrences = n]
           /\ wires' = [wires EXCEPT ![w].phase = "reading"]
    BY <1>5, <2>1, <2>2 DEF Count, Emptied
  <2>4. windows' \in [Reason -> RefusalWindow] /\ \A q \in Reason : windows'[q].persisted <= second
    <3>1. PICK v \in RefusalWindow : v.persisted <= second /\ windows' = [windows EXCEPT ![r] = v]
      <4>1. windows[r] \in RefusalWindow /\ windows[r].persisted <= second /\ second <= second
        BY <1>1
      <4>2. [open |-> TRUE, persisted |-> second, occurrences |-> 0] \in RefusalWindow
        BY <1>1 DEF RefusalWindow
      <4>3. /\ [windows[r] EXCEPT !.occurrences = n] \in RefusalWindow
            /\ [windows[r] EXCEPT !.occurrences = n].persisted <= second
        BY <4>1 DEF RefusalWindow
      <4>4. windows' = [windows EXCEPT ![r] = [open |-> TRUE, persisted |-> second, occurrences |-> 0]]
            \/ windows' = [windows EXCEPT ![r] = [windows[r] EXCEPT !.occurrences = n]]
        BY <2>3
      <4>5. QED
        BY <4>1, <4>2, <4>3, <4>4
    <3>2. QED
      BY <1>1, <3>1
  <2>5. wires' = [wires EXCEPT ![w] = [wires[w] EXCEPT !.phase = "writing", !.count = n]]
        \/ wires' = [wires EXCEPT ![w] = [wires[w] EXCEPT !.phase = "reading"]]
    BY <2>3
  <2>6. /\ [wires[w] EXCEPT !.phase = "writing", !.count = n] \in WireState
        /\ [wires[w] EXCEPT !.phase = "writing", !.count = n].budget.at <= second
        /\ [wires[w] EXCEPT !.phase = "reading"] \in WireState
        /\ [wires[w] EXCEPT !.phase = "reading"].budget.at <= second
    BY <1>1 DEF WireState
  <2>7. tally' \in Tally /\ UNCHANGED <<second, registered, chatBudget>>
    <3>1. tally' = tally \/ tally' = [tally EXCEPT !.strays = @ + 1]
      BY <1>5 DEF Count
    <3>2. QED
      BY <1>1, <1>5, <2>1, <2>2, <3>1, TallyTypes DEF Count
  <2>8. QED
    BY <1>1, <2>4, <2>5, <2>6, <2>7, WireTyped
<1>6. ASSUME NEW w \in Wire, WriteRecord(w) PROVE InputTyped'
  <2>1. wires[w].reason \in Reason /\ wires[w].count \in Nat
    BY <1>1 DEF WireState
  <2>2. tally' \in Tally
    BY <1>1, <1>6, <2>1, TallyTypes DEF WriteRecord
  <2>3. PICK s : s = [wires[w] EXCEPT !.phase = "reading", !.count = 0]
    OBVIOUS
  <2>4. s \in WireState /\ s.budget.at <= second
    BY <1>1, <2>3 DEF WireState
  <2>5. wires' = [wires EXCEPT ![w] = s] /\ UNCHANGED <<second, registered, chatBudget, windows>>
    BY <1>6, <2>3 DEF WriteRecord
  <2>6. QED
    BY <1>1, <2>2, <2>4, <2>5, WireTyped
<1>7. ASSUME NEW w \in Wire, CloseWire(w) \/ FinishWire(w) PROVE InputTyped'
  <2>1. PICK p \in {"closing", "gone"} : wires' = [wires EXCEPT ![w].phase = p]
    BY <1>7 DEF CloseWire, FinishWire
  <2>2. PICK s : s = [wires[w] EXCEPT !.phase = p]
    OBVIOUS
  <2>3. s \in WireState /\ s.budget.at <= second
    BY <1>1, <2>2 DEF WireState
  <2>4. wires' = [wires EXCEPT ![w] = s] /\ UNCHANGED <<second, tally, chatBudget, windows>>
        /\ registered' \in Wire \cup {0}
    BY <1>1, <1>7, <2>1, <2>2 DEF CloseWire, FinishWire
  <2>5. QED
    BY <1>1, <2>3, <2>4, WireTyped
<1>8. ASSUME NEW w \in Wire, FlushWindows(w) PROVE InputTyped'
  <2>1. Taken(w) \in [Reason -> Nat]
    BY <1>1 DEF Taken, RefusalWindow
  <2>2. PICK s : s = [wires[w] EXCEPT !.phase = "flushing", !.rest = Taken(w)]
    OBVIOUS
  <2>3. s \in WireState /\ s.budget.at <= second
    BY <1>1, <2>1, <2>2 DEF WireState
  <2>4. wires' = [wires EXCEPT ![w] = s] /\ UNCHANGED <<second, registered, chatBudget>>
        /\ windows' = [r \in Reason |-> NoWindow] /\ tally' = [tally EXCEPT !.flushes = @ + 1]
    BY <1>8, <2>2 DEF FlushWindows
  <2>5. windows' \in [Reason -> RefusalWindow] /\ (\A r \in Reason : windows'[r].persisted <= second) /\ tally' \in Tally
    <3>1. NoWindow \in RefusalWindow /\ NoWindow.persisted = 0 /\ 0 <= second
      BY <1>1 DEF NoWindow, RefusalWindow
    <3>2. tally' \in Tally
      BY <1>1, <2>4 DEF Tally
    <3>3. QED
      BY <2>4, <3>1, <3>2
  <2>6. QED
    BY <1>1, <2>3, <2>4, <2>5, WireTyped
<1>9. ASSUME NEW w \in Wire, NEW r \in Reason, WriteRest(w, r) PROVE InputTyped'
  <2>1. wires[w].rest \in [Reason -> Nat] /\ wires[w].rest[r] \in Nat
    BY <1>1 DEF WireState
  <2>2. tally' \in Tally
    BY <1>1, <1>9, <2>1, TallyTypes DEF WriteRest
  <2>3. PICK s : s = [wires[w] EXCEPT !.rest = [wires[w].rest EXCEPT ![r] = 0]]
    OBVIOUS
  <2>4. s \in WireState /\ s.budget.at <= second
    BY <1>1, <2>1, <2>3 DEF WireState
  <2>5. wires' = [wires EXCEPT ![w] = s] /\ UNCHANGED <<second, registered, chatBudget, windows>>
    BY <1>9, <2>3 DEF WriteRest
  <2>6. QED
    BY <1>1, <2>2, <2>4, <2>5, WireTyped
<1>10. CASE UNCHANGED inputVars
  BY <1>1, <1>10 DEF inputVars, InputTyped
<1>11. QED
  BY <1>2, <1>3, <1>4, <1>5, <1>6, <1>7, <1>8, <1>9, <1>10 DEF InputNext

-----------------------------------------------------------------------------
(* What a step does to one socket, as far as its phase and its hands go.   *)

\* A socket that only reads, opens or closes.
WireOnly(w) ==
    /\ \A v \in Wire \ {w} : wires'[v] = wires[v]
    /\ wires'[w].rest = wires[w].rest \/ (\A r \in Reason : wires[w].rest[r] = 0 /\ wires'[w].rest[r] = 0)

\* A socket is opened.
LEMMA OpenMoves ==
    ASSUME InputTyped, WiresFit, NEW w \in Wire, OpenWire(w)
    PROVE  /\ WireOnly(w) /\ registered' = w /\ wires[w].phase = "none" /\ wires'[w].phase = "reading"
           /\ UNCHANGED <<second, chatBudget, windows, tally>>
<1>1. /\ wires[w].phase = "none" /\ registered' = w /\ UNCHANGED <<second, chatBudget, windows, tally>>
      /\ wires' = [wires EXCEPT ![w] = [Closed EXCEPT !.phase = "reading", !.budget = Full(WireBurst)]]
  BY DEF OpenWire, KeepsChat
<1>2. wires \in [Wire -> WireState] /\ \A r \in Reason : wires[w].rest[r] = 0
  BY <1>1 DEF InputTyped, WiresFit
<1>3. wires'[w].phase = "reading" /\ \A r \in Reason : wires'[w].rest[r] = 0
  BY <1>1, <1>2 DEF Closed
<1>4. QED
  BY <1>1, <1>2, <1>3 DEF WireOnly

\* A message is accepted or refused.
LEMMA ReceiveMoves ==
    ASSUME InputTyped, NEW w \in Wire, NEW kind \in {"chat", "bad", "other"}, Receive(w, kind)
    PROVE  /\ WireOnly(w) /\ wires[w].phase = "reading" /\ UNCHANGED <<second, registered, windows>>
           /\ \/ wires'[w].phase = "reading" /\ tally'.rejected = tally.rejected
              \/ /\ wires'[w].phase = "counting" /\ tally'.accepted = tally.accepted
                 /\ wires'[w].reason \in Reason
                 /\ tally'.rejected = [tally.rejected EXCEPT ![wires'[w].reason] = @ + 1]
           /\ tally'.records = tally.records /\ tally'.recorded = tally.recorded /\ tally'.lost = tally.lost
           /\ tally'.flushes = tally.flushes /\ tally'.strays = tally.strays
           /\ \/ chatBudget' = chatBudget /\ tally'.accepted = tally.accepted
              \/ /\ chatBudget' = Spent(Refilled(chatBudget, ChatBurst, ChatRate))
                 /\ \/ tally'.accepted = tally.accepted
                    \/ tally'.accepted = tally.accepted + 1 /\ Refilled(chatBudget, ChatBurst, ChatRate).tokens >= 1
<1> DEFINE own == Refilled(wires[w].budget, WireBurst, WireRate)
<1> DEFINE chat == Refilled(chatBudget, ChatBurst, ChatRate)
<1>1. wires \in [Wire -> WireState] /\ wires[w] \in WireState /\ tally \in Tally
  BY DEF InputTyped
<1>2. /\ wires[w].phase = "reading" /\ UNCHANGED <<second, registered, windows>>
      /\ chatBudget' = IF kind = "chat" /\ own.tokens >= 1 THEN Spent(chat) ELSE chatBudget
      /\ \/ /\ Verdict(own, chat, kind) = {}
            /\ wires' = [wires EXCEPT ![w].budget = Spent(own)]
            /\ tally' = [tally EXCEPT !.received = @ + 1, !.accepted = IF kind = "chat" THEN @ + 1 ELSE @]
         \/ \E r \in Verdict(own, chat, kind) :
              /\ wires' = [wires EXCEPT ![w].budget = Spent(own), ![w].phase = "counting", ![w].reason = r]
              /\ tally' = [tally EXCEPT !.received = @ + 1, !.rejected[r] = @ + 1]
  BY DEF Receive
<1>3. /\ Verdict(own, chat, kind) \subseteq Reason
      /\ Verdict(own, chat, kind) = {} => ~(own.tokens < 1) /\ (kind = "chat" => ~(chat.tokens < 1))
  BY DEF Verdict, Reason
<1>4. own.tokens \in Nat /\ chat.tokens \in Nat
  <2>1. own \in Bucket /\ chat \in Bucket
    BY <1>1, RefilledTypes, InputNumbers DEF InputTyped, WireState
  <2>2. QED
    BY <2>1 DEF Bucket
<1> HIDE DEF own, chat
<1>5. CASE /\ Verdict(own, chat, kind) = {}
           /\ wires' = [wires EXCEPT ![w].budget = Spent(own)]
           /\ tally' = [tally EXCEPT !.received = @ + 1, !.accepted = IF kind = "chat" THEN @ + 1 ELSE @]
  <2>1. WireOnly(w) /\ wires'[w].phase = "reading"
    BY <1>1, <1>2, <1>5 DEF WireOnly, WireState
  <2>2. /\ tally'.rejected = tally.rejected
        /\ tally'.records = tally.records /\ tally'.recorded = tally.recorded /\ tally'.lost = tally.lost
        /\ tally'.flushes = tally.flushes /\ tally'.strays = tally.strays
        /\ tally'.accepted = IF kind = "chat" THEN tally.accepted + 1 ELSE tally.accepted
    BY <1>1, <1>5 DEF Tally
  <2>3. own.tokens >= 1 /\ (kind = "chat" => chat.tokens >= 1)
    BY <1>3, <1>4, <1>5
  <2>4. QED
    BY <1>2, <2>1, <2>2, <2>3 DEF chat
<1>6. ASSUME NEW r \in Verdict(own, chat, kind),
             wires' = [wires EXCEPT ![w].budget = Spent(own), ![w].phase = "counting", ![w].reason = r],
             tally' = [tally EXCEPT !.received = @ + 1, !.rejected[r] = @ + 1]
      PROVE  /\ WireOnly(w) /\ wires'[w].phase = "counting" /\ wires'[w].reason = r /\ r \in Reason
             /\ tally'.rejected = [tally.rejected EXCEPT ![r] = @ + 1] /\ tally'.accepted = tally.accepted
             /\ tally'.records = tally.records /\ tally'.recorded = tally.recorded /\ tally'.lost = tally.lost
             /\ tally'.flushes = tally.flushes /\ tally'.strays = tally.strays
  <2>1. WireOnly(w) /\ wires'[w].phase = "counting" /\ wires'[w].reason = r
    BY <1>1, <1>2, <1>6 DEF WireOnly, WireState
  <2>2. QED
    BY <1>1, <1>3, <1>6, <2>1 DEF Tally
<1>7. QED
  BY <1>2, <1>5, <1>6 DEF chat

\* A rejection is counted, and perhaps becomes a record.
LEMMA CountMoves ==
    ASSUME InputTyped, NEW w \in Wire, Count(w)
    PROVE  \E r \in Reason :
             /\ WireOnly(w) /\ wires[w].phase = "counting" /\ wires[w].reason = r
             /\ UNCHANGED <<second, registered, chatBudget>>
             /\ \/ /\ Due(r) /\ wires'[w].phase = "writing" /\ wires'[w].reason = r
                   /\ wires'[w].count = windows[r].occurrences + 1
                   /\ windows' = [windows EXCEPT ![r] = Emptied(r)]
                \/ /\ wires'[w].phase = "reading" /\ windows[r].open
                   /\ windows' = [windows EXCEPT ![r].occurrences = windows[r].occurrences + 1]
             /\ tally'.rejected = tally.rejected /\ tally'.records = tally.records /\ tally'.accepted = tally.accepted
             /\ tally'.recorded = tally.recorded /\ tally'.lost = tally.lost /\ tally'.flushes = tally.flushes
             /\ tally'.strays = IF registered = w THEN tally.strays ELSE tally.strays + 1
<1>1. wires \in [Wire -> WireState] /\ wires[w] \in WireState /\ tally \in Tally
  BY DEF InputTyped
<1>2. PICK r \in Reason : r = wires[w].reason
  BY <1>1 DEF WireState
<1>3. /\ wires[w].phase = "counting" /\ UNCHANGED <<second, registered, chatBudget>>
      /\ \/ /\ Due(r) /\ windows' = [windows EXCEPT ![r] = Emptied(r)]
            /\ wires' = [wires EXCEPT ![w].phase = "writing", ![w].count = windows[r].occurrences + 1]
         \/ /\ ~Due(r) /\ windows' = [windows EXCEPT ![r].occurrences = windows[r].occurrences + 1]
            /\ wires' = [wires EXCEPT ![w].phase = "reading"]
      /\ tally' = IF registered = w THEN tally ELSE [tally EXCEPT !.strays = @ + 1]
  BY <1>2 DEF Count
<1>4. /\ tally'.rejected = tally.rejected /\ tally'.records = tally.records /\ tally'.accepted = tally.accepted
      /\ tally'.recorded = tally.recorded /\ tally'.lost = tally.lost /\ tally'.flushes = tally.flushes
      /\ tally'.strays = IF registered = w THEN tally.strays ELSE tally.strays + 1
  BY <1>1, <1>3 DEF Tally
<1>5. CASE /\ Due(r) /\ windows' = [windows EXCEPT ![r] = Emptied(r)]
           /\ wires' = [wires EXCEPT ![w].phase = "writing", ![w].count = windows[r].occurrences + 1]
  <2>1. WireOnly(w) /\ wires'[w].phase = "writing" /\ wires'[w].reason = r /\ wires'[w].count = windows[r].occurrences + 1
    BY <1>1, <1>2, <1>5 DEF WireOnly, WireState
  <2>2. QED
    BY <1>2, <1>3, <1>4, <1>5, <2>1
<1>6. CASE /\ ~Due(r) /\ windows' = [windows EXCEPT ![r].occurrences = windows[r].occurrences + 1]
           /\ wires' = [wires EXCEPT ![w].phase = "reading"]
  <2>1. WireOnly(w) /\ wires'[w].phase = "reading"
    BY <1>1, <1>6 DEF WireOnly, WireState
  <2>2. windows[r].open
    BY <1>6 DEF Due
  <2>3. QED
    BY <1>2, <1>3, <1>4, <1>6, <2>1, <2>2
<1>7. QED
  BY <1>3, <1>5, <1>6

\* A reason's record is written, or lost.
Settles(r, n) ==
    /\ tally'.rejected = tally.rejected /\ tally'.accepted = tally.accepted
    /\ tally'.flushes = tally.flushes /\ tally'.strays = tally.strays
    /\ \/ /\ tally'.records = [tally.records EXCEPT ![r] = @ + 1]
          /\ tally'.recorded = [tally.recorded EXCEPT ![r] = @ + n] /\ tally'.lost = tally.lost
       \/ /\ tally'.records = tally.records
          /\ tally'.recorded = tally.recorded /\ tally'.lost = [tally.lost EXCEPT ![r] = @ + n]

\* Written or not, it is settled.
LEMMA SettlesIs ==
    ASSUME tally \in Tally, NEW r \in Reason, NEW n, tally' \in {Written(r, n), NotWritten(r, n)}
    PROVE  Settles(r, n)
<1>1. tally.records \in [Reason -> Nat] /\ tally.recorded \in [Reason -> Nat] /\ tally.lost \in [Reason -> Nat]
  BY DEF Tally
<1>2. CASE tally' = Written(r, n)
  BY <1>1, <1>2 DEF Written, Settles, Tally
<1>3. CASE tally' = NotWritten(r, n)
  BY <1>1, <1>3 DEF NotWritten, Settles, Tally
<1>4. QED
  BY <1>2, <1>3

\* A record is written.
LEMMA WriteMoves ==
    ASSUME InputTyped, NEW w \in Wire, WriteRecord(w)
    PROVE  \E r \in Reason :
             /\ WireOnly(w) /\ wires[w].phase = "writing" /\ wires[w].reason = r
             /\ wires'[w].phase = "reading" /\ Settles(r, wires[w].count)
             /\ UNCHANGED <<second, registered, chatBudget, windows>>
<1>1. wires \in [Wire -> WireState] /\ wires[w] \in WireState /\ tally \in Tally
  BY DEF InputTyped
<1>2. PICK r \in Reason : r = wires[w].reason
  BY <1>1 DEF WireState
<1>3. WireOnly(w) /\ wires'[w].phase = "reading"
  BY <1>1 DEF WriteRecord, WireOnly, WireState
<1>4. Settles(r, wires[w].count)
  BY <1>1, <1>2, SettlesIs DEF WriteRecord
<1>5. QED
  BY <1>2, <1>3, <1>4 DEF WriteRecord

\* A socket closes, or has flushed.
LEMMA CloseMoves ==
    ASSUME InputTyped, NEW w \in Wire, CloseWire(w) \/ FinishWire(w)
    PROVE  /\ WireOnly(w) /\ UNCHANGED <<second, chatBudget, windows, tally>>
           /\ \/ wires[w].phase = "reading" /\ registered = w /\ registered' = 0 /\ wires'[w].phase = "closing"
              \/ /\ wires'[w].phase = "gone" /\ registered' = registered
                 /\ \/ wires[w].phase = "reading" /\ registered # w
                    \/ wires[w].phase = "flushing" /\ \A r \in Reason : wires[w].rest[r] = 0
<1>1. wires \in [Wire -> WireState] /\ wires[w] \in WireState
  BY DEF InputTyped
<1>2. CASE CloseWire(w)
  <2>1. CASE registered = w
    <3>1. wires' = [wires EXCEPT ![w].phase = "closing"] /\ registered' = 0 /\ wires[w].phase = "reading"
          /\ UNCHANGED <<second, chatBudget, windows, tally>>
      BY <1>2, <2>1 DEF CloseWire, StillOwner
    <3>2. QED
      BY <1>1, <2>1, <3>1 DEF WireOnly, WireState
  <2>2. CASE registered # w
    <3>1. wires' = [wires EXCEPT ![w].phase = "gone"] /\ registered' = registered /\ wires[w].phase = "reading"
          /\ UNCHANGED <<second, chatBudget, windows, tally>>
      BY <1>2, <2>2 DEF CloseWire, StillOwner
    <3>2. QED
      BY <1>1, <2>2, <3>1 DEF WireOnly, WireState
  <2>3. QED
    BY <2>1, <2>2
<1>3. CASE FinishWire(w)
  <2>1. wires' = [wires EXCEPT ![w].phase = "gone"] /\ UNCHANGED <<second, registered, chatBudget, windows, tally>>
        /\ wires[w].phase = "flushing" /\ \A r \in Reason : wires[w].rest[r] = 0
    BY <1>3 DEF FinishWire
  <2>2. QED
    BY <1>1, <2>1 DEF WireOnly, WireState
<1>4. QED
  BY <1>2, <1>3

\* The windows are taken out.
LEMMA FlushMoves ==
    ASSUME InputTyped, NEW w \in Wire, FlushWindows(w)
    PROVE  /\ \A v \in Wire \ {w} : wires'[v] = wires[v]
           /\ wires[w].phase = "closing" /\ wires'[w].phase = "flushing"
           /\ \A r \in Reason : wires'[w].rest[r] = windows[r].occurrences /\ windows'[r] = NoWindow
           /\ tally'.flushes = tally.flushes + 1 /\ tally'.rejected = tally.rejected /\ tally'.accepted = tally.accepted
           /\ tally'.records = tally.records /\ tally'.recorded = tally.recorded /\ tally'.lost = tally.lost
           /\ tally'.strays = tally.strays
           /\ UNCHANGED <<second, registered, chatBudget>>
<1>1. wires \in [Wire -> WireState] /\ wires[w] \in WireState /\ tally \in Tally
  BY DEF InputTyped
<1>2. /\ wires' = [wires EXCEPT ![w].phase = "flushing", ![w].rest = Taken(w)]
      /\ wires[w].phase = "closing" /\ windows' = [r \in Reason |-> NoWindow]
      /\ tally' = [tally EXCEPT !.flushes = @ + 1] /\ UNCHANGED <<second, registered, chatBudget>>
  BY DEF FlushWindows
<1>3. wires'[w].phase = "flushing" /\ wires'[w].rest = Taken(w) /\ \A v \in Wire \ {w} : wires'[v] = wires[v]
  BY <1>1, <1>2 DEF WireState
<1>4. \A r \in Reason : Taken(w)[r] = windows[r].occurrences /\ windows'[r] = NoWindow
  BY <1>2 DEF Taken
<1>5. QED
  BY <1>1, <1>2, <1>3, <1>4 DEF Tally

\* One of the counts that were taken out is written.
LEMMA RestMoves ==
    ASSUME InputTyped, NEW w \in Wire, NEW r \in Reason, WriteRest(w, r)
    PROVE  /\ \A v \in Wire \ {w} : wires'[v] = wires[v]
           /\ wires[w].phase = "flushing" /\ wires'[w].phase = "flushing" /\ wires[w].rest[r] > 0
           /\ wires'[w].rest[r] = 0 /\ \A q \in Reason \ {r} : wires'[w].rest[q] = wires[w].rest[q]
           /\ Settles(r, wires[w].rest[r]) /\ UNCHANGED <<second, registered, chatBudget, windows>>
<1>1. wires \in [Wire -> WireState] /\ wires[w] \in WireState /\ wires[w].rest \in [Reason -> Nat] /\ tally \in Tally
  BY DEF InputTyped, WireState
<1>2. /\ wires' = [wires EXCEPT ![w] = [wires[w] EXCEPT !.rest = [wires[w].rest EXCEPT ![r] = 0]]]
      /\ wires[w].phase = "flushing" /\ wires[w].rest[r] > 0 /\ UNCHANGED <<second, registered, chatBudget, windows>>
  BY DEF WriteRest
<1>3. wires'[w] = [wires[w] EXCEPT !.rest = [wires[w].rest EXCEPT ![r] = 0]] /\ \A v \in Wire \ {w} : wires'[v] = wires[v]
  BY <1>1, <1>2
<1>4. wires'[w].phase = "flushing" /\ wires'[w].rest = [wires[w].rest EXCEPT ![r] = 0]
  BY <1>1, <1>2, <1>3 DEF WireState
<1>5. Settles(r, wires[w].rest[r])
  BY <1>1, SettlesIs DEF WriteRest
<1>6. QED
  BY <1>1, <1>2, <1>3, <1>4, <1>5

-----------------------------------------------------------------------------
(* The parts of the invariant.                                             *)

\* Every step leaves the sockets in one of their phases.
LEMMA WiresFitStep ==
    ASSUME InputTyped, WiresFit, [InputNext]_inputVars
    PROVE  WiresFit'
<1>1. registered \in Wire \cup {0} /\ 0 \notin Wire
  BY InputNumbers DEF InputTyped
<1>2. CASE SecondPasses \/ UNCHANGED inputVars
  BY <1>2 DEF SecondPasses, inputVars, WiresFit
<1>3. ASSUME NEW w \in Wire, OpenWire(w) PROVE WiresFit'
  BY <1>3, OpenMoves DEF WiresFit, WireOnly
<1>4. ASSUME NEW w \in Wire, NEW kind \in {"chat", "bad", "other"}, Receive(w, kind) PROVE WiresFit'
  <2>1. WireOnly(w) /\ wires[w].phase = "reading" /\ wires'[w].phase \in {"reading", "counting"} /\ registered' = registered
    BY <1>4, ReceiveMoves
  <2>2. QED
    BY <1>1, <2>1 DEF WiresFit, WireOnly
<1>5. ASSUME NEW w \in Wire, Count(w) PROVE WiresFit'
  <2>1. WireOnly(w) /\ wires[w].phase = "counting" /\ wires'[w].phase \in {"reading", "writing"} /\ registered' = registered
    BY <1>5, CountMoves
  <2>2. QED
    BY <1>1, <2>1 DEF WiresFit, WireOnly
<1>6. ASSUME NEW w \in Wire, WriteRecord(w) PROVE WiresFit'
  <2>1. WireOnly(w) /\ wires[w].phase = "writing" /\ wires'[w].phase = "reading" /\ registered' = registered
    BY <1>6, WriteMoves
  <2>2. QED
    BY <1>1, <2>1 DEF WiresFit, WireOnly
<1>7. ASSUME NEW w \in Wire, CloseWire(w) \/ FinishWire(w) PROVE WiresFit'
  <2>1. /\ WireOnly(w) /\ wires'[w].phase \in {"closing", "gone"} /\ wires[w].phase \in {"reading", "flushing"}
        /\ registered' = 0 \/ (registered' = registered /\ (registered = w => wires[w].phase = "flushing"))
        /\ \A r \in Reason : wires[w].rest[r] = 0
    BY <1>7, CloseMoves DEF WiresFit
  <2>2. \A r \in Reason : wires'[w].rest[r] = 0
    BY <2>1 DEF WireOnly
  <2>3. QED
    BY <1>1, <2>1, <2>2 DEF WiresFit, WireOnly
<1>8. ASSUME NEW w \in Wire, FlushWindows(w) PROVE WiresFit'
  <2>1. /\ \A v \in Wire \ {w} : wires'[v] = wires[v]
        /\ wires[w].phase = "closing" /\ wires'[w].phase = "flushing" /\ registered' = registered
    BY <1>8, FlushMoves
  <2>2. QED
    BY <1>1, <2>1 DEF WiresFit
<1>9. ASSUME NEW w \in Wire, NEW r \in Reason, WriteRest(w, r) PROVE WiresFit'
  <2>1. /\ \A v \in Wire \ {w} : wires'[v] = wires[v]
        /\ wires[w].phase = "flushing" /\ wires'[w].phase = "flushing" /\ registered' = registered
    BY <1>9, RestMoves
  <2>2. QED
    BY <1>1, <2>1 DEF WiresFit
<1>10. QED
  BY <1>2, <1>3, <1>4, <1>5, <1>6, <1>7, <1>8, <1>9 DEF InputNext

\* Time passes for the budget.
LEMMA BudgetStep ==
    ASSUME InputTyped, BudgetCovers, [InputNext]_inputVars
    PROVE  BudgetCovers'
<1>1. ASSUME chatBudget' = chatBudget, tally'.accepted = tally.accepted PROVE BudgetCovers'
  BY <1>1 DEF BudgetCovers
<1>2. ASSUME NEW w \in Wire, NEW kind \in {"chat", "bad", "other"}, Receive(w, kind) PROVE BudgetCovers'
  <2> DEFINE chat == Refilled(chatBudget, ChatBurst, ChatRate)
  <2>1. \/ chatBudget' = chatBudget /\ tally'.accepted = tally.accepted
        \/ /\ chatBudget' = Spent(chat)
           /\ \/ tally'.accepted = tally.accepted
              \/ tally'.accepted = tally.accepted + 1 /\ chat.tokens >= 1
    BY <1>2, ReceiveMoves
  <2>2. /\ chatBudget \in Bucket /\ chatBudget.at <= second /\ chatBudget.tokens \in Nat /\ chatBudget.at \in Nat
        /\ second \in Nat /\ tally.accepted \in Nat
    BY DEF InputTyped, Bucket, Tally
  <2>3. /\ chat \in Bucket /\ Spent(chat) \in Bucket /\ Spent(chat).at = second
        /\ chat.tokens <= chatBudget.tokens + (second - chatBudget.at) * ChatRate
        /\ Spent(chat).tokens <= chat.tokens
        /\ chat.tokens >= 1 => Spent(chat).tokens = chat.tokens - 1
    BY <2>2, RefilledTypes, InputNumbers
  <2> HIDE DEF chat
  <2>4. chat.tokens \in Nat /\ Spent(chat).tokens \in Nat
    BY <2>3 DEF Bucket
  <2>5. /\ ChatRate * second \in Int /\ ChatRate * chatBudget.at \in Int
        /\ (second - chatBudget.at) * ChatRate = ChatRate * second - ChatRate * chatBudget.at
    <3>1. /\ (second - chatBudget.at) * ChatRate = ChatRate * (second - chatBudget.at)
          /\ ChatRate * (second - chatBudget.at) = ChatRate * second - ChatRate * chatBudget.at
          /\ ChatRate * second \in Int /\ ChatRate * chatBudget.at \in Int
      BY <2>2, InputNumbers, Rates
    <3>2. QED
      BY <3>1
  <2>6. tally.accepted + chat.tokens <= ChatBurst + ChatRate * second
    <3> DEFINE x == ChatRate * second
    <3> DEFINE y == ChatRate * chatBudget.at
    <3>1. x \in Int /\ y \in Int /\ chat.tokens <= chatBudget.tokens + (x - y)
          /\ tally.accepted + chatBudget.tokens <= ChatBurst + y
      BY <2>3, <2>5 DEF BudgetCovers
    <3> HIDE DEF x, y
    <3>2. tally.accepted + chat.tokens <= ChatBurst + x
      BY <2>2, <2>4, <3>1, InputNumbers
    <3>3. QED
      BY <3>2 DEF x
  <2>7. CASE chatBudget' = Spent(chat)
    <3> DEFINE x == ChatRate * second
    <3>1. x \in Int /\ tally.accepted + chat.tokens <= ChatBurst + x
      BY <2>5, <2>6
    <3> HIDE DEF x
    <3>2. tally'.accepted + Spent(chat).tokens <= ChatBurst + x
      <4>1. CASE tally'.accepted = tally.accepted
        BY <2>2, <2>3, <2>4, <3>1, <4>1, InputNumbers
      <4>2. CASE tally'.accepted = tally.accepted + 1 /\ chat.tokens >= 1
        BY <2>2, <2>3, <2>4, <3>1, <4>2, InputNumbers
      <4>3. QED
        BY <2>1, <4>1, <4>2
    <3>3. QED
      BY <2>3, <2>7, <3>2 DEF x, BudgetCovers
  <2>8. QED
    BY <1>1, <2>1, <2>7
<1>3. ASSUME NEW w \in Wire, \/ OpenWire(w) \/ Count(w) \/ WriteRecord(w) \/ CloseWire(w) \/ FinishWire(w)
                              \/ FlushWindows(w) \/ \E r \in Reason : WriteRest(w, r)
      PROVE  chatBudget' = chatBudget /\ tally'.accepted = tally.accepted
  <2>1. CASE OpenWire(w)
    BY <2>1 DEF OpenWire, KeepsChat
  <2>2. CASE Count(w)
    BY <2>2, CountMoves
  <2>3. CASE WriteRecord(w)
    BY <2>3, WriteMoves DEF Settles
  <2>4. CASE CloseWire(w) \/ FinishWire(w)
    BY <2>4, CloseMoves
  <2>5. CASE FlushWindows(w)
    BY <2>5, FlushMoves
  <2>6. ASSUME NEW r \in Reason, WriteRest(w, r) PROVE chatBudget' = chatBudget /\ tally'.accepted = tally.accepted
    BY <2>6, RestMoves DEF Settles
  <2>7. QED
    BY <1>3, <2>1, <2>2, <2>3, <2>4, <2>5, <2>6
<1>4. CASE SecondPasses \/ UNCHANGED inputVars
  BY <1>1, <1>4 DEF SecondPasses, inputVars
<1>5. QED
  BY <1>1, <1>2, <1>3, <1>4 DEF InputNext

\* Nobody is registered, and no flush is to come.
LEMMA StraysStep ==
    ASSUME InputTyped, InputTyped', WiresFit, LeftByStrays, [InputNext]_inputVars
    PROVE  LeftByStrays'
<1> SUFFICES ASSUME registered' = 0, \A v \in Wire : wires'[v].phase # "closing", NEW q \in Reason
             PROVE  windows'[q].occurrences <= tally'.strays
  BY DEF LeftByStrays
<1>1. /\ windows \in [Reason -> RefusalWindow] /\ tally.strays \in Nat /\ 0 \notin Wire
      /\ \A r \in Reason : windows[r].occurrences \in Nat
  BY InputNumbers DEF InputTyped, RefusalWindow, Tally
<1>2. ASSUME registered = 0, \A v \in Wire : wires[v].phase # "closing", windows'[q] = windows[q], tally.strays <= tally'.strays
      PROVE  windows'[q].occurrences <= tally'.strays
  <2>1. windows[q].occurrences <= tally.strays
    BY <1>2 DEF LeftByStrays
  <2>2. tally'.strays \in Nat
    BY DEF InputTyped, Tally
  <2>3. QED
    BY <1>1, <1>2, <2>1, <2>2
<1>3. CASE SecondPasses \/ UNCHANGED inputVars
  BY <1>1, <1>3 DEF SecondPasses, inputVars, LeftByStrays
<1>4. ASSUME NEW w \in Wire, OpenWire(w) PROVE FALSE
  BY <1>1, <1>4, OpenMoves
<1>5. ASSUME NEW w \in Wire, NEW kind \in {"chat", "bad", "other"}, Receive(w, kind)
      PROVE  windows'[q].occurrences <= tally'.strays
  <2>1. /\ \A v \in Wire \ {w} : wires'[v] = wires[v]
        /\ wires[w].phase = "reading" /\ registered = 0 /\ windows' = windows /\ tally'.strays = tally.strays
    BY <1>5, ReceiveMoves DEF WireOnly
  <2>2. \A v \in Wire : wires[v].phase # "closing"
    BY <2>1
  <2>3. QED
    BY <1>1, <1>2, <2>1, <2>2
<1>6. ASSUME NEW w \in Wire, Count(w) PROVE windows'[q].occurrences <= tally'.strays
  <2>1. PICK r \in Reason :
           /\ \A v \in Wire \ {w} : wires'[v] = wires[v]
           /\ wires[w].phase = "counting" /\ registered = 0
           /\ \/ windows' = [windows EXCEPT ![r] = Emptied(r)]
              \/ windows' = [windows EXCEPT ![r].occurrences = windows[r].occurrences + 1]
           /\ tally'.strays = IF registered = w THEN tally.strays ELSE tally.strays + 1
    BY <1>6, CountMoves DEF WireOnly
  <2>2. (\A v \in Wire : wires[v].phase # "closing") /\ tally'.strays = tally.strays + 1
    BY <1>1, <2>1
  <2>3. windows[q].occurrences <= tally.strays
    BY <2>1, <2>2 DEF LeftByStrays
  <2>4. windows'[q].occurrences \in {windows[q].occurrences, 0, windows[q].occurrences + 1}
    BY <1>1, <2>1 DEF Emptied, RefusalWindow
  <2>5. QED
    BY <1>1, <2>2, <2>3, <2>4
<1>7. ASSUME NEW w \in Wire, WriteRecord(w) PROVE windows'[q].occurrences <= tally'.strays
  <2>1. /\ \A v \in Wire \ {w} : wires'[v] = wires[v]
        /\ wires[w].phase = "writing" /\ registered = 0 /\ windows' = windows /\ tally'.strays = tally.strays
    BY <1>7, WriteMoves DEF WireOnly, Settles
  <2>2. \A v \in Wire : wires[v].phase # "closing"
    BY <2>1
  <2>3. QED
    BY <1>1, <1>2, <2>1, <2>2
<1>8. ASSUME NEW w \in Wire, CloseWire(w) \/ FinishWire(w) PROVE windows'[q].occurrences <= tally'.strays
  <2>1. /\ \A v \in Wire \ {w} : wires'[v] = wires[v]
        /\ wires[w].phase \in {"reading", "flushing"} /\ registered = 0 /\ windows' = windows /\ tally' = tally
    BY <1>1, <1>8, CloseMoves DEF WireOnly
  <2>2. \A v \in Wire : wires[v].phase # "closing"
    BY <2>1
  <2>3. QED
    BY <1>1, <1>2, <2>1, <2>2
<1>9. ASSUME NEW w \in Wire, FlushWindows(w) PROVE windows'[q].occurrences <= tally'.strays
  <2>1. windows'[q] = NoWindow /\ tally'.strays = tally.strays
    BY <1>9, FlushMoves
  <2>2. QED
    BY <1>1, <2>1 DEF NoWindow
<1>10. ASSUME NEW w \in Wire, NEW r \in Reason, WriteRest(w, r) PROVE windows'[q].occurrences <= tally'.strays
  <2>1. /\ \A v \in Wire \ {w} : wires'[v] = wires[v]
        /\ wires[w].phase = "flushing" /\ registered = 0 /\ windows' = windows /\ tally'.strays = tally.strays
    BY <1>10, RestMoves DEF Settles
  <2>2. \A v \in Wire : wires[v].phase # "closing"
    BY <2>1
  <2>3. QED
    BY <1>1, <1>2, <2>1, <2>2
<1>11. QED
  BY <1>3, <1>4, <1>5, <1>6, <1>7, <1>8, <1>9, <1>10 DEF InputNext

-----------------------------------------------------------------------------
(* Every rejection is somewhere.                                           *)

\* What one socket has in hand after a step.
LEMMA HandTypesThen ==
    ASSUME InputTyped', NEW w \in Wire, NEW r \in Reason
    PROVE  /\ wires'[w].rest[r] \in Nat /\ wires'[w].count \in Nat /\ InHand(w, r)' \in Nat
           /\ wires'[w].phase \notin {"counting", "writing"} => InHand(w, r)' = wires'[w].rest[r]
           /\ wires'[w].phase = "counting" => InHand(w, r)' = (IF wires'[w].reason = r THEN 1 ELSE 0) + wires'[w].rest[r]
           /\ wires'[w].phase = "writing" =>
                InHand(w, r)' = (IF wires'[w].reason = r THEN wires'[w].count ELSE 0) + wires'[w].rest[r]
<1>1. wires'[w] \in WireState
  BY DEF InputTyped
<1>2. wires'[w].rest[r] \in Nat /\ wires'[w].count \in Nat
  BY <1>1 DEF WireState
<1>3. QED
  BY <1>1, <1>2 DEF InHand

\* What leaves one place arrives at another.
LEMMA SumsHold ==
    ASSUME InputTyped, InputTyped', RejectionsAddUp, NEW w \in Wire, \A v \in Wire \ {w} : wires'[v] = wires[v],
           \A q \in Reason :
               tally'.rejected[q] + tally.recorded[q] + tally.lost[q] + windows[q].occurrences + InHand(w, q)
                 = tally.rejected[q] + tally'.recorded[q] + tally'.lost[q] + windows'[q].occurrences + InHand(w, q)'
    PROVE  RejectionsAddUp'
<1> SUFFICES ASSUME NEW q \in Reason
             PROVE  tally'.rejected[q]
                      = tally'.recorded[q] + tally'.lost[q] + windows'[q].occurrences + TotalInHand(q)'
  BY DEF RejectionsAddUp
<1>1. /\ tally.rejected[q] \in Nat /\ tally.recorded[q] \in Nat /\ tally.lost[q] \in Nat /\ windows[q].occurrences \in Nat
      /\ InHand(w, q) \in Nat
  BY HandTypes DEF InputTyped, Tally, RefusalWindow
<1>2. /\ tally'.rejected[q] \in Nat /\ tally'.recorded[q] \in Nat /\ tally'.lost[q] \in Nat /\ windows'[q].occurrences \in Nat
  BY DEF InputTyped, Tally, RefusalWindow
<1>3. InHand(w, q)' \in Nat
  BY HandTypesThen
<1>4. TotalInHand(q) \in Nat /\ TotalInHand(q)' = TotalInHand(q) - InHand(w, q) + InHand(w, q)'
  BY TotalMoves
<1>5. tally.rejected[q] = tally.recorded[q] + tally.lost[q] + windows[q].occurrences + TotalInHand(q)
  BY DEF RejectionsAddUp
<1>6. tally'.rejected[q] + tally.recorded[q] + tally.lost[q] + windows[q].occurrences + InHand(w, q)
        = tally.rejected[q] + tally'.recorded[q] + tally'.lost[q] + windows'[q].occurrences + InHand(w, q)'
  OBVIOUS
<1> DEFINE h == InHand(w, q)
<1> DEFINE k == InHand(w, q)'
<1> DEFINE t == TotalInHand(q)
<1> DEFINE u == TotalInHand(q)'
<1> DEFINE a == tally.rejected[q]
<1> DEFINE b == tally.recorded[q]
<1> DEFINE c == tally.lost[q]
<1> DEFINE d == windows[q].occurrences
<1> DEFINE aa == tally'.rejected[q]
<1> DEFINE bb == tally'.recorded[q]
<1> DEFINE cc == tally'.lost[q]
<1> DEFINE dd == windows'[q].occurrences
<1>7. /\ h \in Nat /\ k \in Nat /\ t \in Nat /\ u = t - h + k
      /\ a \in Nat /\ b \in Nat /\ c \in Nat /\ d \in Nat /\ aa \in Nat /\ bb \in Nat /\ cc \in Nat /\ dd \in Nat
      /\ a = b + c + d + t /\ aa + b + c + d + h = a + bb + cc + dd + k
  BY <1>1, <1>2, <1>3, <1>4, <1>5, <1>6
<1> HIDE DEF h, k, t, u, a, b, c, d, aa, bb, cc, dd
<1>8. aa = bb + cc + dd + u
  BY <1>7
<1>9. QED
  BY <1>8 DEF u, aa, bb, cc, dd

\* Every step moves a rejection from one place to the next.
LEMMA SumsStep ==
    ASSUME InputTyped, InputTyped', WiresFit, RejectionsAddUp, [InputNext]_inputVars
    PROVE  RejectionsAddUp'
<1>1. /\ tally.rejected \in [Reason -> Nat] /\ tally.recorded \in [Reason -> Nat] /\ tally.lost \in [Reason -> Nat]
      /\ windows \in [Reason -> RefusalWindow] /\ \A q \in Reason : windows[q].occurrences \in Nat
      /\ \A q \in Reason : tally.rejected[q] \in Nat /\ tally.recorded[q] \in Nat /\ tally.lost[q] \in Nat
  BY DEF InputTyped, Tally, RefusalWindow
<1>2. CASE SecondPasses \/ UNCHANGED inputVars
  <2>1. UNCHANGED <<wires, tally, windows>>
    BY <1>2 DEF SecondPasses, inputVars
  <2>2. QED
    BY <2>1 DEF RejectionsAddUp, TotalInHand, InHand
<1>3. ASSUME NEW w \in Wire, UNCHANGED <<tally, windows>>, \A v \in Wire \ {w} : wires'[v] = wires[v],
             \A q \in Reason : InHand(w, q)' = InHand(w, q)
      PROVE  RejectionsAddUp'
  BY <1>3, SumsHold
<1>4. ASSUME NEW w \in Wire, WireOnly(w)
      PROVE  (\A v \in Wire \ {w} : wires'[v] = wires[v]) /\ \A q \in Reason : wires'[w].rest[q] = wires[w].rest[q]
  BY <1>4 DEF WireOnly
<1>5. ASSUME NEW w \in Wire, OpenWire(w) PROVE RejectionsAddUp'
  <2>1. WireOnly(w) /\ wires[w].phase = "none" /\ wires'[w].phase = "reading" /\ UNCHANGED <<tally, windows>>
    BY <1>5, OpenMoves
  <2>2. QED
    BY <1>3, <1>4, <2>1, HandTypes, HandTypesThen
<1>6. ASSUME NEW w \in Wire, NEW kind \in {"chat", "bad", "other"}, Receive(w, kind) PROVE RejectionsAddUp'
  <2>1. /\ WireOnly(w) /\ wires[w].phase = "reading" /\ windows' = windows
        /\ \/ wires'[w].phase = "reading" /\ tally'.rejected = tally.rejected
           \/ /\ wires'[w].phase = "counting" /\ wires'[w].reason \in Reason
              /\ tally'.rejected = [tally.rejected EXCEPT ![wires'[w].reason] = @ + 1]
        /\ tally'.recorded = tally.recorded /\ tally'.lost = tally.lost
    BY <1>6, ReceiveMoves
  <2>2. ASSUME NEW q \in Reason
        PROVE  tally'.rejected[q] + tally.recorded[q] + tally.lost[q] + windows[q].occurrences + InHand(w, q)
                 = tally.rejected[q] + tally'.recorded[q] + tally'.lost[q] + windows'[q].occurrences + InHand(w, q)'
    <3>1. InHand(w, q) = wires[w].rest[q] /\ wires'[w].rest[q] = wires[w].rest[q] /\ wires[w].rest[q] \in Nat
      BY <1>4, <2>1, HandTypes
    <3>2. CASE wires'[w].phase = "reading" /\ tally'.rejected = tally.rejected
      <4>1. InHand(w, q)' = wires[w].rest[q]
        BY <3>1, <3>2, HandTypesThen
      <4>2. QED
        BY <1>1, <2>1, <3>1, <3>2, <4>1
    <3>3. CASE /\ wires'[w].phase = "counting" /\ wires'[w].reason \in Reason
               /\ tally'.rejected = [tally.rejected EXCEPT ![wires'[w].reason] = @ + 1]
      <4>1. InHand(w, q)' = (IF wires'[w].reason = q THEN 1 ELSE 0) + wires[w].rest[q]
        BY <3>1, <3>3, HandTypesThen
      <4>2. tally'.rejected[q] = (IF wires'[w].reason = q THEN 1 ELSE 0) + tally.rejected[q]
        BY <1>1, <3>3
      <4>3. QED
        BY <1>1, <2>1, <3>1, <4>1, <4>2
    <3>4. QED
      BY <2>1, <3>2, <3>3
  <2>3. QED
    BY <1>4, <2>1, <2>2, SumsHold
<1>7. ASSUME NEW w \in Wire, Count(w) PROVE RejectionsAddUp'
  <2>1. PICK r \in Reason :
             /\ WireOnly(w) /\ wires[w].phase = "counting" /\ wires[w].reason = r
             /\ \/ /\ wires'[w].phase = "writing" /\ wires'[w].reason = r
                   /\ wires'[w].count = windows[r].occurrences + 1
                   /\ windows' = [windows EXCEPT ![r] = Emptied(r)]
                \/ /\ wires'[w].phase = "reading"
                   /\ windows' = [windows EXCEPT ![r].occurrences = windows[r].occurrences + 1]
             /\ tally'.rejected = tally.rejected /\ tally'.recorded = tally.recorded /\ tally'.lost = tally.lost
    BY <1>7, CountMoves
  <2>2. ASSUME NEW q \in Reason PROVE windows'[q].occurrences + InHand(w, q)' = windows[q].occurrences + InHand(w, q)
    <3>1. /\ InHand(w, q) = (IF r = q THEN 1 ELSE 0) + wires[w].rest[q]
          /\ wires'[w].rest[q] = wires[w].rest[q] /\ wires[w].rest[q] \in Nat
      BY <1>4, <2>1, HandTypes
    <3>2. CASE /\ wires'[w].phase = "writing" /\ wires'[w].reason = r
               /\ wires'[w].count = windows[r].occurrences + 1 /\ windows' = [windows EXCEPT ![r] = Emptied(r)]
      <4>1. InHand(w, q)' = (IF r = q THEN windows[r].occurrences + 1 ELSE 0) + wires[w].rest[q]
        BY <3>1, <3>2, HandTypesThen
      <4>2. windows'[q].occurrences = IF r = q THEN 0 ELSE windows[q].occurrences
        BY <1>1, <3>2 DEF Emptied
      <4>3. PICK o \in Nat : o = windows[q].occurrences
        BY <1>1 DEF RefusalWindow
      <4>4. PICK t \in Nat : t = wires[w].rest[q]
        BY <3>1
      <4>5. CASE r = q
        BY <3>1, <4>1, <4>2, <4>3, <4>4, <4>5
      <4>6. CASE r # q
        BY <3>1, <4>1, <4>2, <4>3, <4>4, <4>6
      <4>7. QED
        BY <4>5, <4>6
    <3>3. CASE /\ wires'[w].phase = "reading"
               /\ windows' = [windows EXCEPT ![r].occurrences = windows[r].occurrences + 1]
      <4>1. InHand(w, q)' = wires[w].rest[q]
        BY <3>1, <3>3, HandTypesThen
      <4>2. windows'[q].occurrences = IF r = q THEN windows[q].occurrences + 1 ELSE windows[q].occurrences
        BY <1>1, <3>3 DEF RefusalWindow
      <4>3. PICK o \in Nat : o = windows[q].occurrences
        BY <1>1 DEF RefusalWindow
      <4>4. PICK t \in Nat : t = wires[w].rest[q]
        BY <3>1
      <4>5. CASE r = q
        BY <3>1, <4>1, <4>2, <4>3, <4>4, <4>5
      <4>6. CASE r # q
        BY <3>1, <4>1, <4>2, <4>3, <4>4, <4>6
      <4>7. QED
        BY <4>5, <4>6
    <3>4. QED
      BY <2>1, <3>2, <3>3
  <2>3. \A q \in Reason : /\ InHand(w, q) \in Nat /\ InHand(w, q)' \in Nat /\ windows'[q].occurrences \in Nat
    BY HandTypes, HandTypesThen DEF InputTyped, RefusalWindow
  <2>4. ASSUME NEW q \in Reason
        PROVE  tally'.rejected[q] + tally.recorded[q] + tally.lost[q] + windows[q].occurrences + InHand(w, q)
                 = tally.rejected[q] + tally'.recorded[q] + tally'.lost[q] + windows'[q].occurrences + InHand(w, q)'
    <3> DEFINE h == InHand(w, q)
    <3> DEFINE k == InHand(w, q)'
    <3> DEFINE a == tally.rejected[q]
    <3> DEFINE b == tally.recorded[q]
    <3> DEFINE c == tally.lost[q]
    <3> DEFINE d == windows[q].occurrences
    <3> DEFINE dd == windows'[q].occurrences
    <3>1. /\ h \in Nat /\ k \in Nat /\ dd \in Nat /\ dd + k = d + h
          /\ a \in Nat /\ b \in Nat /\ c \in Nat /\ d \in Nat
      BY <1>1, <2>2, <2>3
    <3>2. tally'.rejected[q] = a /\ tally'.recorded[q] = b /\ tally'.lost[q] = c
      BY <2>1
    <3> HIDE DEF h, k, a, b, c, d, dd
    <3>3. a + b + c + d + h = a + b + c + dd + k
      BY <3>1
    <3>4. QED
      BY <3>2, <3>3 DEF h, k, a, b, c, d, dd
  <2>5. QED
    BY <1>4, <2>1, <2>4, SumsHold
<1>8. ASSUME NEW w \in Wire, NEW r \in Reason, NEW n \in Nat, Settles(r, n), windows' = windows,
             \A v \in Wire \ {w} : wires'[v] = wires[v],
             \A q \in Reason : InHand(w, q) = InHand(w, q)' + IF q = r THEN n ELSE 0
      PROVE  RejectionsAddUp'
  <2>1. ASSUME NEW q \in Reason
        PROVE  tally'.rejected[q] + tally.recorded[q] + tally.lost[q] + windows[q].occurrences + InHand(w, q)
                 = tally.rejected[q] + tally'.recorded[q] + tally'.lost[q] + windows'[q].occurrences + InHand(w, q)'
    <3>1. /\ tally'.rejected[q] = tally.rejected[q]
          /\ \/ tally'.recorded[q] = tally.recorded[q] + (IF q = r THEN n ELSE 0) /\ tally'.lost[q] = tally.lost[q]
             \/ tally'.recorded[q] = tally.recorded[q] /\ tally'.lost[q] = tally.lost[q] + (IF q = r THEN n ELSE 0)
      BY <1>1, <1>8 DEF Settles
    <3>2. InHand(w, q)' \in Nat
      BY HandTypesThen
    <3>3. PICK m \in Nat : m = IF q = r THEN n ELSE 0
      OBVIOUS
    <3>4. InHand(w, q) = InHand(w, q)' + m
      BY <1>8, <3>3
    <3>5. QED
      BY <1>1, <1>8, <3>1, <3>2, <3>3, <3>4
  <2>2. QED
    BY <1>8, <2>1, SumsHold
<1>9. ASSUME NEW w \in Wire, WriteRecord(w) PROVE RejectionsAddUp'
  <2>1. PICK r \in Reason :
             /\ WireOnly(w) /\ wires[w].phase = "writing" /\ wires[w].reason = r
             /\ wires'[w].phase = "reading" /\ Settles(r, wires[w].count) /\ windows' = windows
    BY <1>9, WriteMoves
  <2>2. \A q \in Reason : /\ InHand(w, q) = (IF r = q THEN wires[w].count ELSE 0) + wires[w].rest[q]
                         /\ InHand(w, q)' = wires[w].rest[q] /\ wires[w].rest[q] \in Nat /\ wires[w].count \in Nat
    BY <1>4, <2>1, HandTypes, HandTypesThen
  <2>3. \A q \in Reason : InHand(w, q) = InHand(w, q)' + IF q = r THEN wires[w].count ELSE 0
    BY <2>2
  <2>4. wires[w].count \in Nat
    BY <2>1, HandTypes
  <2>5. QED
    BY <1>4, <1>8, <2>1, <2>3, <2>4
<1>10. ASSUME NEW w \in Wire, CloseWire(w) \/ FinishWire(w) PROVE RejectionsAddUp'
  <2>1. /\ WireOnly(w) /\ UNCHANGED <<windows, tally>>
        /\ wires[w].phase \in {"reading", "flushing"} /\ wires'[w].phase \in {"closing", "gone"}
    BY <1>10, CloseMoves
  <2>2. \A q \in Reason : InHand(w, q) = wires[w].rest[q] /\ InHand(w, q)' = wires[w].rest[q]
    BY <1>4, <2>1, HandTypes, HandTypesThen
  <2>3. QED
    BY <1>3, <1>4, <2>1, <2>2
<1>11. ASSUME NEW w \in Wire, FlushWindows(w) PROVE RejectionsAddUp'
  <2>1. /\ \A v \in Wire \ {w} : wires'[v] = wires[v]
        /\ wires[w].phase = "closing" /\ wires'[w].phase = "flushing"
        /\ \A r \in Reason : wires'[w].rest[r] = windows[r].occurrences /\ windows'[r] = NoWindow
        /\ tally'.rejected = tally.rejected /\ tally'.recorded = tally.recorded /\ tally'.lost = tally.lost
    BY <1>11, FlushMoves
  <2>2. \A q \in Reason : /\ InHand(w, q) = 0 /\ InHand(w, q)' = windows[q].occurrences
                         /\ windows'[q].occurrences = 0
    BY <2>1, HandTypes, HandTypesThen DEF WiresFit, NoWindow
  <2>3. QED
    BY <1>1, <2>1, <2>2, SumsHold
<1>12. ASSUME NEW w \in Wire, NEW r \in Reason, WriteRest(w, r) PROVE RejectionsAddUp'
  <2>1. /\ \A v \in Wire \ {w} : wires'[v] = wires[v]
        /\ wires[w].phase = "flushing" /\ wires'[w].phase = "flushing"
        /\ wires'[w].rest[r] = 0 /\ \A q \in Reason \ {r} : wires'[w].rest[q] = wires[w].rest[q]
        /\ Settles(r, wires[w].rest[r]) /\ windows' = windows
    BY <1>12, RestMoves
  <2>2. \A q \in Reason : /\ InHand(w, q) = wires[w].rest[q] /\ InHand(w, q)' = wires'[w].rest[q]
                         /\ wires[w].rest[q] \in Nat
    BY <2>1, HandTypes, HandTypesThen
  <2>3. \A q \in Reason : InHand(w, q) = InHand(w, q)' + IF q = r THEN wires[w].rest[r] ELSE 0
    BY <2>1, <2>2
  <2>4. QED
    BY <1>8, <2>1, <2>2, <2>3
<1>13. QED
  BY <1>2, <1>5, <1>6, <1>7, <1>9, <1>10, <1>11, <1>12 DEF InputNext

-----------------------------------------------------------------------------
(* The records are far apart.                                              *)

\* The sockets that owe a record, as one of them moves.
LEMMA OwingMoves ==
    ASSUME InputTyped, InputTyped', NEW w \in Wire, \A v \in Wire \ {w} : wires'[v] = wires[v], NEW r \in Reason
    PROVE  /\ Cardinality(Owing(r)) \in Nat /\ Cardinality(Owing(r)') \in Nat
           /\ w \in Owing(r) /\ w \notin Owing(r)' => Cardinality(Owing(r)') = Cardinality(Owing(r)) - 1
           /\ w \notin Owing(r) /\ w \in Owing(r)' => Cardinality(Owing(r)') = Cardinality(Owing(r)) + 1
           /\ (w \in Owing(r) <=> w \in Owing(r)') => Cardinality(Owing(r)') = Cardinality(Owing(r))
<1>1. PICK S : S = Owing(r)
  OBVIOUS
<1>2. PICK T : T = Owing(r)'
  OBVIOUS
<1>3. S \subseteq Wire /\ T \subseteq Wire /\ \A v \in Wire \ {w} : v \in S <=> v \in T
  BY <1>1, <1>2 DEF Owing
<1>4. /\ IsFiniteSet(S) /\ IsFiniteSet(T) /\ Cardinality(S) \in Nat /\ Cardinality(T) \in Nat
  BY <1>3, InputNumbers, FS_Subset, FS_CardinalityType
<1>5. CASE w \in S /\ w \notin T
  <2>1. T = S \ {w}
    BY <1>3, <1>5
  <2>2. Cardinality(T) = Cardinality(S) - 1
    BY <1>4, <1>5, <2>1, FS_RemoveElement
  <2>3. QED
    BY <1>1, <1>2, <1>4, <1>5, <2>2
<1>6. CASE w \notin S /\ w \in T
  <2>1. T = S \cup {w}
    BY <1>3, <1>6
  <2>2. Cardinality(T) = Cardinality(S) + 1
    BY <1>4, <1>6, <2>1, FS_AddElement
  <2>3. QED
    BY <1>1, <1>2, <1>4, <1>6, <2>2
<1>7. CASE w \in S <=> w \in T
  <2>1. T = S
    BY <1>3, <1>7
  <2>2. QED
    BY <1>1, <1>2, <1>4, <1>7, <2>1
<1>8. QED
  BY <1>5, <1>6, <1>7

\* Whether a socket owes a record, by its phase.
LEMMA OwesWhen ==
    ASSUME InputTyped, WiresFit, NEW w \in Wire, NEW r \in Reason
    PROVE  /\ wires[w].phase = "flushing" => (w \in Owing(r) <=> wires[w].rest[r] > 0)
           /\ wires[w].phase # "flushing" => (w \in Owing(r) <=> wires[w].phase = "writing" /\ wires[w].reason = r)
<1>1. wires[w].phase # "flushing" => wires[w].rest[r] = 0
  BY DEF WiresFit
<1>2. w \in Owing(r) <=> (wires[w].phase = "writing" /\ wires[w].reason = r) \/ wires[w].rest[r] > 0
  BY DEF Owing
<1>3. QED
  BY <1>1, <1>2

\* And after a step.
LEMMA OwesWhenThen ==
    ASSUME InputTyped', WiresFit', NEW w \in Wire, NEW r \in Reason
    PROVE  /\ wires'[w].phase = "flushing" => (w \in Owing(r)' <=> wires'[w].rest[r] > 0)
           /\ wires'[w].phase # "flushing" => (w \in Owing(r)' <=> wires'[w].phase = "writing" /\ wires'[w].reason = r)
<1>1. wires'[w].phase # "flushing" => wires'[w].rest[r] = 0
  BY DEF WiresFit
<1>2. w \in Owing(r)' <=> (wires'[w].phase = "writing" /\ wires'[w].reason = r) \/ wires'[w].rest[r] > 0
  BY DEF Owing
<1>3. QED
  BY <1>1, <1>2

\* The balance of one reason.
Spaced(r) ==
    IF windows[r].open THEN Window * (Records(r) - 1) <= windows[r].persisted
    ELSE Window * Records(r) <= second

\* A reason stays spaced when no record is added, when one is added that was
\* due, and when a flush, which has two of its own, adds one.
LEMMA SpacingHolds ==
    ASSUME InputTyped, InputTyped', NEW r \in Reason, Spaced(r), Records(r) \in Int, Records(r)' \in Int,
           \/ Records(r)' <= Records(r) /\ windows'[r].open = windows[r].open
              /\ windows'[r].persisted = windows[r].persisted /\ second' >= second
           \/ Records(r)' <= Records(r) + 1 /\ Due(r) /\ windows'[r] = Emptied(r) /\ second' = second
           \/ Records(r)' <= Records(r) - 1 /\ windows'[r] = NoWindow /\ second' = second
    PROVE  Spaced(r)'
<1>1. PICK m \in Int : m = Records(r)
  OBVIOUS
<1>2. PICK n \in Int : n = Records(r)'
  OBVIOUS
<1>3. /\ second \in Nat /\ second' \in Nat /\ windows[r] \in RefusalWindow
      /\ windows[r].open \in BOOLEAN /\ windows[r].persisted \in Nat /\ windows[r].persisted <= second
  BY DEF InputTyped, RefusalWindow
<1>4. /\ Window \in Nat /\ Window * m \in Int /\ Window * n \in Int /\ Window * (n - 1) \in Int
      /\ Window * (m - 1) = Window * m - Window /\ Window * (n - 1) = Window * n - Window
  <2>1. Window \in Nat
    BY InputNumbers
  <2>2. /\ Window * m \in Int /\ Window * n \in Int /\ Window * (n - 1) \in Int
        /\ Window * (m - 1) = Window * m - Window * 1 /\ Window * (n - 1) = Window * n - Window * 1
    BY <2>1, Rates
  <2>3. QED
    BY <2>1, <2>2
<1>5. \A k \in Int : n <= k => Window * n <= Window * k
  BY InputNumbers, Rates
<1>6. /\ windows[r].open => Window * (m - 1) <= windows[r].persisted
      /\ ~windows[r].open => Window * m <= second
  BY <1>1 DEF Spaced
<1>7. SUFFICES /\ windows'[r].open => Window * (n - 1) <= windows'[r].persisted
               /\ ~windows'[r].open => Window * n <= second'
  BY <1>2 DEF Spaced
<1> DEFINE x == Window * m
<1> DEFINE y == Window * n
<1>8. /\ x \in Int /\ y \in Int
      /\ Window * (m - 1) = x - Window /\ Window * (n - 1) = y - Window /\ Window \in Nat
  BY <1>4
<1>9. CASE n <= m /\ windows'[r].open = windows[r].open /\ windows'[r].persisted = windows[r].persisted /\ second' >= second
  <2>1. y <= x
    BY <1>5, <1>9
  <2> HIDE DEF x, y
  <2>2. (windows[r].open => x - Window <= windows[r].persisted) /\ (~windows[r].open => x <= second)
    BY <1>6, <1>8 DEF x
  <2>3. (windows[r].open => y - Window <= windows[r].persisted) /\ (~windows[r].open => y <= second')
    BY <1>3, <1>8, <1>9, <2>1, <2>2
  <2>4. QED
    BY <1>8, <1>9, <2>3 DEF y
<1>10. CASE n <= m + 1 /\ Due(r) /\ windows'[r] = Emptied(r) /\ second' = second
  <2>1. y <= x + Window
    <3>1. Window * n <= Window * (m + 1)
      BY <1>5, <1>10
    <3>2. Window * (m + 1) = Window * m + Window
      BY InputNumbers, Rates
    <3>3. QED
      BY <3>1, <3>2
  <2> HIDE DEF x, y
  <2>2. (windows[r].open => x - Window <= windows[r].persisted) /\ (~windows[r].open => x <= second)
    BY <1>6, <1>8 DEF x
  <2>3. windows[r].open => windows[r].persisted <= second - Window
    BY <1>10 DEF Due
  <2>4. x <= second
    BY <1>3, <1>8, <2>2, <2>3
  <2>5. windows'[r].open = TRUE /\ windows'[r].persisted = second
    BY <1>10 DEF Emptied
  <2>6. y - Window <= second
    BY <1>3, <1>8, <2>1, <2>4
  <2>7. QED
    BY <1>8, <2>5, <2>6 DEF y
<1>11. CASE n <= m - 1 /\ windows'[r] = NoWindow /\ second' = second
  <2>1. y <= x - Window
    BY <1>4, <1>5, <1>11
  <2> HIDE DEF x, y
  <2>2. (windows[r].open => x - Window <= windows[r].persisted) /\ (~windows[r].open => x <= second)
    BY <1>6, <1>8 DEF x
  <2>3. y <= second'
    BY <1>3, <1>8, <1>11, <2>1, <2>2
  <2>4. QED
    BY <1>11, <2>3 DEF y, NoWindow
<1>12. QED
  BY <1>1, <1>2, <1>9, <1>10, <1>11

\* Records is a number.
LEMMA RecordsCount ==
    ASSUME InputTyped, InputTyped', NEW w \in Wire, \A v \in Wire \ {w} : wires'[v] = wires[v], NEW r \in Reason
    PROVE  /\ tally.records[r] \in Nat /\ tally.flushes \in Nat /\ tally'.records[r] \in Nat /\ tally'.flushes \in Nat
           /\ Records(r) \in Int /\ Records(r)' \in Int
           /\ Records(r) = tally.records[r] + Cardinality(Owing(r)) - 2 * tally.flushes
           /\ Records(r)' = tally'.records[r] + Cardinality(Owing(r)') - 2 * tally'.flushes
<1>1. tally.records[r] \in Nat /\ tally.flushes \in Nat /\ tally'.records[r] \in Nat /\ tally'.flushes \in Nat
  BY DEF InputTyped, Tally
<1>2. Cardinality(Owing(r)) \in Nat /\ Cardinality(Owing(r)') \in Nat
  BY OwingMoves
<1>3. QED
  BY <1>1, <1>2 DEF Records

\* Records move by the tally and by what one socket owes.
LEMMA RecordsMove ==
    ASSUME InputTyped, InputTyped', NEW w \in Wire, \A v \in Wire \ {w} : wires'[v] = wires[v], NEW r \in Reason
    PROVE  /\ Records(r) \in Int /\ Records(r)' \in Int
           /\ tally'.records[r] = tally.records[r] /\ tally'.flushes = tally.flushes =>
                /\ (w \in Owing(r) <=> w \in Owing(r)') => Records(r)' = Records(r)
                /\ w \notin Owing(r) => Records(r)' <= Records(r) + 1
                /\ w \notin Owing(r)' => Records(r)' <= Records(r)
           /\ tally'.records[r] <= tally.records[r] + 1 /\ tally'.flushes = tally.flushes =>
                (w \in Owing(r) /\ w \notin Owing(r)' => Records(r)' <= Records(r))
           /\ tally'.records[r] = tally.records[r] /\ tally'.flushes = tally.flushes + 1 =>
                (w \notin Owing(r) => Records(r)' <= Records(r) - 1)
<1> DEFINE m == Cardinality(Owing(r))
<1> DEFINE n == Cardinality(Owing(r)')
<1> DEFINE a == tally.records[r]
<1> DEFINE b == tally'.records[r]
<1> DEFINE f == tally.flushes
<1> DEFINE g == tally'.flushes
<1> DEFINE before == w \in Owing(r)
<1> DEFINE after == w \in Owing(r)'
<1> DEFINE x == Records(r)
<1> DEFINE y == Records(r)'
<1>1. /\ a \in Nat /\ b \in Nat /\ f \in Nat /\ g \in Nat /\ x \in Int /\ y \in Int
      /\ x = a + m - 2 * f /\ y = b + n - 2 * g
  BY RecordsCount
<1>2. /\ m \in Nat /\ n \in Nat /\ (before /\ ~after => n = m - 1) /\ (~before /\ after => n = m + 1)
      /\ (before <=> after) => n = m
  BY OwingMoves
<1>3. before \in BOOLEAN /\ after \in BOOLEAN
  OBVIOUS
<1> HIDE DEF m, n, a, b, f, g, before, after, x, y
<1>4. /\ b = a /\ g = f =>
            /\ (before <=> after) => y = x
            /\ ~before => y <= x + 1
            /\ ~after => y <= x
      /\ b <= a + 1 /\ g = f => (before /\ ~after => y <= x)
      /\ b = a /\ g = f + 1 => (~before => y <= x - 1)
  BY <1>1, <1>2, <1>3
<1>5. QED
  BY <1>1, <1>4 DEF m, n, a, b, f, g, before, after, x, y

\* Every step keeps the records apart.
LEMMA SpacingStep ==
    ASSUME InputTyped, InputTyped', WiresFit, WiresFit', RecordsAreSpaced, [InputNext]_inputVars
    PROVE  RecordsAreSpaced'
<1>1. /\ windows \in [Reason -> RefusalWindow] /\ second \in Nat
      /\ tally.records \in [Reason -> Nat] /\ \A q \in Reason : tally.records[q] \in Nat
      /\ \A q \in Reason : tally'.records[q] \in Nat
  BY DEF InputTyped, Tally
<1>2. \A q \in Reason : Spaced(q)
  BY DEF RecordsAreSpaced, Spaced
<1>3. SUFFICES ASSUME NEW q \in Reason PROVE Spaced(q)'
  BY DEF RecordsAreSpaced, Spaced
<1>4. CASE SecondPasses \/ UNCHANGED inputVars
  <2>1. UNCHANGED <<wires, tally, windows>> /\ second' \in {second, second + 1}
    BY <1>4 DEF SecondPasses, inputVars
  <2>2. Records(q)' = Records(q)
    BY <2>1 DEF Records, Owing
  <2>3. CASE windows[q].open
    BY <1>2, <2>1, <2>2, <2>3 DEF Spaced
  <2>4. CASE ~windows[q].open
    <3>1. PICK x : x = Window * Records(q)
      OBVIOUS
    <3>2. x <= second
      BY <1>2, <2>4, <3>1 DEF Spaced
    <3>3. Records(q) \in Int
      <4>1. CASE Wire = {}
        <5>1. Owing(q) = {}
          BY <4>1 DEF Owing
        <5>2. Cardinality(Owing(q)) = 0
          BY <5>1, FS_EmptySet
        <5>3. tally.records[q] \in Nat /\ tally.flushes \in Nat
          BY DEF InputTyped, Tally
        <5>4. QED
          BY <5>2, <5>3 DEF Records
      <4>2. ASSUME NEW w \in Wire PROVE Records(q) \in Int
        BY <2>1, RecordsMove
      <4>3. QED
        BY <4>1, <4>2
    <3>4. x \in Int
      BY <3>1, <3>3, InputNumbers, Rates
    <3>5. x <= second'
      BY <1>1, <2>1, <3>2, <3>4
    <3>6. QED
      BY <2>1, <2>2, <2>4, <3>1, <3>5 DEF Spaced
  <2>5. QED
    BY <2>3, <2>4
<1>5. ASSUME NEW w \in Wire, \A v \in Wire \ {w} : wires'[v] = wires[v], windows'[q] = windows[q], second' = second,
             Records(q)' <= Records(q)
      PROVE  Spaced(q)'
  <2>1. Records(q) \in Int /\ Records(q)' \in Int
    BY <1>5, RecordsMove
  <2>2. second' >= second
    BY <1>1, <1>5
  <2>3. QED
    BY <1>2, <1>5, <2>1, <2>2, SpacingHolds
<1>6. ASSUME NEW w \in Wire, \A v \in Wire \ {w} : wires'[v] = wires[v], windows'[q] = windows[q], second' = second,
             tally'.records = tally.records, tally'.flushes = tally.flushes, w \notin Owing(q)'
      PROVE  Spaced(q)'
  <2>1. Records(q)' <= Records(q)
    BY <1>6, RecordsMove
  <2>2. QED
    BY <1>5, <1>6, <2>1
<1>7. ASSUME NEW w \in Wire, OpenWire(w) PROVE Spaced(q)'
  <2>1. /\ \A v \in Wire \ {w} : wires'[v] = wires[v]
        /\ wires'[w].phase = "reading" /\ UNCHANGED <<second, windows, tally>>
    BY <1>7, OpenMoves DEF WireOnly
  <2>2. QED
    BY <1>6, <2>1, OwesWhenThen
<1>8. ASSUME NEW w \in Wire, NEW kind \in {"chat", "bad", "other"}, Receive(w, kind) PROVE Spaced(q)'
  <2>1. /\ \A v \in Wire \ {w} : wires'[v] = wires[v]
        /\ wires'[w].phase \in {"reading", "counting"} /\ UNCHANGED <<second, windows>>
        /\ tally'.records = tally.records /\ tally'.flushes = tally.flushes
    BY <1>8, ReceiveMoves DEF WireOnly
  <2>2. QED
    BY <1>6, <2>1, OwesWhenThen
<1>9. ASSUME NEW w \in Wire, Count(w) PROVE Spaced(q)'
  <2>1. PICK r \in Reason :
             /\ WireOnly(w) /\ wires[w].phase = "counting" /\ second' = second
             /\ \/ /\ Due(r) /\ wires'[w].phase = "writing" /\ wires'[w].reason = r
                   /\ windows' = [windows EXCEPT ![r] = Emptied(r)]
                \/ /\ wires'[w].phase = "reading" /\ windows[r].open
                   /\ windows' = [windows EXCEPT ![r].occurrences = windows[r].occurrences + 1]
             /\ tally'.records = tally.records /\ tally'.flushes = tally.flushes
    BY <1>9, CountMoves
  <2>2. (\A v \in Wire \ {w} : wires'[v] = wires[v]) /\ w \notin Owing(q)
    BY <2>1, OwesWhen DEF WireOnly
  <2>3. Records(q) \in Int /\ Records(q)' \in Int
    BY <2>2, RecordsMove
  <2>4. CASE /\ Due(r) /\ wires'[w].phase = "writing" /\ wires'[w].reason = r
             /\ windows' = [windows EXCEPT ![r] = Emptied(r)]
    <3>1. CASE q = r
      <4>1. windows'[r] = Emptied(r)
        BY <1>1, <2>4
      <4>2. Records(q)' <= Records(q) + 1
        BY <2>1, <2>2, RecordsMove
      <4>3. QED
        BY <1>2, <2>1, <2>3, <2>4, <3>1, <4>1, <4>2, SpacingHolds
    <3>2. CASE q # r
      <4>1. windows'[q] = windows[q] /\ w \notin Owing(q)'
        BY <1>1, <2>4, <3>2, OwesWhenThen
      <4>2. QED
        BY <1>6, <2>1, <2>2, <4>1
    <3>3. QED
      BY <3>1, <3>2
  <2>5. CASE /\ wires'[w].phase = "reading" /\ windows[r].open
             /\ windows' = [windows EXCEPT ![r].occurrences = windows[r].occurrences + 1]
    <3>1. windows'[q].open = windows[q].open /\ windows'[q].persisted = windows[q].persisted
      BY <1>1, <2>5 DEF RefusalWindow
    <3>2. w \notin Owing(q)'
      BY <2>5, OwesWhenThen
    <3>3. Records(q)' <= Records(q) /\ second' >= second
      BY <1>1, <2>1, <2>2, <3>2, RecordsMove
    <3>4. QED
      BY <1>2, <2>3, <3>1, <3>3, SpacingHolds
  <2>6. QED
    BY <2>1, <2>4, <2>5
<1>10. ASSUME NEW w \in Wire, NEW r \in Reason, NEW n, Settles(r, n), \A v \in Wire \ {w} : wires'[v] = wires[v],
              w \in Owing(r), w \notin Owing(r)', \A p \in Reason \ {r} : w \in Owing(p) <=> w \in Owing(p)',
              UNCHANGED <<second, windows>>
       PROVE  Spaced(q)'
  <2>1. /\ tally'.flushes = tally.flushes
        /\ tally'.records = [tally.records EXCEPT ![r] = @ + 1] \/ tally'.records = tally.records
    BY <1>10 DEF Settles
  <2>2. CASE q = r
    <3>1. tally'.records[q] <= tally.records[q] + 1
      BY <1>1, <2>1, <2>2
    <3>2. Records(q)' <= Records(q)
      BY <1>10, <2>1, <2>2, <3>1, RecordsMove
    <3>3. QED
      BY <1>5, <1>10, <3>2
  <2>3. CASE q # r
    <3>1. tally'.records[q] = tally.records[q] /\ (w \in Owing(q) <=> w \in Owing(q)')
      BY <1>1, <1>10, <2>1, <2>3
    <3>2. Records(q)' = Records(q) /\ Records(q) \in Int
      BY <1>10, <2>1, <3>1, RecordsMove
    <3>3. Records(q)' <= Records(q)
      BY <3>2
    <3>4. QED
      BY <1>5, <1>10, <3>3
  <2>4. QED
    BY <2>2, <2>3
<1>11. ASSUME NEW w \in Wire, WriteRecord(w) PROVE Spaced(q)'
  <2>1. PICK r \in Reason :
             /\ WireOnly(w) /\ wires[w].phase = "writing" /\ wires[w].reason = r
             /\ wires'[w].phase = "reading" /\ Settles(r, wires[w].count) /\ UNCHANGED <<second, windows>>
    BY <1>11, WriteMoves
  <2>2. /\ \A v \in Wire \ {w} : wires'[v] = wires[v]
        /\ \A p \in Reason : (w \in Owing(p) <=> p = r) /\ w \notin Owing(p)'
    BY <2>1, OwesWhen, OwesWhenThen DEF WireOnly
  <2>3. QED
    BY <1>10, <2>1, <2>2
<1>12. ASSUME NEW w \in Wire, CloseWire(w) \/ FinishWire(w) PROVE Spaced(q)'
  <2>1. /\ \A v \in Wire \ {w} : wires'[v] = wires[v]
        /\ wires'[w].phase \in {"closing", "gone"} /\ UNCHANGED <<second, windows, tally>>
    BY <1>12, CloseMoves DEF WireOnly
  <2>2. QED
    BY <1>6, <2>1, OwesWhenThen
<1>13. ASSUME NEW w \in Wire, FlushWindows(w) PROVE Spaced(q)'
  <2>1. /\ \A v \in Wire \ {w} : wires'[v] = wires[v]
        /\ wires[w].phase = "closing" /\ windows'[q] = NoWindow /\ second' = second
        /\ tally'.flushes = tally.flushes + 1 /\ tally'.records = tally.records
    BY <1>13, FlushMoves
  <2>2. w \notin Owing(q)
    BY <2>1, OwesWhen
  <2>3. Records(q)' <= Records(q) - 1 /\ Records(q) \in Int /\ Records(q)' \in Int
    BY <2>1, <2>2, RecordsMove
  <2>4. QED
    BY <1>2, <2>1, <2>3, SpacingHolds
<1>14. ASSUME NEW w \in Wire, NEW r \in Reason, WriteRest(w, r) PROVE Spaced(q)'
  <2>1. /\ \A v \in Wire \ {w} : wires'[v] = wires[v]
        /\ wires[w].phase = "flushing" /\ wires'[w].phase = "flushing" /\ wires[w].rest[r] > 0
        /\ wires'[w].rest[r] = 0 /\ \A p \in Reason \ {r} : wires'[w].rest[p] = wires[w].rest[p]
        /\ Settles(r, wires[w].rest[r]) /\ UNCHANGED <<second, windows>>
    BY <1>14, RestMoves
  <2>2. \A p \in Reason : /\ w \in Owing(p) <=> wires[w].rest[p] > 0
                          /\ w \in Owing(p)' <=> wires'[w].rest[p] > 0
    BY <2>1, OwesWhen, OwesWhenThen
  <2>3. w \in Owing(r) /\ w \notin Owing(r)' /\ \A p \in Reason \ {r} : w \in Owing(p) <=> w \in Owing(p)'
    BY <2>1, <2>2
  <2>4. QED
    BY <1>10, <2>1, <2>3
<1>15. QED
  BY <1>4, <1>7, <1>8, <1>9, <1>11, <1>12, <1>13, <1>14 DEF InputNext

-----------------------------------------------------------------------------
(* Together.                                                               *)

\* Nothing has been refused at the start.
LEMMA InputStartsWell ==
    ASSUME InputInit PROVE InputIInv
<1>1. /\ second = 0 /\ registered = 0 /\ wires = [w \in Wire |-> Closed]
      /\ chatBudget = Full(ChatBurst) /\ windows = [r \in Reason |-> NoWindow]
      /\ tally = [received |-> 0, accepted |-> 0, flushes |-> 0, strays |-> 0,
                  rejected |-> [r \in Reason |-> 0], records |-> [r \in Reason |-> 0],
                  recorded |-> [r \in Reason |-> 0], lost |-> [r \in Reason |-> 0]]
  BY DEF InputInit
<1>2. Closed \in WireState /\ NoWindow \in RefusalWindow /\ tally \in Tally
      /\ Full(ChatBurst) = [tokens |-> ChatBurst, at |-> 0]
  BY <1>1 DEF Closed, WireState, Bucket, Reason, NoWindow, RefusalWindow, Tally, Full
<1>3. InputTyped
  <2>1. Full(ChatBurst) \in Bucket
    BY <1>2, InputNumbers DEF Bucket
  <2>2. QED
    BY <1>1, <1>2, <2>1 DEF InputTyped, Closed, NoWindow
<1>4. WiresFit
  BY <1>1 DEF WiresFit, Closed
<1>5. RejectionsAddUp
  <2>1. SUFFICES ASSUME NEW r \in Reason PROVE TotalInHand(r) = 0
    BY <1>1, <2>1 DEF RejectionsAddUp, NoWindow
  <2>2. \A w \in Wire : InHand(w, r) = 0
    BY <1>1 DEF InHand, Closed
  <2>3. \A w \in Wire : {w} \X (1..InHand(w, r)) = {}
    BY <2>2
  <2>4. UNION {{w} \X (1..InHand(w, r)) : w \in Wire} = {}
    BY <2>3
  <2>5. QED
    BY <2>4, FS_EmptySet DEF TotalInHand
<1>6. RecordsAreSpaced
  <2>1. SUFFICES ASSUME NEW r \in Reason PROVE Window * Records(r) <= second
    BY <1>1, <2>1 DEF RecordsAreSpaced, NoWindow
  <2>2. Owing(r) = {}
    BY <1>1 DEF Owing, Closed
  <2>3. Records(r) = 0
    BY <1>1, <2>2, FS_EmptySet DEF Records
  <2>4. QED
    BY <1>1, <2>3, InputNumbers
<1>7. BudgetCovers
  <2>1. ChatRate * 0 = 0
    BY InputNumbers
  <2>2. QED
    BY <1>1, <1>2, <2>1, InputNumbers DEF BudgetCovers
<1>8. LeftByStrays
  BY <1>1 DEF LeftByStrays, NoWindow
<1>9. QED
  BY <1>3, <1>4, <1>5, <1>6, <1>7, <1>8 DEF InputIInv

\* Every step keeps the invariant of refused input.
LEMMA InputStepHolds ==
    ASSUME InputIInv, [InputNext]_inputVars PROVE InputIInv'
<1>1. InputTyped'
  BY InputTypedStep DEF InputIInv
<1>2. WiresFit'
  BY WiresFitStep DEF InputIInv
<1>3. RejectionsAddUp'
  BY <1>1, SumsStep DEF InputIInv
<1>4. RecordsAreSpaced'
  BY <1>1, <1>2, SpacingStep DEF InputIInv
<1>5. BudgetCovers'
  BY BudgetStep DEF InputIInv
<1>6. LeftByStrays'
  BY <1>1, StraysStep DEF InputIInv
<1>7. QED
  BY <1>1, <1>2, <1>3, <1>4, <1>5, <1>6 DEF InputIInv

\* What the budget covers was earned by now.
LEMMA ChatHasItsPace ==
    ASSUME InputIInv PROVE ChatIsPaced
<1>1. /\ chatBudget.tokens \in Nat /\ chatBudget.at \in Nat /\ chatBudget.at <= second /\ second \in Nat
      /\ tally.accepted \in Nat
  BY DEF InputIInv, InputTyped, Bucket, Tally
<1> DEFINE x == ChatRate * second
<1> DEFINE y == ChatRate * chatBudget.at
<1>2. x \in Int /\ y \in Int /\ y <= x /\ second * ChatRate = x
  BY <1>1, InputNumbers, Rates
<1>3. tally.accepted + chatBudget.tokens <= ChatBurst + y
  BY DEF InputIInv, BudgetCovers
<1> HIDE DEF x, y
<1>4. tally.accepted <= ChatBurst + x
  BY <1>1, <1>2, <1>3, InputNumbers
<1>5. QED
  BY <1>2, <1>4 DEF ChatIsPaced

\* Records that are still owed only make the written ones fewer.
LEMMA RecordsStaySparse ==
    ASSUME InputIInv PROVE RecordsAreSparse
<1>1. SUFFICES ASSUME NEW r \in Reason PROVE Window * (tally.records[r] - 1 - 2 * tally.flushes) <= second
  BY DEF RecordsAreSparse
<1>2. /\ tally.records[r] \in Nat /\ tally.flushes \in Nat /\ second \in Nat
      /\ windows[r].open \in BOOLEAN /\ windows[r].persisted \in Nat /\ windows[r].persisted <= second
  BY DEF InputIInv, InputTyped, Tally, RefusalWindow
<1>3. Cardinality(Owing(r)) \in Nat
  <2>1. Owing(r) \subseteq Wire
    BY DEF Owing
  <2>2. QED
    BY <2>1, InputNumbers, FS_Subset, FS_CardinalityType
<1>4. PICK m \in Int : m = Records(r)
  BY <1>2, <1>3 DEF Records
<1>5. PICK n \in Int : n = tally.records[r] - 1 - 2 * tally.flushes
  BY <1>2
<1>6. n <= m - 1
  <2> DEFINE owed == Cardinality(Owing(r))
  <2>1. owed \in Nat /\ m = tally.records[r] + owed - 2 * tally.flushes
    BY <1>3, <1>4 DEF Records
  <2> HIDE DEF owed
  <2>2. QED
    BY <1>2, <1>5, <2>1
<1>7. Window * n <= Window * (m - 1) /\ Window * (m - 1) <= Window * m
  <2>1. m - 1 \in Int /\ m - 1 <= m
    OBVIOUS
  <2>2. QED
    BY <1>6, <2>1, InputNumbers, Rates
<1>8. Window * n \in Int /\ Window * (m - 1) \in Int /\ Window * m \in Int
  BY InputNumbers, Rates
<1>9. /\ windows[r].open => Window * (m - 1) <= windows[r].persisted
      /\ ~windows[r].open => Window * m <= second
  BY <1>4 DEF InputIInv, RecordsAreSpaced
<1> DEFINE x == Window * n
<1> DEFINE y == Window * (m - 1)
<1> DEFINE z == Window * m
<1>10. /\ x \in Int /\ y \in Int /\ z \in Int /\ x <= y /\ y <= z
       /\ (windows[r].open => y <= windows[r].persisted) /\ (~windows[r].open => z <= second)
  BY <1>7, <1>8, <1>9
<1> HIDE DEF x, y, z
<1>11. x <= second
  BY <1>2, <1>10
<1>12. QED
  BY <1>5, <1>11 DEF x

\* When all sockets are gone, nobody is registered.
LEMMA StraysAreLeft ==
    ASSUME InputIInv PROVE OnlyStraysAreLeft
<1>1. SUFFICES ASSUME \A w \in Wire : wires[w].phase \in {"none", "gone"}
               PROVE  \A r \in Reason : windows[r].occurrences <= tally.strays
  BY DEF OnlyStraysAreLeft
<1>2. registered = 0
  BY <1>1 DEF InputIInv, InputTyped, WiresFit
<1>3. \A w \in Wire : wires[w].phase # "closing"
  BY <1>1
<1>4. QED
  BY <1>2, <1>3 DEF InputIInv, LeftByStrays

\* Refused input is accounted for, whatever the burst, the rates, the window and
\* the number of sockets of a participant (persist_rejected_input,
\* flush_rejected_input_aggregates, TokenBucket::consume).
THEOREM RefusalsStayAccounted == InputSpec => []RefusalsAreAccounted
<1>1. InputInit => InputIInv
  BY InputStartsWell
<1>2. InputIInv /\ [InputNext]_inputVars => InputIInv'
  BY InputStepHolds
<1>3. InputIInv => RefusalsAreAccounted
  BY ChatHasItsPace, RecordsStaySparse, StraysAreLeft DEF InputIInv, RefusalsAreAccounted
<1>4. QED
  BY <1>1, <1>2, <1>3, PTL DEF InputSpec
-----------------------------------------------------------------------------
(***************************************************************************)
(* The parts together.                                                     *)
(***************************************************************************)

\* A step behind the sessions is a step of each part, or leaves it alone.
LEMMA PartsTakeTheirSteps ==
    ASSUME [Next]_vars
    PROVE  /\ [AdminNext]_adminVars /\ [AccessNext]_accessVars /\ [LogNext]_logVars
           /\ [RemoteNext]_remoteVars /\ [Cross]_valueVars
BY DEF Next, vars, AccessPart, AdminPart, LogPart, RemotePart, ValuePart, InputPart

\* A run of the whole is a run of each part.
LEMMA PartsRun == Spec => AdminSpec /\ AccessSpec /\ LogSpec /\ RemoteSpec /\ ValueSpec
<1>1. Init => AdminInit /\ AccessInit /\ LogInit /\ RemoteInit /\ ValueInit
  BY DEF Init
<1>2. [Next]_vars => /\ [AdminNext]_adminVars /\ [AccessNext]_accessVars /\ [LogNext]_logVars
                     /\ [RemoteNext]_remoteVars /\ [Cross]_valueVars
  BY PartsTakeTheirSteps
<1>3. QED
  BY <1>1, <1>2, PTL DEF Spec, AdminSpec, AccessSpec, LogSpec, RemoteSpec, ValueSpec

\* What has gone does not come back: no socket for a seat that was lost, no
\* credential for the expired, no session for an administrator who logged out,
\* no entry in a log that was shut.
THEOREM GoneStaysGone == Spec => NothingComesBack
BY PartsRun, DeletedStaysDeleted, LostSeatsAndExpiredStayOut, NothingIsLoggedLate DEF NothingComesBack

\* A remote agent is sent one request at a time, by an endpoint that was
\* checked, and every number it is sent or sends keeps its value (SidecarClient,
\* json_to_prost, prost_to_json).
THEOREM RemoteStaysFaithful == Spec => []RemoteIsFaithful
<1>1. Spec => []RemoteIsOrderly /\ []CrossingKeepsValue
  BY PartsRun, RemoteStaysOrderly, CrossingsKeepValues
<1>2. RemoteIsOrderly /\ CrossingKeepsValue => RemoteIsFaithful
  BY DEF RemoteIsFaithful
<1>3. QED
  BY <1>1, <1>2, PTL
=============================================================================

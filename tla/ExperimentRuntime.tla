------------------------- MODULE ExperimentRuntime --------------------------
(***************************************************************************)
(* The runtimes of one hosted experiment: the router cache of GameHost,    *)
(* the construction of an AppState from the stored revision, and the       *)
(* administrator requests that change what a runtime has captured (status, *)
(* configuration, game settings, archive), against participants who create *)
(* and play sessions.                                                      *)
(*                                                                         *)
(* An AppState that is evicted from the cache does not stop: its sockets,  *)
(* its cleanup task and the requests already routed to it keep using it.   *)
(* Requests are tasks; each action is one of their steps between awaits.   *)
(***************************************************************************)
EXTENDS Naturals, Sequences, FiniteSets

CONSTANTS
    Request,       \* HTTP requests in flight at the same time
    MaxRuntimes,   \* bound: AppStates after which no miss starts another
    MaxRevision    \* bound: configuration and settings revisions

ASSUME BoundsAssumption == MaxRuntimes \in Nat \ {0} /\ MaxRevision \in Nat \ {0}
ASSUME RequestAssumption == IsFiniteSet(Request)

Status == {"inactive", "testing", "active", "completed", "archived"}

\* ExperimentLifecycle::allows_intake
AllowsIntake(s) == s \in {"testing", "active"}

\* ExperimentLifecycle::can_transition_to
CanTransitionTo(s, to) ==
    \/ s = to
    \/ <<s, to>> \in ({"inactive"} \X {"testing", "active", "archived"})
                        \cup {<<"testing", "inactive">>, <<"active", "inactive">>,
                              <<"active", "completed">>, <<"completed", "archived">>,
                              <<"archived", "inactive">>}

NoRequest == << >>

VARIABLES
    status,     \* experiments.status
    revision,   \* experiments.config_revision
    settings,   \* game_settings.revision
    row,        \* the session row of each request's participant
    runtimes,   \* the AppStates constructed by this process
    cache,      \* index of the cached one, 0 if there is none
    lock,       \* holder of the experiment's router build lock
    task        \* progress of each request

vars == <<status, revision, settings, row, runtimes, cache, lock, task>>

\* rt: the AppState a request was routed to; seen: a revision it has read;
\* want: the status it asks for; rows: the sessions it still has to finalize.
Idle == [pc |-> "idle", rt |-> 0, seen |-> 0, want |-> "inactive", rows |-> {}]

\* Requests that hold the read or the write guard of a runtime's lifecycle.
Readers(i) == {r \in Request : task[r].rt = i /\ task[r].pc \in {"creating", "inserting"}}
Writers(i) == {r \in Request : task[r].rt = i
                               /\ task[r].pc \in {"storing", "switching", "evicting"}}

Init ==
    /\ status = "inactive" /\ revision = 1 /\ settings = 1
    /\ row = [r \in Request |-> "none"]
    /\ runtimes = << >> /\ cache = 0 /\ lock = NoRequest
    /\ task = [r \in Request |-> Idle]

-----------------------------------------------------------------------------
(* Faulty variants used to show that the properties can fail.              *)

SaveLockFree(r) ==
    /\ task[r].pc = "edited"
    /\ task' = [task EXCEPT ![r] = IF status = "inactive"
                                   THEN [@ EXCEPT !.pc = "saving"] ELSE Idle]
    /\ UNCHANGED <<status, revision, settings, row, runtimes, cache, lock>>

BuildBeginUnrechecked(r) ==
    /\ task[r].pc = "build" /\ lock = NoRequest
    /\ lock' = <<r>>
    /\ task' = [task EXCEPT ![r].pc = "ensure", ![r].seen = revision]
    /\ UNCHANGED <<status, revision, settings, row, runtimes, cache>>

BuildPublishEarly(r) ==
    /\ task[r].pc = "finalize"
    /\ cache' = IF cache = 0 THEN task[r].rt ELSE cache
    /\ lock' = NoRequest
    /\ task' = [task EXCEPT ![r] = [Idle EXCEPT !.pc = task[r].want, !.rt = cache']]
    /\ UNCHANGED <<status, revision, settings, row, runtimes>>

StatusDecideUnguarded(r) ==
    /\ task[r].pc = "deciding" /\ Writers(task[r].rt) = {}
    /\ task' = [task EXCEPT ![r] =
          IF CanTransitionTo(runtimes[task[r].rt].lifecycle, task[r].want)
          THEN [@ EXCEPT !.pc = "storing"] ELSE Idle]
    /\ UNCHANGED <<status, revision, settings, row, runtimes, cache, lock>>

SaveCommitKeepsLock(r) ==
    /\ task[r].pc = "saving"
    /\ IF revision = task[r].seen /\ status = "inactive"
       THEN revision' = task[r].seen + 1 /\ task' = [task EXCEPT ![r].pc = "unlocking"]
       ELSE revision' = revision /\ task' = [task EXCEPT ![r] = Idle]
    /\ UNCHANGED <<status, settings, row, runtimes, cache, lock>>

RestartKeepsCache ==
    /\ runtimes # << >>
    /\ runtimes' = << >> /\ lock' = NoRequest
    /\ task' = [r \in Request |-> Idle]
    /\ status' = IF AllowsIntake(status) THEN "inactive" ELSE status
    /\ UNCHANGED <<revision, settings, row, cache>>
-----------------------------------------------------------------------------
(* dispatch_experiment_service and GameHost::experiment_router.  A request  *)
(* for a session or a status needs the runtime; on a miss it waits for the *)
(* build lock and looks again.                                             *)

RouteHit(r, for) ==
    /\ task[r].pc = "idle" /\ cache # 0
    /\ task' = [task EXCEPT ![r].pc = for, ![r].rt = cache]
    /\ UNCHANGED <<status, revision, settings, row, runtimes, cache, lock>>

RouteMiss(r, for) ==
    /\ task[r].pc = "idle" /\ cache = 0 /\ Len(runtimes) < MaxRuntimes
    /\ task' = [task EXCEPT ![r].pc = "build", ![r].want = for]
    /\ UNCHANGED <<status, revision, settings, row, runtimes, cache, lock>>

\* The lock is taken and the cache read again.  The stored configuration is
\* read with the secrets of the experiment and of the game.
BuildBegin(r) ==
    /\ task[r].pc = "build" /\ lock = NoRequest
    /\ IF cache # 0
       THEN /\ task' = [task EXCEPT ![r].pc = task[r].want, ![r].rt = cache,
                                    ![r].want = "inactive"]
            /\ UNCHANGED lock
       ELSE /\ lock' = <<r>>
            /\ task' = [task EXCEPT ![r].pc = "ensure", ![r].seen = revision]
    /\ UNCHANGED <<status, revision, settings, row, runtimes, cache>>

\* build_router_with_resources: ensure_experiment returns the stored status
\* and the new AppState captures it together with the revision.
BuildEnsure(r) ==
    /\ task[r].pc = "ensure"
    /\ runtimes' = Append(runtimes, [lifecycle |-> status, revision |-> task[r].seen,
                                     live |-> {}])
    /\ task' = [task EXCEPT ![r].pc = "list", ![r].rt = Len(runtimes) + 1]
    /\ UNCHANGED <<status, revision, settings, row, cache, lock>>

\* finalize_interrupted_sessions lists the rows that are not ended ...
FinalizeList(r) ==
    /\ task[r].pc = "list"
    /\ task' = [task EXCEPT ![r].pc = "finalize",
                            ![r].rows = {v \in Request : row[v] = "open"}]
    /\ UNCHANGED <<status, revision, settings, row, runtimes, cache, lock>>

\* ... and ends them one by one; end_session leaves an ended row alone.
FinalizeOne(r) ==
    /\ task[r].pc = "finalize"
    /\ \E v \in task[r].rows :
          /\ row' = [row EXCEPT ![v] = IF @ = "open" THEN "interrupted" ELSE @]
          /\ task' = [task EXCEPT ![r].rows = @ \ {v}]
    /\ UNCHANGED <<status, revision, settings, runtimes, cache, lock>>

\* The router is inserted unless another one is there, the lock released.
BuildPublish(r) ==
    /\ task[r].pc = "finalize" /\ task[r].rows = {}
    /\ cache' = IF cache = 0 THEN task[r].rt ELSE cache
    /\ lock' = NoRequest
    /\ task' = [task EXCEPT ![r] = [Idle EXCEPT !.pc = task[r].want, !.rt = cache']]
    /\ UNCHANGED <<status, revision, settings, row, runtimes>>

\* A configuration that no longer loads: the request is answered 404.
BuildFails(r) ==
    /\ task[r].pc = "ensure"
    /\ lock' = NoRequest /\ task' = [task EXCEPT ![r] = Idle]
    /\ UNCHANGED <<status, revision, settings, row, runtimes, cache>>
-----------------------------------------------------------------------------
(* create_session on the runtime the request was routed to.  The guard of  *)
(* require_open_experiment is held until the session is in memory.         *)

OpenIntake(r) ==
    /\ task[r].pc = "visit" /\ Writers(task[r].rt) = {}
    /\ IF AllowsIntake(runtimes[task[r].rt].lifecycle) /\ row[r] = "none"
       THEN task' = [task EXCEPT ![r].pc = "creating"]
       ELSE task' = [task EXCEPT ![r] = Idle]
    /\ UNCHANGED <<status, revision, settings, row, runtimes, cache, lock>>

CreateRow(r) ==
    /\ task[r].pc = "creating"
    /\ row' = [row EXCEPT ![r] = "open"]
    /\ task' = [task EXCEPT ![r].pc = "inserting"]
    /\ UNCHANGED <<status, revision, settings, runtimes, cache, lock>>

InsertSession(r) ==
    /\ task[r].pc = "inserting"
    /\ runtimes' = [runtimes EXCEPT ![task[r].rt].live = @ \cup {r}]
    /\ task' = [task EXCEPT ![r] = Idle]
    /\ UNCHANGED <<status, revision, settings, row, cache, lock>>

\* The session ends in the runtime that holds it, whatever ends it there.
EndLive(i, v) ==
    /\ i \in DOMAIN runtimes /\ v \in runtimes[i].live
    /\ runtimes' = [runtimes EXCEPT ![i].live = @ \ {v}]
    /\ row' = [row EXCEPT ![v] = IF @ = "open" THEN "ended" ELSE @]
    /\ UNCHANGED <<status, revision, settings, cache, lock, task>>
-----------------------------------------------------------------------------
(* admin_update_experiment_status on the runtime it was routed to.         *)

\* The request asks for a status; an opening status is checked against the
\* stored configuration first, which may call Prolific and take its time.
StatusCheck(r, s) ==
    /\ task[r].pc = "status"
    /\ task' = [task EXCEPT ![r].pc = "deciding", ![r].want = s]
    /\ UNCHANGED <<status, revision, settings, row, runtimes, cache, lock>>

\* Another game version, a missing participant URL or an activation issue.
StatusRefused(r) ==
    /\ task[r].pc = "status"
    /\ task' = [task EXCEPT ![r] = Idle]
    /\ UNCHANGED <<status, revision, settings, row, runtimes, cache, lock>>

\* The write guard of the lifecycle is taken and the transition checked.
StatusDecide(r) ==
    /\ task[r].pc = "deciding"
    /\ Writers(task[r].rt) = {} /\ Readers(task[r].rt) = {}
    /\ IF CanTransitionTo(runtimes[task[r].rt].lifecycle, task[r].want)
       THEN task' = [task EXCEPT ![r].pc = "storing"]
       ELSE task' = [task EXCEPT ![r] = Idle]
    /\ UNCHANGED <<status, revision, settings, row, runtimes, cache, lock>>

\* update_experiment_status writes whatever the stored status is.
StatusStore(r) ==
    /\ task[r].pc = "storing"
    /\ status' = task[r].want
    /\ task' = [task EXCEPT ![r].pc = "switching"]
    /\ UNCHANGED <<revision, settings, row, runtimes, cache, lock>>

StatusSwitch(r) ==
    /\ task[r].pc = "switching"
    /\ runtimes' = [runtimes EXCEPT ![task[r].rt].lifecycle = task[r].want]
    /\ task' = [task EXCEPT ![r] = IF task[r].want = "inactive"
                                   THEN [@ EXCEPT !.pc = "evicting"] ELSE Idle]
    /\ UNCHANGED <<status, revision, settings, row, cache, lock>>

\* invalidate_runtime_router after a deactivation; no build lock is held.
StatusEvict(r) ==
    /\ task[r].pc = "evicting"
    /\ cache' = 0
    /\ task' = [task EXCEPT ![r] = Idle]
    /\ UNCHANGED <<status, revision, settings, row, runtimes, lock>>
-----------------------------------------------------------------------------
(* admin_save_experiment_config: the editor shows a revision, the save     *)
(* names it as expected_revision and holds the build lock.                 *)

EditOpen(r) ==
    /\ task[r].pc = "idle" /\ revision < MaxRevision
    /\ task' = [task EXCEPT ![r].pc = "edited", ![r].seen = revision]
    /\ UNCHANGED <<status, revision, settings, row, runtimes, cache, lock>>

SaveLock(r) ==
    /\ task[r].pc = "edited" /\ lock = NoRequest
    /\ IF status = "inactive"
       THEN lock' = <<r>> /\ task' = [task EXCEPT ![r].pc = "saving"]
       ELSE lock' = lock /\ task' = [task EXCEPT ![r] = Idle]
    /\ UNCHANGED <<status, revision, settings, row, runtimes, cache>>

\* save_experiment_configuration updates only the expected revision of an
\* inactive experiment; otherwise the request is answered with a conflict.
SaveCommit(r) ==
    /\ task[r].pc = "saving"
    /\ IF revision = task[r].seen /\ status = "inactive"
       THEN /\ revision' = task[r].seen + 1
            /\ task' = [task EXCEPT ![r].pc = "unlocking"]
            /\ UNCHANGED lock
       ELSE /\ task' = [task EXCEPT ![r] = Idle]
            /\ lock' = NoRequest
            /\ UNCHANGED revision
    /\ UNCHANGED <<status, settings, row, runtimes, cache>>

\* admin_archive_experiment, under the build lock as well.
ArchiveCommit(r) ==
    /\ task[r].pc = "idle" /\ lock = NoRequest
    /\ status \in {"inactive", "completed"}
    /\ status' = "archived" /\ lock' = <<r>>
    /\ task' = [task EXCEPT ![r].pc = "unlocking"]
    /\ UNCHANGED <<revision, settings, row, runtimes, cache>>

\* invalidate_runtime_router, then the build lock is dropped.
EvictAndUnlock(r) ==
    /\ task[r].pc = "unlocking"
    /\ cache' = 0 /\ lock' = NoRequest
    /\ task' = [task EXCEPT ![r] = Idle]
    /\ UNCHANGED <<status, revision, settings, row, runtimes>>
-----------------------------------------------------------------------------
(* admin_update_game_settings and invalidate_inactive_runtime_routers.     *)

SettingsOpen(r) ==
    /\ task[r].pc = "idle" /\ settings < MaxRevision
    /\ task' = [task EXCEPT ![r].pc = "settings", ![r].seen = settings]
    /\ UNCHANGED <<status, revision, settings, row, runtimes, cache, lock>>

SettingsCommit(r) ==
    /\ task[r].pc = "settings"
    /\ IF settings = task[r].seen
       THEN /\ settings' = task[r].seen + 1
            /\ task' = [task EXCEPT ![r].pc = "keys"]
       ELSE task' = [task EXCEPT ![r] = Idle] /\ UNCHANGED settings
    /\ UNCHANGED <<status, revision, row, runtimes, cache, lock>>

\* Only an experiment that is in the cache at this moment is considered.
SettingsKeys(r) ==
    /\ task[r].pc = "keys"
    /\ task' = [task EXCEPT ![r] = IF cache = 0 THEN Idle ELSE [@ EXCEPT !.pc = "inspect"]]
    /\ UNCHANGED <<status, revision, settings, row, runtimes, cache, lock>>

SettingsInspect(r) ==
    /\ task[r].pc = "inspect" /\ lock = NoRequest
    /\ IF status = "inactive"
       THEN lock' = <<r>> /\ task' = [task EXCEPT ![r].pc = "unlocking"]
       ELSE lock' = lock /\ task' = [task EXCEPT ![r] = Idle]
    /\ UNCHANGED <<status, revision, settings, row, runtimes, cache>>
-----------------------------------------------------------------------------
\* The process dies and starts again: build_game_router closes every open
\* experiment; the rows are finalized when the experiment is next asked for.
Restart ==
    /\ runtimes # << >>
    /\ runtimes' = << >> /\ cache' = 0 /\ lock' = NoRequest
    /\ task' = [r \in Request |-> Idle]
    /\ status' = IF AllowsIntake(status) THEN "inactive" ELSE status
    /\ UNCHANGED <<revision, settings, row>>

Step(r) ==
    \/ BuildBegin(r) \/ BuildEnsure(r) \/ FinalizeList(r) \/ FinalizeOne(r)
    \/ BuildPublish(r) \/ BuildFails(r)
    \/ OpenIntake(r) \/ CreateRow(r) \/ InsertSession(r)
    \/ (\E s \in Status : StatusCheck(r, s))
    \/ StatusRefused(r) \/ StatusDecide(r) \/ StatusStore(r) \/ StatusSwitch(r) \/ StatusEvict(r)
    \/ SaveLock(r) \/ SaveCommit(r) \/ EvictAndUnlock(r)
    \/ SettingsCommit(r) \/ SettingsKeys(r) \/ SettingsInspect(r)

Arrive(r) ==
    \/ \E for \in {"visit", "status"} : RouteHit(r, for) \/ RouteMiss(r, for)
    \/ EditOpen(r) \/ ArchiveCommit(r) \/ SettingsOpen(r)

Next ==
    \/ \E r \in Request : Step(r) \/ Arrive(r)
    \/ \E i \in DOMAIN runtimes, v \in Request : EndLive(i, v)
    \/ Restart

Spec == Init /\ [][Next]_vars

-----------------------------------------------------------------------------
(* Properties.                                                             *)

Pc == {"idle", "visit", "status", "build", "ensure", "list", "finalize", "creating",
       "inserting", "deciding", "storing", "switching", "evicting", "edited", "saving",
       "unlocking", "settings", "keys", "inspect"}

\* The values the state can take; no runtime is cached, or used by a request,
\* that this process did not build.
TypeOK ==
    /\ status \in Status /\ revision \in 1..MaxRevision /\ settings \in 1..MaxRevision
    /\ row \in [Request -> {"none", "open", "ended", "interrupted"}]
    /\ cache \in 0..Len(runtimes)
    /\ \A i \in DOMAIN runtimes :
          runtimes[i] \in [lifecycle : Status, revision : 1..MaxRevision,
                           live : SUBSET Request]
    /\ lock \in {NoRequest} \cup {<<r>> : r \in Request}
    /\ \A r \in Request : task[r].pc \in Pc /\ task[r].rt \in 0..Len(runtimes)

\* Whenever nobody holds the build lock, the cached runtime was built from the
\* stored configuration revision: a save cannot slip between the reading of
\* the configuration and the publication of the router built from it.
CachedConfigIsCurrent ==
    lock = NoRequest /\ cache # 0 => runtimes[cache].revision = revision

\* An AppState is constructed, and with it every open row finalized, only
\* while no other one is cached: concurrent first requests build one runtime.
BuildOnce ==
    \A r \in Request : task[r].pc \in {"ensure", "list", "finalize"} => cache = 0

\* While a runtime is cached, a row that is not ended belongs to a session
\* in the memory of some runtime or to a request about to put it there: the
\* rows an earlier process left behind were finalized before the publication.
NoOrphanRow ==
    cache # 0 => \A v \in Request : row[v] = "open" =>
        \/ \E i \in DOMAIN runtimes : v \in runtimes[i].live
        \/ task[v].pc = "inserting"

\* A session is created only in a runtime whose intake is open all the while:
\* a status change waits for the requests that passed the intake check.
IntakeIsOpen ==
    \A r \in Request : task[r].pc \in {"creating", "inserting"}
        => AllowsIntake(runtimes[task[r].rt].lifecycle)

\* Requests that wait for the build lock or a lifecycle guard are waiting for
\* somebody who can go on: no early return keeps a lock, no two requests wait
\* for each other.
NobodyIsStuck ==
    (\E r \in Request : task[r].pc # "idle") => \E q \in Request : ENABLED Step(q)

\* Refuted.  docs/running-and-deployment.md: deactivation allows "sessions
\* already in progress to finish".  The runtime built by the first request
\* after the eviction finalizes the rows of sessions that are still live.
DeactivationSparesSessions ==
    \A v \in Request : row[v] = "interrupted"
        => \A i \in DOMAIN runtimes : v \notin runtimes[i].live

\* Refuted.  lifecycle.rs: can_transition_to "rejects destructive shortcuts".
\* A request routed to an evicted runtime judges by that runtime's status.
TransitionsAreDeliberate == [][CanTransitionTo(status, status')]_status

\* What routers, builds and administrator requests keep between them: one
\* runtime, of the current configuration, that has finalized the rows of an
\* earlier one, and sessions only while intake is open.
RuntimeIsSound ==
    /\ TypeOK
    /\ CachedConfigIsCurrent /\ BuildOnce /\ NoOrphanRow
    /\ IntakeIsOpen
=============================================================================

-------------------------- MODULE ExperimentProofs --------------------------
(***************************************************************************)
(* Proofs about the two ways an experiment runs: ExperimentRuntime, hosted *)
(* for participants, for any requests, any number of runtimes and any      *)
(* number of revisions; HeadlessSession, between two agents, for any game, *)
(* any limits and whatever the agents answer; and HeadlessRun, the runner  *)
(* of such sessions, for any experiment files and any number of            *)
(* invocations that die on the way.                                        *)
(***************************************************************************)
EXTENDS ExperimentRuntime, HeadlessSession, HeadlessRun, TLAPS

-----------------------------------------------------------------------------
(* The hosted runtime *)

Runtime == [lifecycle : Status, revision : 1..MaxRevision, live : SUBSET Request]
RowState == {"none", "open", "ended", "interrupted"}
Routed == {"visit", "status"}
Task == [pc : Pc, rt : Nat, seen : Nat, want : Status \cup Routed, rows : SUBSET Request]

\* The values of the state, those of a task included.
Typed ==
    /\ status \in Status /\ revision \in 1..MaxRevision /\ settings \in 1..MaxRevision
    /\ row \in [Request -> RowState]
    /\ runtimes \in Seq(Runtime) /\ cache \in 0..Len(runtimes)
    /\ lock \in {NoRequest} \cup {<<r>> : r \in Request}
    /\ task \in [Request -> Task]

\* A request that builds, from the reading of the configuration on; the ones
\* that hold the build lock; the ones that use a runtime.
Building == {"ensure", "list", "finalize"}
Holding == Building \cup {"saving", "unlocking"}
Reading == {"creating", "inserting"}
Writing == {"storing", "switching", "evicting"}
Using == Routed \cup {"list", "finalize", "deciding"} \cup Reading \cup Writing

\* What a task carries fits where it is: the runtime it uses exists, what it
\* asks for is what its next step needs, a revision to be saved leaves room,
\* and while it builds or holds the lock nobody else does.
TaskFits(r) ==
    /\ task[r].rt \in 0..Len(runtimes)
    /\ task[r].pc \in Using => task[r].rt # 0
    /\ task[r].pc \in {"build"} \cup Building => task[r].want \in Routed
    /\ task[r].pc \in {"deciding", "storing", "switching"} => task[r].want \in Status
    /\ task[r].pc \in {"edited", "saving", "settings"} => task[r].seen \in 1..(MaxRevision - 1)
    /\ task[r].pc \in Holding => lock = <<r>>
    /\ task[r].pc \in Building => task[r].seen = revision /\ cache = 0
    /\ task[r].pc \in {"list", "finalize"} => runtimes[task[r].rt].revision = revision

\* A cached runtime of an older revision is about to be evicted.
CacheFits ==
    cache # 0 => \/ runtimes[cache].revision = revision
                 \/ \E r \in Request : task[r].pc = "unlocking"

\* The guards of a runtime's lifecycle exclude each other.
GuardsExclude ==
    \A r, q \in Request : task[r].pc \in Writing /\ task[q].pc \in Reading => task[r].rt # task[q].rt

\* The open row of a participant is somebody's: it is in the memory of a
\* runtime, about to be put there, or still to be finalized by a build.
Placed(v) ==
    \/ \E i \in DOMAIN runtimes : v \in runtimes[i].live
    \/ task[v].pc = "inserting"

RowsAreAccounted ==
    \A v \in Request : row[v] = "open" =>
        \/ Placed(v)
        \/ cache = 0 /\ \A r \in Request : task[r].pc = "finalize" => v \in task[r].rows

IInv ==
    /\ Typed /\ (\A r \in Request : TaskFits(r))
    /\ CacheFits /\ GuardsExclude /\ RowsAreAccounted /\ IntakeIsOpen
-----------------------------------------------------------------------------
\* The task a request leaves with, when it is at rest.
LEMMA IdleTask ==
    /\ Idle \in Task /\ Idle.pc = "idle" /\ Idle.rt = 0 /\ DOMAIN Idle = {"pc", "rt", "seen", "want", "rows"}
    /\ \A for \in Routed, i \in Nat : [Idle EXCEPT !.pc = for, !.rt = i] \in Task
BY DEF Idle, Task, Pc, Status, Routed

\* The sets of places a task can be at.
LEMMA Places ==
    /\ Using = {"visit", "status", "list", "finalize", "deciding", "creating", "inserting",
                "storing", "switching", "evicting"}
    /\ Holding = {"ensure", "list", "finalize", "saving", "unlocking"}
    /\ Routed \subseteq Pc /\ "inactive" \in Status
BY DEF Using, Holding, Building, Routed, Reading, Writing, Pc, Status

\* A step of a request leaves the tasks of the others alone.
LEMMA OthersWait ==
    ASSUME Typed, NEW r \in Request, Step(r) \/ Arrive(r)
    PROVE  \A q \in Request : q # r => task'[q] = task[q]
BY DEF Typed, Step, Arrive, BuildBegin, BuildEnsure, FinalizeList, FinalizeOne, BuildPublish, BuildFails,
     OpenIntake, CreateRow, InsertSession, StatusCheck, StatusRefused, StatusDecide, StatusStore,
     StatusSwitch, StatusEvict, SaveLock, SaveCommit, EvictAndUnlock, SettingsCommit, SettingsKeys,
     SettingsInspect, RouteHit, RouteMiss, EditOpen, ArchiveCommit, SettingsOpen

\* One task is replaced, by another one.
LEMMA Changed ==
    ASSUME Typed, NEW r \in Request, NEW t \in Task, task' = [task EXCEPT ![r] = t]
    PROVE  task' \in [Request -> Task]
BY DEF Typed

\* The updates of a task that the steps make.
LEMMA Fields ==
    ASSUME Typed, NEW r \in Request
    PROVE  /\ \A p \in Pc : [task[r] EXCEPT !.pc = p] \in Task
           /\ \A p \in Pc, rt \in Nat : [task[r] EXCEPT !.pc = p, !.rt = rt] \in Task
           /\ \A p \in Pc, seen \in Nat : [task[r] EXCEPT !.pc = p, !.seen = seen] \in Task
           /\ \A p \in Pc, want \in Status \cup Routed : [task[r] EXCEPT !.pc = p, !.want = want] \in Task
           /\ \A p \in Pc, rt \in Nat, want \in Status \cup Routed :
                [task[r] EXCEPT !.pc = p, !.rt = rt, !.want = want] \in Task
           /\ \A p \in Pc, rows \in SUBSET Request : [task[r] EXCEPT !.pc = p, !.rows = rows] \in Task
           /\ \A rows \in SUBSET Request : [task[r] EXCEPT !.rows = rows] \in Task
<1>1. task[r] \in Task
  BY DEF Typed
<1>2. QED
  BY <1>1 DEF Task

\* The numbers a task can take over.
LEMMA Numbers ==
    ASSUME Typed
    PROVE  /\ cache \in Nat /\ revision \in Nat \ {0} /\ settings \in Nat \ {0}
           /\ Len(runtimes) \in Nat /\ Len(runtimes) + 1 \in Nat /\ cache <= Len(runtimes)
BY BoundsAssumption DEF Typed

\* A request moves its task among the places and values a task can have.
LEMMA TaskTyped ==
    ASSUME Typed, NEW r \in Request, TaskFits(r), Step(r) \/ Arrive(r)
    PROVE  task' \in [Request -> Task]
<1>1. CASE BuildBegin(r)
  <2>1. CASE cache # 0
    <3>1. task[r].want \in Routed
      BY <1>1 DEF BuildBegin, TaskFits
    <3>2. [task[r] EXCEPT !.pc = task[r].want, !.rt = cache, !.want = "inactive"] \in Task
      BY <3>1, Fields, Numbers, Places
    <3>3. task' = [task EXCEPT ![r] = [task[r] EXCEPT !.pc = task[r].want, !.rt = cache, !.want = "inactive"]]
      BY <1>1, <2>1 DEF BuildBegin
    <3>4. QED
      BY <3>2, <3>3, Changed
  <2>2. CASE cache = 0
    <3>1. [task[r] EXCEPT !.pc = "ensure", !.seen = revision] \in Task
      BY Fields, Numbers DEF Pc
    <3>2. task' = [task EXCEPT ![r].pc = "ensure", ![r].seen = revision]
      BY <1>1, <2>2 DEF BuildBegin
    <3>3. QED
      BY <3>1, <3>2, Changed
  <2>3. QED
    BY <2>1, <2>2
<1>2. CASE BuildEnsure(r)
  <2>1. [task[r] EXCEPT !.pc = "list", !.rt = Len(runtimes) + 1] \in Task
    BY Fields, Numbers DEF Pc
  <2>2. QED
    BY <1>2, <2>1, Changed DEF BuildEnsure
<1>3. CASE FinalizeList(r)
  <2>1. [task[r] EXCEPT !.pc = "finalize", !.rows = {v \in Request : row[v] = "open"}] \in Task
    BY Fields DEF Pc
  <2>2. task' = [task EXCEPT ![r] = [task[r] EXCEPT !.pc = "finalize", !.rows = {v \in Request : row[v] = "open"}]]
    BY <1>3 DEF FinalizeList
  <2>3. QED
    BY <2>1, <2>2, Changed
<1>4. CASE FinalizeOne(r)
  <2>1. PICK v \in task[r].rows : task' = [task EXCEPT ![r].rows = @ \ {v}]
    BY <1>4 DEF FinalizeOne
  <2>2. task[r].rows \ {v} \in SUBSET Request
    BY DEF Typed, Task
  <2>3. QED
    BY <2>1, <2>2, Fields, Changed
<1>5. CASE BuildPublish(r)
  <2>1. task[r].want \in Routed /\ cache' \in Nat
    BY <1>5, Numbers DEF BuildPublish, TaskFits, Building, Typed, Task
  <2>2. QED
    BY <1>5, <2>1, IdleTask, Changed DEF BuildPublish
<1>6. CASE BuildFails(r)
  BY <1>6, Fields, Changed, IdleTask DEF BuildFails, Pc
<1>7. CASE OpenIntake(r)
  BY <1>7, Fields, Changed, IdleTask DEF OpenIntake, Pc
<1>8. CASE CreateRow(r)
  BY <1>8, Fields, Changed, IdleTask DEF CreateRow, Pc
<1>9. CASE InsertSession(r)
  BY <1>9, Fields, Changed, IdleTask DEF InsertSession, Pc
<1>10. CASE StatusRefused(r)
  BY <1>10, Fields, Changed, IdleTask DEF StatusRefused, Pc
<1>11. CASE StatusDecide(r)
  BY <1>11, Fields, Changed, IdleTask DEF StatusDecide, Pc
<1>12. CASE StatusStore(r)
  BY <1>12, Fields, Changed, IdleTask DEF StatusStore, Pc
<1>13. CASE StatusSwitch(r)
  BY <1>13, Fields, Changed, IdleTask DEF StatusSwitch, Pc
<1>14. CASE StatusEvict(r)
  BY <1>14, Fields, Changed, IdleTask DEF StatusEvict, Pc
<1>15. CASE SaveLock(r)
  BY <1>15, Fields, Changed, IdleTask DEF SaveLock, Pc
<1>16. CASE SaveCommit(r)
  BY <1>16, Fields, Changed, IdleTask DEF SaveCommit, Pc
<1>17. CASE EvictAndUnlock(r)
  BY <1>17, Fields, Changed, IdleTask DEF EvictAndUnlock, Pc
<1>18. CASE SettingsCommit(r)
  BY <1>18, Fields, Changed, IdleTask DEF SettingsCommit, Pc
<1>19. CASE SettingsKeys(r)
  BY <1>19, Fields, Changed, IdleTask DEF SettingsKeys, Pc
<1>20. CASE SettingsInspect(r)
  BY <1>20, Fields, Changed, IdleTask DEF SettingsInspect, Pc
<1>21. CASE EditOpen(r)
  <2>1. [task[r] EXCEPT !.pc = "edited", !.seen = revision] \in Task
    BY Fields, Numbers DEF Pc
  <2>2. task' = [task EXCEPT ![r] = [task[r] EXCEPT !.pc = "edited", !.seen = revision]]
    BY <1>21 DEF EditOpen
  <2>3. QED
    BY <2>1, <2>2, Changed
<1>22. CASE ArchiveCommit(r)
  BY <1>22, Fields, Changed, IdleTask DEF ArchiveCommit, Pc
<1>23. CASE SettingsOpen(r)
  <2>1. [task[r] EXCEPT !.pc = "settings", !.seen = settings] \in Task
    BY Fields, Numbers DEF Pc
  <2>2. task' = [task EXCEPT ![r] = [task[r] EXCEPT !.pc = "settings", !.seen = settings]]
    BY <1>23 DEF SettingsOpen
  <2>3. QED
    BY <2>1, <2>2, Changed
<1>24. ASSUME NEW s \in Status, StatusCheck(r, s) PROVE task' \in [Request -> Task]
  <2>1. [task[r] EXCEPT !.pc = "deciding", !.want = s] \in Task
    BY Fields DEF Pc
  <2>2. task' = [task EXCEPT ![r] = [task[r] EXCEPT !.pc = "deciding", !.want = s]]
    BY <1>24 DEF StatusCheck
  <2>3. QED
    BY <2>1, <2>2, Changed
<1>25. ASSUME NEW for \in Routed, RouteHit(r, for) PROVE task' \in [Request -> Task]
  <2>1. [task[r] EXCEPT !.pc = for, !.rt = cache] \in Task
    BY Fields, Numbers, Places
  <2>2. task' = [task EXCEPT ![r] = [task[r] EXCEPT !.pc = for, !.rt = cache]]
    BY <1>25 DEF RouteHit
  <2>3. QED
    BY <2>1, <2>2, Changed
<1>26. ASSUME NEW for \in Routed, RouteMiss(r, for) PROVE task' \in [Request -> Task]
  <2>1. [task[r] EXCEPT !.pc = "build", !.want = for] \in Task
    BY Fields DEF Pc
  <2>2. task' = [task EXCEPT ![r] = [task[r] EXCEPT !.pc = "build", !.want = for]]
    BY <1>26 DEF RouteMiss
  <2>3. QED
    BY <2>1, <2>2, Changed
<1>27. QED
  BY <1>1, <1>2, <1>3, <1>4, <1>5, <1>6, <1>7, <1>8, <1>9, <1>10, <1>11, <1>12, <1>13, <1>14, <1>15,
     <1>16, <1>17, <1>18, <1>19, <1>20, <1>21, <1>22, <1>23, <1>24, <1>25, <1>26 DEF Step, Arrive, Routed

\* A request keeps the state well typed.
LEMMA StateTyped ==
    ASSUME Typed, NEW r \in Request, TaskFits(r), Step(r) \/ Arrive(r)
    PROVE  Typed'
<1>1. task' \in [Request -> Task]
  BY TaskTyped
<1>2. CASE BuildEnsure(r)
  <2>1. [lifecycle |-> status, revision |-> task[r].seen, live |-> {}] \in Runtime
    BY <1>2 DEF BuildEnsure, Typed, TaskFits, Runtime, Building
  <2>2. runtimes' \in Seq(Runtime) /\ Len(runtimes') = Len(runtimes) + 1
    BY <1>2, <2>1 DEF BuildEnsure, Typed
  <2>3. QED
    BY <1>1, <1>2, <2>2 DEF BuildEnsure, Typed
<1>3. CASE FinalizeOne(r) \/ CreateRow(r)
  BY <1>1, <1>3 DEF FinalizeOne, CreateRow, Typed, RowState
<1>4. CASE InsertSession(r)
  <2>1. task[r].rt \in 1..Len(runtimes)
    BY <1>4, Places DEF InsertSession, TaskFits, Typed
  <2>2. [runtimes[task[r].rt] EXCEPT !.live = @ \cup {r}] \in Runtime
    <3>1. runtimes[task[r].rt] \in Runtime
      BY <2>1 DEF Typed
    <3>2. QED
      BY <3>1 DEF Runtime
  <2>3. runtimes' \in Seq(Runtime) /\ Len(runtimes') = Len(runtimes)
    BY <1>4, <2>1, <2>2 DEF InsertSession, Typed
  <2>4. QED
    BY <1>1, <1>4, <2>3 DEF InsertSession, Typed
<1>5. CASE StatusSwitch(r)
  <2>1. task[r].rt \in 1..Len(runtimes) /\ task[r].want \in Status
    BY <1>5, Places DEF StatusSwitch, TaskFits, Typed
  <2>2. [runtimes[task[r].rt] EXCEPT !.lifecycle = task[r].want] \in Runtime
    <3>1. runtimes[task[r].rt] \in Runtime
      BY <2>1 DEF Typed
    <3>2. QED
      BY <2>1, <3>1 DEF Runtime
  <2>3. runtimes' \in Seq(Runtime) /\ Len(runtimes') = Len(runtimes)
    BY <1>5, <2>1, <2>2 DEF StatusSwitch, Typed
  <2>4. QED
    BY <1>1, <1>5, <2>3 DEF StatusSwitch, Typed
<1>6. CASE BuildPublish(r)
  <2>1. cache' \in 0..Len(runtimes)
    BY <1>6 DEF BuildPublish, TaskFits, Typed
  <2>2. QED
    BY <1>1, <1>6, <2>1 DEF BuildPublish, Typed
<1>7. CASE StatusStore(r)
  BY <1>1, <1>7 DEF StatusStore, TaskFits, Typed
<1>8. CASE SaveCommit(r)
  <2>1. task[r].seen + 1 \in 1..MaxRevision
    BY <1>8, BoundsAssumption DEF SaveCommit, TaskFits
  <2>2. QED
    BY <1>1, <1>8, <2>1 DEF SaveCommit, Typed
<1>9. CASE SettingsCommit(r)
  <2>1. task[r].seen + 1 \in 1..MaxRevision
    BY <1>9, BoundsAssumption DEF SettingsCommit, TaskFits
  <2>2. QED
    BY <1>1, <1>9, <2>1 DEF SettingsCommit, Typed
<1>10. CASE BuildBegin(r) \/ BuildFails(r) \/ SaveLock(r) \/ SettingsInspect(r)
  BY <1>1, <1>10 DEF BuildBegin, BuildFails, SaveLock, SettingsInspect, Typed
<1>11. CASE EvictAndUnlock(r) \/ ArchiveCommit(r) \/ StatusEvict(r)
  <2>1. 0 \in 0..Len(runtimes)
    BY Numbers
  <2>2. QED
    BY <1>1, <1>11, <2>1 DEF EvictAndUnlock, ArchiveCommit, StatusEvict, Typed, Status
<1>12. CASE FinalizeList(r) \/ OpenIntake(r) \/ StatusRefused(r) \/ StatusDecide(r) \/ SettingsKeys(r)
            \/ EditOpen(r) \/ SettingsOpen(r)
  BY <1>1, <1>12 DEF FinalizeList, OpenIntake, StatusRefused, StatusDecide, SettingsKeys, EditOpen,
       SettingsOpen, Typed
<1>13. CASE (\E st \in Status : StatusCheck(r, st))
            \/ \E for \in {"visit", "status"} : RouteHit(r, for) \/ RouteMiss(r, for)
  BY <1>1, <1>13 DEF StatusCheck, RouteHit, RouteMiss, Typed
<1>14. QED
  BY <1>2, <1>3, <1>4, <1>5, <1>6, <1>7, <1>8, <1>9, <1>10, <1>11, <1>12, <1>13 DEF Step, Arrive

\* A task at rest asks for nothing.
LEMMA IdleFits ==
    ASSUME Typed', NEW r \in Request, task'[r] = Idle
    PROVE  TaskFits(r)'
<1>1. 0 \in 0..Len(runtimes')
  BY DEF Typed
<1>2. QED
  BY <1>1, IdleTask, Places DEF TaskFits, Building

\* A request leaves its own task in order.
LEMMA ActorFits ==
    ASSUME Typed, Typed', NEW r \in Request, TaskFits(r), Step(r) \/ Arrive(r)
    PROVE  TaskFits(r)'
<1> DEFINE Unmoved == /\ task'[r].rt = task[r].rt /\ task'[r].seen = task[r].seen
                      /\ task'[r].want = task[r].want
<1>1. CASE BuildBegin(r)
  <2>1. CASE cache # 0
    <3>1. task'[r].pc \in Routed /\ task'[r].rt = cache
      BY <1>1, <2>1 DEF BuildBegin, Typed, Task, TaskFits
    <3>2. cache' = cache /\ cache \in 0..Len(runtimes') /\ cache # 0
      BY <1>1, <2>1 DEF BuildBegin, Typed
    <3>3. QED
      BY <3>1, <3>2, Places DEF TaskFits, Building, Routed
  <2>2. CASE cache = 0
    <3>1. /\ task'[r].pc = "ensure" /\ task'[r].rt = task[r].rt
          /\ task'[r].want = task[r].want /\ task'[r].seen = revision
      BY <1>1, <2>2 DEF BuildBegin, Typed, Task
    <3>2. QED
      BY <1>1, <2>2, <3>1, Places DEF BuildBegin, TaskFits, Building
  <2>3. QED
    BY <2>1, <2>2
<1>2. CASE BuildEnsure(r)
  <2>1. [lifecycle |-> status, revision |-> task[r].seen, live |-> {}] \in Runtime
    BY <1>2 DEF BuildEnsure, Typed, TaskFits, Runtime, Building
  <2>2. /\ Len(runtimes') = Len(runtimes) + 1 /\ Len(runtimes) \in Nat
        /\ runtimes'[Len(runtimes) + 1].revision = task[r].seen
    BY <1>2, <2>1 DEF BuildEnsure, Typed
  <2>3. /\ task'[r].pc = "list" /\ task'[r].rt = Len(runtimes) + 1
        /\ task'[r].want = task[r].want /\ task'[r].seen = task[r].seen
    BY <1>2 DEF BuildEnsure, Typed, Task
  <2>4. QED
    BY <1>2, <2>2, <2>3, Places DEF BuildEnsure, TaskFits, Building
<1>3. CASE FinalizeList(r) \/ FinalizeOne(r)
  <2>1. task'[r].pc = "finalize" /\ Unmoved
    BY <1>3 DEF FinalizeList, FinalizeOne, Typed, Task
  <2>2. QED
    BY <1>3, <2>1, Places DEF FinalizeList, FinalizeOne, TaskFits, Building
<1>4. CASE BuildPublish(r)
  <2>1. task[r].want \in Routed /\ cache' = task[r].rt /\ task[r].rt # 0 /\ task[r].rt \in 0..Len(runtimes)
    BY <1>4, Places DEF BuildPublish, TaskFits, Building
  <2>2. task'[r].pc = task[r].want /\ task'[r].rt = cache'
    BY <1>4, IdleTask DEF BuildPublish, Typed
  <2>3. QED
    BY <1>4, <2>1, <2>2, Places DEF BuildPublish, TaskFits, Building, Routed
<1>5. CASE BuildFails(r) \/ StatusRefused(r) \/ StatusEvict(r) \/ EvictAndUnlock(r)
  <2>1. task'[r] = Idle
    BY <1>5 DEF BuildFails, StatusRefused, StatusEvict, EvictAndUnlock, Typed
  <2>2. QED
    BY <2>1, IdleFits
<1>6. CASE OpenIntake(r)
  <2>1. task'[r] = Idle \/ (task'[r].pc = "creating" /\ Unmoved)
    BY <1>6 DEF OpenIntake, Typed, Task
  <2>2. QED
    BY <1>6, <2>1, IdleFits, Places DEF OpenIntake, TaskFits, Building
<1>7. CASE CreateRow(r)
  <2>1. task'[r].pc = "inserting" /\ Unmoved
    BY <1>7 DEF CreateRow, Typed, Task
  <2>2. QED
    BY <1>7, <2>1, Places DEF CreateRow, TaskFits, Building
<1>8. CASE InsertSession(r)
  <2>1. task'[r] = Idle
    BY <1>8 DEF InsertSession, Typed
  <2>2. QED
    BY <2>1, IdleFits
<1>9. CASE StatusDecide(r)
  <2>1. task'[r] = Idle \/ (task'[r].pc = "storing" /\ Unmoved)
    BY <1>9 DEF StatusDecide, Typed, Task
  <2>2. QED
    BY <1>9, <2>1, IdleFits, Places DEF StatusDecide, TaskFits, Building
<1>10. CASE StatusStore(r)
  <2>1. task'[r].pc = "switching" /\ Unmoved
    BY <1>10 DEF StatusStore, Typed, Task
  <2>2. QED
    BY <1>10, <2>1, Places DEF StatusStore, TaskFits, Building
<1>11. CASE StatusSwitch(r)
  <2>1. task'[r] = Idle \/ (task'[r].pc = "evicting" /\ Unmoved)
    BY <1>11 DEF StatusSwitch, Typed, Task
  <2>2. Len(runtimes') = Len(runtimes)
    BY <1>11 DEF StatusSwitch, Typed
  <2>3. QED
    BY <1>11, <2>1, <2>2, IdleFits, Places DEF StatusSwitch, TaskFits, Building
<1>12. CASE SaveLock(r)
  <2>1. task'[r] = Idle \/ (task'[r].pc = "saving" /\ lock' = <<r>> /\ Unmoved)
    BY <1>12 DEF SaveLock, Typed, Task
  <2>2. QED
    BY <1>12, <2>1, IdleFits, Places DEF SaveLock, TaskFits, Building
<1>13. CASE SaveCommit(r)
  <2>1. task'[r] = Idle \/ (task'[r].pc = "unlocking" /\ lock' = lock /\ Unmoved)
    BY <1>13 DEF SaveCommit, Typed, Task
  <2>2. QED
    BY <1>13, <2>1, IdleFits, Places DEF SaveCommit, TaskFits, Building
<1>14. CASE SettingsCommit(r) \/ SettingsKeys(r)
  <2>1. task'[r] = Idle \/ (task'[r].pc \in {"keys", "inspect"} /\ Unmoved)
    BY <1>14 DEF SettingsCommit, SettingsKeys, Typed, Task
  <2>2. QED
    BY <1>14, <2>1, IdleFits, Places DEF SettingsCommit, SettingsKeys, TaskFits, Building
<1>15. CASE SettingsInspect(r) \/ ArchiveCommit(r)
  <2>1. task'[r] = Idle \/ (task'[r].pc = "unlocking" /\ lock' = <<r>> /\ Unmoved)
    BY <1>15 DEF SettingsInspect, ArchiveCommit, Typed, Task
  <2>2. QED
    BY <1>15, <2>1, IdleFits, Places DEF SettingsInspect, ArchiveCommit, TaskFits, Building
<1>16. CASE EditOpen(r)
  <2>1. task'[r].pc = "edited" /\ task'[r].rt = task[r].rt /\ task'[r].seen = revision
    BY <1>16 DEF EditOpen, Typed, Task
  <2>2. revision \in 1..(MaxRevision - 1)
    BY <1>16, BoundsAssumption DEF EditOpen, Typed
  <2>3. QED
    BY <1>16, <2>1, <2>2, Places DEF EditOpen, TaskFits, Building
<1>17. CASE SettingsOpen(r)
  <2>1. task'[r].pc = "settings" /\ task'[r].rt = task[r].rt /\ task'[r].seen = settings
    BY <1>17 DEF SettingsOpen, Typed, Task
  <2>2. settings \in 1..(MaxRevision - 1)
    BY <1>17, BoundsAssumption DEF SettingsOpen, Typed
  <2>3. QED
    BY <1>17, <2>1, <2>2, Places DEF SettingsOpen, TaskFits, Building
<1>18. ASSUME NEW st \in Status, StatusCheck(r, st) PROVE TaskFits(r)'
  <2>1. task'[r].pc = "deciding" /\ task'[r].rt = task[r].rt /\ task'[r].want = st
    BY <1>18 DEF StatusCheck, Typed, Task
  <2>2. QED
    BY <1>18, <2>1, Places DEF StatusCheck, TaskFits, Building
<1>19. ASSUME NEW for \in Routed, RouteHit(r, for) PROVE TaskFits(r)'
  <2>1. task'[r].pc = for /\ task'[r].rt = cache /\ cache # 0 /\ cache \in 0..Len(runtimes)
    BY <1>19 DEF RouteHit, Typed, Task
  <2>2. QED
    BY <1>19, <2>1, Places DEF RouteHit, TaskFits, Building, Routed
<1>20. ASSUME NEW for \in Routed, RouteMiss(r, for) PROVE TaskFits(r)'
  <2>1. task'[r].pc = "build" /\ task'[r].rt = task[r].rt /\ task'[r].want = for
    BY <1>20 DEF RouteMiss, Typed, Task
  <2>2. QED
    BY <1>20, <2>1, Places DEF RouteMiss, TaskFits, Building
<1>21. QED
  BY <1>1, <1>2, <1>3, <1>4, <1>5, <1>6, <1>7, <1>8, <1>9, <1>10, <1>11, <1>12, <1>13, <1>14, <1>15,
     <1>16, <1>17, <1>18, <1>19, <1>20 DEF Step, Arrive, Routed

\* A runtime is never dropped by a request, and its revision never changes.
LEMMA RuntimesGrow ==
    ASSUME Typed, NEW r \in Request, TaskFits(r), Step(r) \/ Arrive(r)
    PROVE  /\ Len(runtimes) \in Nat /\ Len(runtimes') \in Nat /\ Len(runtimes) <= Len(runtimes')
           /\ \A i \in 1..Len(runtimes) : /\ runtimes'[i].revision = runtimes[i].revision
                                         /\ runtimes[i].live \subseteq runtimes'[i].live
<1>1. CASE runtimes' = runtimes
  BY <1>1, Numbers
<1>2. CASE BuildEnsure(r)
  <2>1. [lifecycle |-> status, revision |-> task[r].seen, live |-> {}] \in Runtime
    BY <1>2 DEF BuildEnsure, Typed, TaskFits, Runtime, Building
  <2>2. /\ Len(runtimes') = Len(runtimes) + 1 /\ Len(runtimes) \in Nat
        /\ \A i \in 1..Len(runtimes) : runtimes'[i] = runtimes[i]
    BY <1>2, <2>1 DEF BuildEnsure, Typed
  <2>3. QED
    BY <2>2
<1>3. CASE InsertSession(r) \/ StatusSwitch(r)
  <2>1. task[r].rt \in 1..Len(runtimes)
    BY <1>3, Places DEF InsertSession, StatusSwitch, TaskFits, Typed
  <2>2. \A i \in 1..Len(runtimes) : runtimes[i] \in Runtime
    BY DEF Typed
  <2>3. Len(runtimes') = Len(runtimes) /\ Len(runtimes) \in Nat
    BY <1>3 DEF InsertSession, StatusSwitch, Typed
  <2>4. ASSUME NEW i \in 1..Len(runtimes)
        PROVE  /\ runtimes'[i].revision = runtimes[i].revision
               /\ runtimes[i].live \subseteq runtimes'[i].live
    <3>1. CASE i # task[r].rt
      BY <1>3, <3>1 DEF InsertSession, StatusSwitch, Typed
    <3>2. CASE i = task[r].rt
      <4>1. \/ runtimes'[i] = [runtimes[i] EXCEPT !.live = @ \cup {r}]
            \/ runtimes'[i] = [runtimes[i] EXCEPT !.lifecycle = task[r].want]
        BY <1>3, <3>2 DEF InsertSession, StatusSwitch, Typed
      <4>2. QED
        BY <2>2, <4>1 DEF Runtime
    <3>3. QED
      BY <3>1, <3>2
  <2>5. QED
    BY <2>3, <2>4
<1>4. QED
  BY <1>1, <1>2, <1>3 DEF Step, Arrive, BuildBegin, FinalizeList, FinalizeOne, BuildPublish, BuildFails,
     OpenIntake, CreateRow, StatusCheck, StatusRefused, StatusDecide, StatusStore,
     StatusEvict, SaveLock, SaveCommit, EvictAndUnlock, SettingsCommit, SettingsKeys,
     SettingsInspect, RouteHit, RouteMiss, EditOpen, ArchiveCommit, SettingsOpen

\* The build lock protects its holder: nobody else takes it, changes the
\* configuration, or caches a runtime.
LEMMA LockProtects ==
    ASSUME Typed, \A x \in Request : TaskFits(x), NEW r \in Request, Step(r) \/ Arrive(r),
           NEW q \in Request, q # r, task[q].pc \in Holding
    PROVE  lock' = lock /\ revision' = revision /\ (cache' = cache \/ cache' = 0)
<1>1. lock = <<q>> /\ lock # <<r>> /\ lock # NoRequest
  BY DEF TaskFits, NoRequest
<1>2. task[r].pc \notin Holding
  BY <1>1 DEF TaskFits
<1>3. QED
  BY <1>1, <1>2, Places DEF Step, Arrive, BuildBegin, BuildEnsure, FinalizeList, FinalizeOne, BuildPublish,
     BuildFails, OpenIntake, CreateRow, InsertSession, StatusCheck, StatusRefused, StatusDecide, StatusStore,
     StatusSwitch, StatusEvict, SaveLock, SaveCommit, EvictAndUnlock, SettingsCommit, SettingsKeys,
     SettingsInspect, RouteHit, RouteMiss, EditOpen, ArchiveCommit, SettingsOpen

\* The tasks of the other requests stay in order.
LEMMA OthersFit ==
    ASSUME Typed, Typed', \A x \in Request : TaskFits(x), NEW r \in Request, Step(r) \/ Arrive(r),
           NEW q \in Request, q # r
    PROVE  TaskFits(q)'
<1>1. task'[q] = task[q]
  BY OthersWait
<1>2. task[q].pc \in Holding => lock' = lock /\ revision' = revision /\ (cache' = cache \/ cache' = 0)
  BY LockProtects
<1>3. /\ Len(runtimes) \in Nat /\ Len(runtimes') \in Nat /\ Len(runtimes) <= Len(runtimes')
      /\ \A i \in 1..Len(runtimes) : runtimes'[i].revision = runtimes[i].revision
  BY RuntimesGrow
<1>4. TaskFits(q)
  OBVIOUS
<1>5. task[q].rt \in 0..Len(runtimes')
  BY <1>3, <1>4 DEF TaskFits
<1>6. task[q].pc \in {"list", "finalize"} => runtimes'[task[q].rt].revision = revision'
  <2>1. task[q].pc \in {"list", "finalize"} => task[q].rt \in 1..Len(runtimes)
    BY <1>3, <1>4, Places DEF TaskFits
  <2>2. QED
    BY <1>2, <1>3, <1>4, <2>1, Places DEF TaskFits
<1>7. QED
  BY <1>1, <1>2, <1>4, <1>5, <1>6, Places DEF TaskFits, Building

-----------------------------------------------------------------------------
(***************************************************************************)
(* What is cached, who holds a guard, whose a row is.                      *)
(***************************************************************************)

\* The cached runtime is of the stored revision or about to be evicted.
LEMMA CacheStep ==
    ASSUME Typed, \A x \in Request : TaskFits(x), CacheFits, NEW r \in Request, Step(r) \/ Arrive(r)
    PROVE  CacheFits'
<1> SUFFICES ASSUME cache' # 0
             PROVE  \/ runtimes'[cache'].revision = revision'
                    \/ \E q \in Request : task'[q].pc = "unlocking"
  BY DEF CacheFits
<1>1. TaskFits(r) /\ cache \in 0..Len(runtimes) /\ Len(runtimes) \in Nat
  BY DEF Typed
<1>2. /\ \A i \in 1..Len(runtimes) : runtimes'[i].revision = runtimes[i].revision
      /\ \A q \in Request : q # r => task'[q] = task[q]
  BY RuntimesGrow, OthersWait
<1>3. CASE SaveCommit(r)
  <2>1. CASE revision = task[r].seen /\ status = "inactive"
    <3>1. task'[r].pc = "unlocking"
      BY <1>3, <2>1 DEF SaveCommit, Typed, Task
    <3>2. QED
      BY <3>1
  <2>2. CASE ~(revision = task[r].seen /\ status = "inactive")
    <3>1. UNCHANGED <<cache, revision>> /\ task[r].pc = "saving"
      BY <1>3, <2>2 DEF SaveCommit
    <3>2. QED
      BY <1>1, <1>2, <3>1 DEF CacheFits
  <2>3. QED
    BY <2>1, <2>2
<1>4. CASE BuildPublish(r)
  <2>1. cache' = task[r].rt /\ task[r].rt \in 1..Len(runtimes) /\ runtimes[task[r].rt].revision = revision
    BY <1>1, <1>4, Places DEF BuildPublish, TaskFits, Building
  <2>2. QED
    BY <1>4, <2>1 DEF BuildPublish
<1>5. CASE EvictAndUnlock(r) \/ StatusEvict(r)
  BY <1>5 DEF EvictAndUnlock, StatusEvict
<1>6. CASE UNCHANGED <<cache, revision>> /\ task[r].pc # "unlocking"
  BY <1>1, <1>2, <1>6 DEF CacheFits
<1>7. QED
  BY <1>3, <1>4, <1>5, <1>6 DEF Step, Arrive, BuildBegin, BuildEnsure, FinalizeList, FinalizeOne,
     BuildFails, OpenIntake, CreateRow, InsertSession, StatusCheck, StatusRefused, StatusDecide, StatusStore,
     StatusSwitch, SaveLock, SettingsCommit, SettingsKeys,
     SettingsInspect, RouteHit, RouteMiss, EditOpen, ArchiveCommit, SettingsOpen

\* A lifecycle guard is taken at the intake check and at the decision on a
\* status, and kept for the same runtime until it is released.
GuardKept(r) ==
    /\ task'[r].pc \in Writing => /\ task'[r].rt = task[r].rt
                                  /\ task[r].pc \in Writing \/ Readers(task[r].rt) = {}
    /\ task'[r].pc \in Reading => /\ task'[r].rt = task[r].rt /\ task[r].pc \in Using
                                  /\ \/ task[r].pc \in Reading
                                     \/ /\ Writers(task[r].rt) = {}
                                        /\ AllowsIntake(runtimes[task[r].rt].lifecycle)

\* Every step of a request keeps to that.
LEMMA GuardMoves ==
    ASSUME Typed, NEW r \in Request, TaskFits(r), Step(r) \/ Arrive(r)
    PROVE  GuardKept(r)
<1>1. CASE OpenIntake(r)
  <2>1. task'[r] = Idle \/ /\ task'[r].pc = "creating" /\ task'[r].rt = task[r].rt
                           /\ AllowsIntake(runtimes[task[r].rt].lifecycle)
    BY <1>1 DEF OpenIntake, Typed, Task
  <2>2. QED
    BY <1>1, <2>1, IdleTask, Places DEF OpenIntake, GuardKept, Writing, Reading
<1>2. CASE CreateRow(r)
  <2>1. task'[r].pc = "inserting" /\ task'[r].rt = task[r].rt
    BY <1>2 DEF CreateRow, Typed, Task
  <2>2. QED
    BY <1>2, <2>1, Places DEF CreateRow, GuardKept, Writing, Reading
<1>3. CASE StatusDecide(r)
  <2>1. task'[r] = Idle \/ (task'[r].pc = "storing" /\ task'[r].rt = task[r].rt)
    BY <1>3 DEF StatusDecide, Typed, Task
  <2>2. QED
    BY <1>3, <2>1, IdleTask DEF StatusDecide, GuardKept, Writing, Reading
<1>4. CASE StatusStore(r) \/ StatusSwitch(r)
  <2>1. task'[r] = Idle \/ (task'[r].pc \in {"switching", "evicting"} /\ task'[r].rt = task[r].rt)
    BY <1>4 DEF StatusStore, StatusSwitch, Typed, Task
  <2>2. QED
    BY <1>4, <2>1, IdleTask DEF StatusStore, StatusSwitch, GuardKept, Writing, Reading
<1>5. CASE BuildBegin(r)
  <2>1. task'[r].pc \in Routed \cup {"ensure"}
    BY <1>5 DEF BuildBegin, TaskFits, Typed, Task
  <2>2. QED
    BY <2>1 DEF GuardKept, Writing, Reading, Routed
<1>6. CASE BuildPublish(r)
  <2>1. task'[r].pc \in Routed
    BY <1>6, IdleTask DEF BuildPublish, TaskFits, Building, Typed
  <2>2. QED
    BY <2>1 DEF GuardKept, Writing, Reading, Routed
<1>7. CASE BuildEnsure(r) \/ FinalizeList(r) \/ FinalizeOne(r) \/ BuildFails(r)
  <2>1. task'[r] = Idle \/ task'[r].pc \in {"list", "finalize"}
    BY <1>7 DEF BuildEnsure, FinalizeList, FinalizeOne, BuildFails, Typed, Task
  <2>2. QED
    BY <2>1, IdleTask DEF GuardKept, Writing, Reading
<1>8. CASE InsertSession(r) \/ StatusRefused(r) \/ StatusEvict(r) \/ EvictAndUnlock(r)
  <2>1. task'[r].pc = "idle"
    BY <1>8, IdleTask DEF InsertSession, StatusRefused, StatusEvict, EvictAndUnlock, Typed
  <2>2. QED
    BY <2>1 DEF GuardKept, Writing, Reading
<1>9. CASE SaveLock(r) \/ SaveCommit(r) \/ ArchiveCommit(r) \/ EditOpen(r)
  <2>1. task'[r] = Idle \/ task'[r].pc \in {"saving", "unlocking", "edited"}
    BY <1>9 DEF SaveLock, SaveCommit, ArchiveCommit, EditOpen, Typed, Task
  <2>2. QED
    BY <2>1, IdleTask DEF GuardKept, Writing, Reading
<1>10. CASE SettingsOpen(r) \/ SettingsCommit(r) \/ SettingsKeys(r) \/ SettingsInspect(r)
  <2>1. task'[r] = Idle \/ task'[r].pc \in {"settings", "keys", "inspect", "unlocking"}
    BY <1>10 DEF SettingsOpen, SettingsCommit, SettingsKeys, SettingsInspect, Typed, Task
  <2>2. QED
    BY <2>1, IdleTask DEF GuardKept, Writing, Reading
<1>11. CASE (\E st \in Status : StatusCheck(r, st))
            \/ \E for \in {"visit", "status"} : RouteHit(r, for) \/ RouteMiss(r, for)
  <2>1. task'[r].pc \in {"deciding", "visit", "status", "build"}
    BY <1>11 DEF StatusCheck, RouteHit, RouteMiss, Typed, Task
  <2>2. QED
    BY <2>1 DEF GuardKept, Writing, Reading
<1>12. QED
  BY <1>1, <1>2, <1>3, <1>4, <1>5, <1>6, <1>7, <1>8, <1>9, <1>10, <1>11 DEF Step, Arrive

\* The guards go on excluding each other.
LEMMA GuardsStep ==
    ASSUME Typed, GuardsExclude, NEW r \in Request, TaskFits(r), Step(r) \/ Arrive(r)
    PROVE  GuardsExclude'
<1> SUFFICES ASSUME NEW w \in Request, NEW q \in Request,
                    task'[w].pc \in Writing, task'[q].pc \in Reading
             PROVE  task'[w].rt # task'[q].rt
  BY DEF GuardsExclude
<1>1. w # q
  BY DEF Writing, Reading
<1>2. GuardKept(r) /\ \A x \in Request : x # r => task'[x] = task[x]
  BY GuardMoves, OthersWait
<1>3. CASE w # r /\ q # r
  BY <1>2, <1>3 DEF GuardsExclude
<1>4. CASE w = r
  <2>1. task'[r].rt = task[r].rt /\ (task[r].pc \in Writing \/ Readers(task[r].rt) = {})
    BY <1>2, <1>4 DEF GuardKept
  <2>2. task'[q] = task[q]
    BY <1>1, <1>2, <1>4
  <2>3. CASE task[r].pc \in Writing
    BY <1>4, <2>1, <2>2, <2>3 DEF GuardsExclude
  <2>4. CASE Readers(task[r].rt) = {}
    BY <1>4, <2>1, <2>2, <2>4 DEF Readers, Reading
  <2>5. QED
    BY <2>1, <2>3, <2>4
<1>5. CASE q = r
  <2>1. task'[r].rt = task[r].rt /\ (task[r].pc \in Reading \/ Writers(task[r].rt) = {})
    BY <1>2, <1>5 DEF GuardKept
  <2>2. task'[w] = task[w]
    BY <1>1, <1>2, <1>5
  <2>3. CASE task[r].pc \in Reading
    BY <1>5, <2>1, <2>2, <2>3 DEF GuardsExclude
  <2>4. CASE Writers(task[r].rt) = {}
    BY <1>5, <2>1, <2>2, <2>4 DEF Writers, Writing
  <2>5. QED
    BY <2>1, <2>3, <2>4
<1>6. QED
  BY <1>3, <1>4, <1>5

\* The status of a runtime is written by the holder of its write guard only.
LEMMA LifecycleMoves ==
    ASSUME Typed, NEW r \in Request, TaskFits(r), Step(r) \/ Arrive(r),
           NEW i \in 1..Len(runtimes)
    PROVE  \/ runtimes'[i].lifecycle = runtimes[i].lifecycle
           \/ StatusSwitch(r) /\ i = task[r].rt
<1>1. runtimes[i] \in Runtime
  BY DEF Typed
<1>2. CASE BuildEnsure(r)
  BY <1>2 DEF BuildEnsure, Typed
<1>3. CASE InsertSession(r)
  <2>1. CASE i # task[r].rt
    BY <1>3, <2>1 DEF InsertSession, Typed
  <2>2. CASE i = task[r].rt
    <3>1. runtimes' = [runtimes EXCEPT ![i] = [runtimes[i] EXCEPT !.live = @ \cup {r}]]
      BY <1>3, <2>2 DEF InsertSession
    <3>2. i \in DOMAIN runtimes
      BY DEF Typed
    <3>3. runtimes'[i] = [runtimes[i] EXCEPT !.live = @ \cup {r}]
      BY <3>1, <3>2
    <3>4. QED
      BY <1>1, <3>3 DEF Runtime
  <2>3. QED
    BY <2>1, <2>2
<1>4. CASE StatusSwitch(r)
  BY <1>4 DEF StatusSwitch, Typed
<1>5. QED
  BY <1>2, <1>3, <1>4 DEF Step, Arrive, BuildBegin, FinalizeList, FinalizeOne, BuildPublish, BuildFails,
     OpenIntake, CreateRow, StatusCheck, StatusRefused, StatusDecide, StatusStore,
     StatusEvict, SaveLock, SaveCommit, EvictAndUnlock, SettingsCommit, SettingsKeys,
     SettingsInspect, RouteHit, RouteMiss, EditOpen, ArchiveCommit, SettingsOpen

\* Intake stays open under a request that has passed the check.
LEMMA IntakeStep ==
    ASSUME Typed, \A x \in Request : TaskFits(x), GuardsExclude, IntakeIsOpen,
           NEW r \in Request, Step(r) \/ Arrive(r)
    PROVE  IntakeIsOpen'
<1> SUFFICES ASSUME NEW q \in Request, task'[q].pc \in Reading
             PROVE  AllowsIntake(runtimes'[task'[q].rt].lifecycle)
  BY DEF IntakeIsOpen, Reading
<1>1. GuardKept(r) /\ \A x \in Request : x # r => task'[x] = task[x]
  BY GuardMoves, OthersWait
<1>2. task'[q].rt = task[q].rt /\ AllowsIntake(runtimes[task[q].rt].lifecycle)
  BY <1>1 DEF GuardKept, IntakeIsOpen, Reading
<1>3. task[q].rt \in 1..Len(runtimes)
  <2>1. task[q].pc \in Using
    <3>1. CASE q # r
      BY <1>1, <3>1 DEF Using
    <3>2. CASE q = r
      BY <1>1, <3>2 DEF GuardKept
    <3>3. QED
      BY <3>1, <3>2
  <2>2. QED
    BY <2>1, Numbers DEF TaskFits
<1>4. ~(StatusSwitch(r) /\ task[q].rt = task[r].rt)
  <2>1. SUFFICES ASSUME StatusSwitch(r) PROVE task[q].rt # task[r].rt
    OBVIOUS
  <2>2. task[r].pc \in Writing /\ task'[r].pc \notin Reading
    BY <2>1, IdleTask DEF StatusSwitch, Writing, Reading, Typed, Task
  <2>3. q # r /\ task[q].pc \in Reading
    BY <1>1, <2>2
  <2>4. QED
    BY <2>2, <2>3 DEF GuardsExclude
<1>5. QED
  BY <1>2, <1>3, <1>4, LifecycleMoves

\* Whoever had an open row, or gets one, has it accounted for.
LEMMA RowsStep ==
    ASSUME Typed, \A x \in Request : TaskFits(x), RowsAreAccounted,
           NEW r \in Request, Step(r) \/ Arrive(r)
    PROVE  RowsAreAccounted'
<1> SUFFICES ASSUME NEW v \in Request, row'[v] = "open", ~Placed(v)'
             PROVE  cache' = 0 /\ \A q \in Request : task'[q].pc = "finalize" => v \in task'[q].rows
  BY DEF RowsAreAccounted
<1>1. /\ \A x \in Request : x # r => task'[x] = task[x]
      /\ Len(runtimes) \in Nat /\ Len(runtimes') \in Nat /\ Len(runtimes) <= Len(runtimes')
      /\ \A i \in 1..Len(runtimes) : runtimes[i].live \subseteq runtimes'[i].live
  BY OthersWait, RuntimesGrow
<1>2. DOMAIN runtimes = 1..Len(runtimes)
  BY DEF Typed
<1>3. DOMAIN runtimes' = 1..Len(runtimes')
  <2>1. Typed'
    BY StateTyped
  <2>2. QED
    BY <2>1 DEF Typed
<1>4. row[v] = "open"
  <2>1. CASE CreateRow(r)
    <3>1. task'[r].pc = "inserting"
      BY <2>1 DEF CreateRow, Typed, Task
    <3>2. v # r
      BY <3>1 DEF Placed
    <3>3. QED
      BY <2>1, <3>2 DEF CreateRow, Typed
  <2>2. CASE FinalizeOne(r)
    BY <2>2 DEF FinalizeOne, Typed
  <2>3. QED
    BY <2>1, <2>2 DEF Step, Arrive, BuildBegin, BuildEnsure, FinalizeList, BuildPublish, BuildFails,
       OpenIntake, InsertSession, StatusCheck, StatusRefused, StatusDecide, StatusStore, StatusSwitch,
       StatusEvict, SaveLock, SaveCommit, EvictAndUnlock, SettingsCommit, SettingsKeys,
       SettingsInspect, RouteHit, RouteMiss, EditOpen, ArchiveCommit, SettingsOpen
<1>5. ~Placed(v)
  <2>1. SUFFICES ASSUME Placed(v) PROVE FALSE
    OBVIOUS
  <2>2. CASE \E i \in DOMAIN runtimes : v \in runtimes[i].live
    BY <1>1, <1>2, <1>3, <2>2 DEF Placed
  <2>3. CASE task[v].pc = "inserting" /\ v # r
    BY <1>1, <2>3 DEF Placed
  <2>4. CASE task[v].pc = "inserting" /\ v = r
    <3>1. InsertSession(r)
      BY <2>4 DEF Step, Arrive, BuildBegin, BuildEnsure, FinalizeList, FinalizeOne, BuildPublish,
         BuildFails, OpenIntake, CreateRow, StatusCheck, StatusRefused, StatusDecide, StatusStore,
         StatusSwitch, StatusEvict, SaveLock, SaveCommit, EvictAndUnlock, SettingsCommit, SettingsKeys,
         SettingsInspect, RouteHit, RouteMiss, EditOpen, ArchiveCommit, SettingsOpen
    <3>2. task[r].rt \in 1..Len(runtimes)
      BY <1>1, <2>4, Places DEF TaskFits
    <3>3. runtimes[task[r].rt] \in Runtime /\ task[r].rt \in DOMAIN runtimes
      BY <3>2 DEF Typed
    <3>4. runtimes'[task[r].rt] = [runtimes[task[r].rt] EXCEPT !.live = @ \cup {r}]
      BY <3>1, <3>3 DEF InsertSession
    <3>5. r \in runtimes'[task[r].rt].live
      BY <3>3, <3>4 DEF Runtime
    <3>6. QED
      BY <1>1, <1>3, <2>4, <3>2, <3>5 DEF Placed
  <2>5. QED
    BY <2>1, <2>2, <2>3, <2>4 DEF Placed
<1>6. cache = 0 /\ \A q \in Request : task[q].pc = "finalize" => v \in task[q].rows
  BY <1>4, <1>5 DEF RowsAreAccounted
<1>7. ~BuildPublish(r)
  BY <1>6 DEF BuildPublish
<1>8. cache' = 0
  BY <1>6, <1>7 DEF Step, Arrive, BuildBegin, BuildEnsure, FinalizeList, FinalizeOne, BuildFails,
     OpenIntake, CreateRow, InsertSession, StatusCheck, StatusRefused, StatusDecide, StatusStore,
     StatusSwitch, StatusEvict, SaveLock, SaveCommit, EvictAndUnlock, SettingsCommit, SettingsKeys,
     SettingsInspect, RouteHit, RouteMiss, EditOpen, ArchiveCommit, SettingsOpen
<1>9. task'[r].pc = "finalize" => v \in task'[r].rows
  <2>1. CASE FinalizeList(r)
    <3>1. task'[r].rows = {x \in Request : row[x] = "open"}
      BY <2>1 DEF FinalizeList, Typed, Task
    <3>2. QED
      BY <1>4, <3>1
  <2>2. CASE FinalizeOne(r)
    <3>1. PICK x \in task[r].rows : /\ row' = [row EXCEPT ![x] = IF @ = "open" THEN "interrupted" ELSE @]
                                    /\ task' = [task EXCEPT ![r].rows = @ \ {x}]
      BY <2>2 DEF FinalizeOne
    <3>2. task'[r].rows = task[r].rows \ {x}
      BY <3>1 DEF Typed, Task
    <3>3. x # v
      BY <1>4, <3>1 DEF Typed
    <3>4. QED
      BY <1>6, <2>2, <3>2, <3>3 DEF FinalizeOne
  <2>3. CASE BuildBegin(r)
    <3>1. task'[r].pc = "ensure"
      BY <1>6, <2>3 DEF BuildBegin, Typed, Task
    <3>2. QED
      BY <3>1
  <2>4. CASE BuildEnsure(r) \/ BuildFails(r) \/ CreateRow(r)
    <3>1. task'[r] = Idle \/ task'[r].pc \in {"list", "inserting"}
      BY <2>4 DEF BuildEnsure, BuildFails, CreateRow, Typed, Task
    <3>2. QED
      BY <3>1, IdleTask
  <2>5. CASE OpenIntake(r) \/ InsertSession(r) \/ StatusRefused(r) \/ StatusDecide(r) \/ StatusStore(r)
             \/ StatusSwitch(r) \/ StatusEvict(r)
    <3>1. task'[r] = Idle \/ task'[r].pc \in {"creating", "storing", "switching", "evicting"}
      BY <2>5 DEF OpenIntake, InsertSession, StatusRefused, StatusDecide, StatusStore, StatusSwitch,
           StatusEvict, Typed, Task
    <3>2. QED
      BY <3>1, IdleTask
  <2>6. CASE SaveLock(r) \/ SaveCommit(r) \/ EvictAndUnlock(r) \/ ArchiveCommit(r) \/ EditOpen(r)
    <3>1. task'[r] = Idle \/ task'[r].pc \in {"saving", "unlocking", "edited"}
      BY <2>6 DEF SaveLock, SaveCommit, EvictAndUnlock, ArchiveCommit, EditOpen, Typed, Task
    <3>2. QED
      BY <3>1, IdleTask
  <2>7. CASE SettingsOpen(r) \/ SettingsCommit(r) \/ SettingsKeys(r) \/ SettingsInspect(r)
    <3>1. task'[r] = Idle \/ task'[r].pc \in {"settings", "keys", "inspect", "unlocking"}
      BY <2>7 DEF SettingsOpen, SettingsCommit, SettingsKeys, SettingsInspect, Typed, Task
    <3>2. QED
      BY <3>1, IdleTask
  <2>8. CASE (\E st \in Status : StatusCheck(r, st))
             \/ \E for \in {"visit", "status"} : RouteHit(r, for) \/ RouteMiss(r, for)
    <3>1. task'[r].pc \in {"deciding", "visit", "status", "build"}
      BY <2>8 DEF StatusCheck, RouteHit, RouteMiss, Typed, Task
    <3>2. QED
      BY <3>1
  <2>9. QED
    BY <1>7, <2>1, <2>2, <2>3, <2>4, <2>5, <2>6, <2>7, <2>8 DEF Step, Arrive
<1>10. QED
  BY <1>1, <1>6, <1>8, <1>9

-----------------------------------------------------------------------------
(***************************************************************************)
(* The end of a live session, and the restart of the process.              *)
(***************************************************************************)

\* The end of a live session closes its own row and touches no task.
LEMMA EndStep ==
    ASSUME IInv, NEW i \in DOMAIN runtimes, NEW v \in Request, EndLive(i, v)
    PROVE  IInv'
<1>1. Typed /\ DOMAIN runtimes = 1..Len(runtimes) /\ Len(runtimes) \in Nat
  BY DEF IInv, Typed
<1>2. \A j \in DOMAIN runtimes : runtimes[j] \in Runtime
  BY <1>1 DEF Typed
<1>3. runtimes' = [runtimes EXCEPT ![i] = [runtimes[i] EXCEPT !.live = @ \ {v}]]
  BY DEF EndLive
<1>4. [runtimes[i] EXCEPT !.live = @ \ {v}] \in Runtime
  BY <1>2 DEF Runtime
<1>5. runtimes' \in Seq(Runtime) /\ Len(runtimes') = Len(runtimes) /\ DOMAIN runtimes' = DOMAIN runtimes
  BY <1>1, <1>3, <1>4 DEF Typed
<1>6. ASSUME NEW j \in DOMAIN runtimes
      PROVE  /\ runtimes'[j].revision = runtimes[j].revision
             /\ runtimes'[j].lifecycle = runtimes[j].lifecycle
             /\ runtimes[j].live \subseteq runtimes'[j].live \cup {v}
  <2>1. CASE j # i
    BY <1>3, <2>1
  <2>2. CASE j = i
    <3>1. runtimes'[i] = [runtimes[i] EXCEPT !.live = @ \ {v}]
      BY <1>3
    <3>2. QED
      BY <1>2, <2>2, <3>1 DEF Runtime
  <2>3. QED
    BY <2>1, <2>2
<1>7. /\ row' \in [Request -> RowState] /\ row'[v] # "open"
      /\ \A x \in Request : row'[x] = "open" => row[x] = "open"
  BY <1>1 DEF EndLive, Typed, RowState
<1>8. Typed'
  BY <1>1, <1>5, <1>7 DEF EndLive, Typed
<1>9. ASSUME NEW q \in Request PROVE TaskFits(q)'
  <2>1. TaskFits(q) /\ UNCHANGED <<task, lock, revision, cache>>
    BY DEF IInv, EndLive
  <2>2. task[q].pc \in {"list", "finalize"} => task[q].rt \in DOMAIN runtimes
    BY <1>1, <2>1, Places DEF TaskFits
  <2>3. QED
    BY <1>5, <1>6, <2>1, <2>2 DEF TaskFits
<1>10. CacheFits'
  <2>1. cache # 0 => cache \in DOMAIN runtimes
    BY <1>1 DEF Typed
  <2>2. QED
    BY <1>6, <2>1 DEF IInv, CacheFits, EndLive
<1>11. GuardsExclude'
  BY DEF IInv, GuardsExclude, EndLive
<1>12. RowsAreAccounted'
  <2>1. ASSUME NEW x \in Request, row'[x] = "open", Placed(x) PROVE Placed(x)'
    <3>1. x # v
      BY <1>7, <2>1
    <3>2. CASE \E j \in DOMAIN runtimes : x \in runtimes[j].live
      BY <1>5, <1>6, <3>1, <3>2 DEF Placed
    <3>3. CASE task[x].pc = "inserting"
      BY <3>3 DEF Placed, EndLive
    <3>4. QED
      BY <2>1, <3>2, <3>3 DEF Placed
  <2>2. QED
    BY <1>7, <2>1 DEF IInv, RowsAreAccounted, EndLive
<1>13. IntakeIsOpen'
  <2>1. SUFFICES ASSUME NEW q \in Request, task[q].pc \in {"creating", "inserting"}
                 PROVE  AllowsIntake(runtimes'[task[q].rt].lifecycle)
    BY DEF IntakeIsOpen, EndLive
  <2>2. task[q].rt \in DOMAIN runtimes
    BY <1>1, <2>1, Places DEF IInv, TaskFits
  <2>3. QED
    BY <1>6, <2>1, <2>2 DEF IInv, IntakeIsOpen
<1>14. QED
  BY <1>8, <1>9, <1>10, <1>11, <1>12, <1>13 DEF IInv

\* Nothing of an AppState survives the process.
LEMMA RestartStep ==
    ASSUME IInv, Restart
    PROVE  IInv'
<1>1. Typed /\ runtimes' = << >> /\ cache' = 0 /\ lock' = NoRequest /\ task' = [r \in Request |-> Idle]
  BY DEF IInv, Restart
<1>2. runtimes' \in Seq(Runtime) /\ Len(runtimes') = 0
  BY <1>1
<1>3. task' \in [Request -> Task]
  BY <1>1, IdleTask
<1>4. status' \in Status
  BY <1>1 DEF Restart, Typed, Status
<1>5. Typed'
  BY <1>1, <1>2, <1>3, <1>4 DEF Restart, Typed
<1>6. \A r \in Request : task'[r] = Idle
  BY <1>1
<1>7. \A r \in Request : TaskFits(r)'
  BY <1>5, <1>6, IdleFits
<1>8. CacheFits'
  BY <1>1 DEF CacheFits
<1>9. GuardsExclude' /\ RowsAreAccounted' /\ IntakeIsOpen'
  BY <1>1, <1>6, IdleTask DEF GuardsExclude, RowsAreAccounted, IntakeIsOpen, Writing
<1>10. QED
  BY <1>5, <1>7, <1>8, <1>9 DEF IInv

\* The process starts with no runtime and nothing stored.
LEMMA InitHolds == Init => IInv
<1> SUFFICES ASSUME Init PROVE IInv
  OBVIOUS
<1>1. /\ runtimes = << >> /\ cache = 0 /\ lock = NoRequest /\ row = [r \in Request |-> "none"]
      /\ status = "inactive" /\ revision = 1 /\ settings = 1 /\ task = [r \in Request |-> Idle]
  BY DEF Init
<1>2. runtimes \in Seq(Runtime) /\ Len(runtimes) = 0
  BY <1>1
<1>3. Typed
  <2>1. 1 \in 1..MaxRevision /\ 0 \in 0..0
    BY BoundsAssumption
  <2>2. task \in [Request -> Task] /\ row \in [Request -> RowState] /\ status \in Status
    BY <1>1, IdleTask DEF RowState, Status
  <2>3. QED
    BY <1>1, <1>2, <2>1, <2>2 DEF Typed
<1>4. \A r \in Request : task[r] = Idle
  BY <1>1
<1>5. ASSUME NEW r \in Request PROVE TaskFits(r)
  <2>1. task[r].pc = "idle" /\ task[r].rt = 0
    BY <1>4, IdleTask
  <2>2. 0 \in 0..Len(runtimes)
    BY <1>2
  <2>3. QED
    BY <2>1, <2>2, Places DEF TaskFits, Building
<1>6. CacheFits /\ GuardsExclude /\ RowsAreAccounted /\ IntakeIsOpen
  BY <1>1, <1>4, IdleTask DEF CacheFits, GuardsExclude, RowsAreAccounted, IntakeIsOpen, Writing
<1>7. QED
  BY <1>3, <1>5, <1>6 DEF IInv

\* The invariant is inductive.
LEMMA StepHolds ==
    ASSUME IInv, [Next]_vars
    PROVE  IInv'
<1>1. ASSUME NEW r \in Request, Step(r) \/ Arrive(r) PROVE IInv'
  <2>1. /\ Typed /\ (\A q \in Request : TaskFits(q))
        /\ CacheFits /\ GuardsExclude /\ RowsAreAccounted /\ IntakeIsOpen
    BY DEF IInv
  <2>2. Typed'
    BY <1>1, <2>1, StateTyped
  <2>3. \A q \in Request : TaskFits(q)'
    BY <1>1, <2>1, <2>2, ActorFits, OthersFit
  <2>4. CacheFits' /\ GuardsExclude'
    BY <1>1, <2>1, CacheStep, GuardsStep
  <2>5. RowsAreAccounted' /\ IntakeIsOpen'
    BY <1>1, <2>1, RowsStep, IntakeStep
  <2>6. QED
    BY <2>2, <2>3, <2>4, <2>5 DEF IInv
<1>2. CASE UNCHANGED vars
  BY <1>2 DEF IInv, Typed, TaskFits, CacheFits, GuardsExclude, RowsAreAccounted, Placed, IntakeIsOpen, vars
<1>3. QED
  BY <1>1, <1>2, EndStep, RestartStep DEF Next

\* In every reachable state the runtimes of an experiment are sound: the state
\* is well typed, the cached runtime is of the stored revision whenever nobody
\* holds the build lock, only one runtime is built at a time and only while
\* none is cached, no row that an earlier runtime left open escapes the
\* finalization, and a session is created only while intake is open
\* (experiment_router, build_router_with_resources, create_session,
\* admin_update_experiment_status, admin_save_experiment_config and
\* finalize_interrupted_sessions, for any requests and any bounds).
THEOREM RuntimesStaySound == Spec => []RuntimeIsSound
<1>1. Init => IInv
  BY InitHolds
<1>2. IInv /\ [Next]_vars => IInv'
  BY StepHolds
<1>3. IInv => RuntimeIsSound
  <2> SUFFICES ASSUME IInv PROVE RuntimeIsSound
    OBVIOUS
  <2>1. Typed /\ \A r \in Request : TaskFits(r)
    BY DEF IInv
  <2>2. TypeOK
    <3>1. \A i \in DOMAIN runtimes : runtimes[i] \in Runtime
      BY <2>1 DEF Typed
    <3>2. \A r \in Request : task[r].pc \in Pc /\ task[r].rt \in 0..Len(runtimes)
      BY <2>1 DEF Typed, TaskFits, Task
    <3>3. QED
      BY <2>1, <3>1, <3>2 DEF TypeOK, Typed, Runtime, RowState
  <2>3. CachedConfigIsCurrent
    <3>1. lock = NoRequest => \A r \in Request : task[r].pc # "unlocking"
      BY <2>1, Places DEF TaskFits, NoRequest
    <3>2. QED
      BY <3>1 DEF IInv, CacheFits, CachedConfigIsCurrent
  <2>4. BuildOnce
    BY <2>1 DEF BuildOnce, TaskFits, Building
  <2>5. NoOrphanRow
    BY DEF IInv, RowsAreAccounted, NoOrphanRow, Placed
  <2>6. QED
    BY <2>2, <2>3, <2>4, <2>5 DEF RuntimeIsSound, IInv
<1>4. QED
  BY <1>1, <1>2, <1>3, PTL DEF Spec

-----------------------------------------------------------------------------
(* The headless session *)

\* Where a session is decided, and where its agents are still to be asked.
Over == pc \in {"shutdown", "done"}
Acting == {"observeA", "observeB"}
Ran == result.accepted <= MaxActions /\ result.rejected <= MaxRejections /\ result.messages <= MaxMessages

\* A session that goes on has no status yet but that of a failure.
Undecided == ~Over => result.status = "failed"

\* Seat A is always the first to be made, started, told of the end and shut down;
\* nobody is told of an end before the game has reached it.
SeatsInOrder ==
    /\ pc \in {"game", "state"} => turn = "A"
    /\ pc \notin {"finish", "shutdown", "done"} => \A r \in Role : "finished" \notin agent[r]
    /\ pc = "finish" =>
          /\ IsComplete(state) /\ "finished" \notin agent["B"]
          /\ ("finished" \in agent["A"]) <=> turn = "B"
    /\ Over =>
          /\ (result.status = "completed") <=> (\A r \in Role : "finished" \in agent[r])
          /\ (\E r \in Role : "finished" \in agent[r]) => IsComplete(state)
    /\ pc = "shutdown" /\ turn = "B" /\ agent["A"] # {} => "down" \in agent["A"]
    /\ pc = "done" => \A r \in Role : agent[r] # {} => "down" \in agent[r]

\* What each agent has seen: the state, or the one an action has led to.
ViewsFollow ==
    /\ pc \in {"loop", "message", "after"} => \A r \in Role : view[r] = {Observation(state, r)}
    /\ pc = "start" /\ turn = "B" => view["A"] = {Observation(state, "A")}
    /\ pc = "observeB" => view["A"] = {Observation(next, "A")}

\* The counts stay below their limits while the session goes on, and meet one
\* only in the round that ends it.
CountsFit ==
    /\ result.decisions <= MaxDecisions /\ Ran
    /\ pc \in {"game", "create", "state", "start"} =>
          result.accepted = 0 /\ result.rejected = 0 /\ result.messages = 0
    /\ pc = "loop" =>
          result.accepted < MaxActions /\ result.rejected < MaxRejections /\ result.messages < MaxMessages
    /\ pc \in Acting \cup {"message"} => result.messages < MaxMessages
    /\ pc = "message" => HasMessage(response)
    /\ result.status = "action_limit" => result.accepted = MaxActions
    /\ result.status = "message_limit" => result.messages = MaxMessages
    /\ result.status = "rejection_limit" => result.rejected = MaxRejections
    /\ result.status = "decision_limit" => result.decisions = MaxDecisions

\* The schedule remembers who has yielded since the last output.
YieldsAreKnown ==
    /\ pc \in {"game", "create", "state", "start"} => yielded = {} /\ previousYield = Nobody
    /\ pc = "loop" => yielded = {previousYield} \ {Nobody}
    /\ pc \in Acting => HasAction(response)
    /\ pc \in {"message", "after"} \cup Acting =>
          yielded = IF response = "yield" THEN {turn, previousYield} \ {Nobody} ELSE {}
    /\ result.status = "quiescent" => yielded = Role

\* The last captured step is of a decision that has been made, and is terminal
\* only when the game has ended with it.
Steps == [decision : 1 .. MaxDecisions, accepted : BOOLEAN, terminal : BOOLEAN]
StepsInOrder ==
    /\ \A i \in DOMAIN trajectory : trajectory[i].decision <= result.decisions
    /\ pc \in Acting => /\ 1 <= result.decisions
                        /\ \A i \in DOMAIN trajectory : trajectory[i].decision < result.decisions
    /\ pc \in {"loop"} \cup Acting => \A i \in DOMAIN trajectory : ~trajectory[i].terminal
    /\ TrajectoryIsOrdered

\* A response is of a known kind, and there is a view for each role.
Shape == response \in {"yield", "message", "action", "both"} /\ view = [r \in Role |-> view[r]]

\* The inductive invariant.
PlayIInv ==
    /\ PlayTypeOK /\ Shape
    /\ Undecided /\ SeatsInOrder /\ ViewsFollow /\ CountsFit /\ YieldsAreKnown /\ StepsInOrder

\* The limits are positive, and the parameters of a session are of their types.
LEMMA PlayBounds ==
    /\ MaxDecisions \in Nat /\ MaxDecisions > 0 /\ MaxActions \in Nat /\ MaxActions > 0
    /\ MaxMessages \in Nat /\ MaxMessages > 0 /\ MaxRejections \in Nat /\ MaxRejections > 0
    /\ Schedules \subseteq {"alternate_every_response", "alternate_after_action"} /\ Trainings \subseteq BOOLEAN
BY LimitsAssumption, SchedulesAssumption

\* The type of a session's result.
ResultType == [status : SessionStatus, decisions : Nat, accepted : Nat, rejected : Nat, messages : Nat]

\* What drive_session returns with: the result has a status and its counts stay.
Ends(how) ==
    /\ pc' = "shutdown" /\ turn' = "A"
    /\ result' = [status |-> how, decisions |-> result.decisions, accepted |-> result.accepted,
                  rejected |-> result.rejected, messages |-> result.messages]

\* Leaving the session decides its status and nothing else of the result.
LEMMA LeaveEnds ==
    ASSUME PlayTypeOK, NEW how, Leave(how)
    PROVE  Ends(how)
BY DEF PlayTypeOK, Leave, Ends

\* A call of an agent's start fails, or shows it the state.
LEMMA StartEffects ==
    ASSUME PlayIInv, NEW ok \in BOOLEAN, StartAgent(ok)
    PROVE  /\ pc = "start"
           /\ UNCHANGED <<kind, training, state, next, response, rejected, previousYield, trajectory, yielded>>
           /\ \/ Ends("failed") /\ UNCHANGED <<agent, view>>
              \/ /\ agent' = [agent EXCEPT ![turn] = @ \cup {"started"}]
                 /\ view' = [r \in Role |-> IF r = turn THEN {Observation(state, r)} ELSE view[r]]
                 /\ turn' = other_role(turn) /\ UNCHANGED result
                 /\ \/ turn = "A" /\ pc' = "start"
                    \/ turn = "B" /\ IsComplete(state) /\ pc' = "finish"
                    \/ turn = "B" /\ ~IsComplete(state) /\ pc' = "loop"
<1>1. PlayTypeOK /\ view = [r \in Role |-> view[r]] /\ turn \in Role
  BY DEF PlayIInv, PlayTypeOK, Shape
<1>2. CASE ~ok
  BY <1>1, <1>2, LeaveEnds DEF StartAgent
<1>3. CASE ok
  <2>1. view' = [view EXCEPT ![turn] = {Observation(state, turn)}]
    BY <1>3 DEF StartAgent
  <2>2. view' = [r \in Role |-> IF r = turn THEN {Observation(state, r)} ELSE view[r]]
    BY <1>1, <2>1
  <2>3. \/ turn = "A" /\ pc' = "start"
        \/ turn = "B" /\ IsComplete(state) /\ pc' = "finish"
        \/ turn = "B" /\ ~IsComplete(state) /\ pc' = "loop"
    BY <1>1, <1>3 DEF StartAgent, Role
  <2>4. QED
    BY <1>3, <2>2, <2>3 DEF StartAgent
<1>4. QED
  BY <1>2, <1>3

\* A failed response and a response the learner may not give count a decision
\* and end the session.
EndsAsking ==
    /\ pc = "loop" /\ result.decisions < MaxDecisions /\ pc' = "shutdown" /\ turn' = "A"
    /\ result' = [status |-> "failed", decisions |-> result.decisions + 1, accepted |-> result.accepted,
                  rejected |-> result.rejected, messages |-> result.messages]
    /\ UNCHANGED <<kind, training, state, next, response, rejected, previousYield,
                   agent, view, trajectory, yielded>>

LEMMA FailureEffects ==
    ASSUME PlayTypeOK, RespondFails \/ WrongLearnerResponse
    PROVE  EndsAsking
<1>1. result = [status |-> result.status, decisions |-> result.decisions, accepted |-> result.accepted,
                rejected |-> result.rejected, messages |-> result.messages]
  BY DEF PlayTypeOK
<1>2. [result EXCEPT !.decisions = @ + 1, !.status = "failed"] =
          [status |-> "failed", decisions |-> result.decisions + 1, accepted |-> result.accepted,
           rejected |-> result.rejected, messages |-> result.messages]
  <2> DEFINE counted == [result EXCEPT !.decisions = result.decisions + 1]
  <2>1. [result EXCEPT !.decisions = @ + 1, !.status = "failed"] = [counted EXCEPT !.status = "failed"]
    OBVIOUS
  <2>2. counted = [status |-> result.status, decisions |-> result.decisions + 1, accepted |-> result.accepted,
                   rejected |-> result.rejected, messages |-> result.messages]
    BY <1>1
  <2> HIDE DEF counted
  <2>3. QED
    BY <2>1, <2>2
<1>3. QED
  BY <1>2 DEF RespondFails, WrongLearnerResponse, EndsAsking

\* What a response does: a decision is counted, and then by what it contains.
Answered(r) ==
    /\ pc = "loop" /\ result.decisions < MaxDecisions
    /\ response' = r.type /\ r.type \in {"yield", "message", "action", "both"}
    /\ yielded' = IF r.type = "yield" THEN yielded \cup {turn} ELSE {}
    /\ UNCHANGED <<turn, kind, training, state, previousYield, agent, view>>
CountedAs(accepted, refused) ==
    result' = [status |-> result.status, decisions |-> result.decisions + 1,
               accepted |-> result.accepted + accepted, rejected |-> result.rejected + refused,
               messages |-> result.messages]
NoAction(r) ==
    /\ ~HasAction(r.type) /\ pc' = IF r.type = "message" THEN "message" ELSE "after"
    /\ CountedAs(0, 0) /\ rejected' = FALSE
    /\ UNCHANGED <<next, trajectory>>
Rejection(r) ==
    /\ HasAction(r.type) /\ pc' = "after"
    /\ CountedAs(0, 1) /\ rejected' = TRUE
    /\ \/ UNCHANGED trajectory
       \/ trajectory' = Append(trajectory, [decision |-> result.decisions + 1, accepted |-> FALSE, terminal |-> FALSE])
    /\ UNCHANGED next
Acceptance(r) ==
    /\ HasAction(r.type) /\ pc' = "observeA"
    /\ CountedAs(1, 0) /\ rejected' = FALSE
    /\ UNCHANGED trajectory

\* A step of the next decision.
LEMMA NextDecision ==
    ASSUME NEW d \in Nat, NEW a, NEW t, NEW step, step = [decision |-> d, accepted |-> a, terminal |-> t]
    PROVE  [step EXCEPT !.decision = @ + 1] = [decision |-> d + 1, accepted |-> a, terminal |-> t]
OBVIOUS

\* A response is answered, and its action accepted or rejected.
LEMMA ResponseEffects ==
    ASSUME PlayIInv, NEW r \in Responses(state), Respond(r)
    PROVE  Answered(r) /\ (NoAction(r) \/ Rejection(r) \/ Acceptance(r))
<1> DEFINE counted == [result EXCEPT !.decisions = @ + 1]
<1> DEFINE sure == [status |-> result.status, decisions |-> result.decisions + 1, accepted |-> result.accepted,
                    rejected |-> result.rejected, messages |-> result.messages]
<1>1. PlayTypeOK /\ result \in ResultType
  BY DEF PlayIInv, PlayTypeOK, ResultType
<1>2. /\ r.type \in {"yield", "message", "action", "both"}
      /\ r.type = "yield" <=> r = Yield
  BY DEF Responses, Yield
<1>3. counted = sure
  BY <1>1 DEF ResultType
<1>4. /\ [sure EXCEPT !.rejected = @ + 1] = [sure EXCEPT !.rejected = result.rejected + 1]
      /\ [sure EXCEPT !.accepted = @ + 1] = [sure EXCEPT !.accepted = result.accepted + 1]
  OBVIOUS
<1>5. Answered(r)
  BY <1>2 DEF Respond, Answered
<1>6. [Transition(FALSE, FALSE) EXCEPT !.decision = @ + 1] =
         [decision |-> result.decisions + 1, accepted |-> FALSE, terminal |-> FALSE]
  <2>1. Transition(FALSE, FALSE) = [decision |-> result.decisions, accepted |-> FALSE, terminal |-> FALSE]
    BY DEF Transition
  <2>2. QED
    BY <1>1, <2>1, NextDecision DEF ResultType
<1>7. \/ /\ ~HasAction(r.type) /\ pc' = IF HasMessage(r.type) THEN "message" ELSE "after"
         /\ result' = counted /\ rejected' = FALSE /\ UNCHANGED <<next, trajectory>>
      \/ /\ HasAction(r.type) /\ pc' = "after" /\ result' = [counted EXCEPT !.rejected = @ + 1] /\ rejected' = TRUE
         /\ trajectory' = IF Captured
                          THEN Append(trajectory, [Transition(FALSE, FALSE) EXCEPT !.decision = @ + 1])
                          ELSE trajectory
         /\ UNCHANGED next
      \/ /\ HasAction(r.type) /\ pc' = "observeA" /\ result' = [counted EXCEPT !.accepted = @ + 1]
         /\ rejected' = FALSE /\ UNCHANGED trajectory
  BY DEF Respond
<1> HIDE DEF counted
<1>8. CASE ~HasAction(r.type) /\ result' = counted /\ rejected' = FALSE /\ UNCHANGED <<next, trajectory>>
           /\ pc' = IF HasMessage(r.type) THEN "message" ELSE "after"
  <2>1. CountedAs(0, 0)
    BY <1>1, <1>3, <1>8 DEF CountedAs, ResultType
  <2>2. NoAction(r)
    BY <1>2, <1>8, <2>1 DEF NoAction, HasAction, HasMessage
  <2>3. QED
    BY <1>5, <2>2
<1>9. CASE /\ HasAction(r.type) /\ pc' = "after" /\ result' = [counted EXCEPT !.rejected = @ + 1] /\ rejected' = TRUE
           /\ trajectory' = IF Captured
                            THEN Append(trajectory, [Transition(FALSE, FALSE) EXCEPT !.decision = @ + 1])
                            ELSE trajectory
           /\ UNCHANGED next
  <2>1. CountedAs(0, 1)
    BY <1>1, <1>3, <1>9 DEF CountedAs, ResultType
  <2>2. Rejection(r)
    BY <1>6, <1>9, <2>1 DEF Rejection
  <2>3. QED
    BY <1>5, <2>2
<1>10. CASE /\ HasAction(r.type) /\ pc' = "observeA" /\ result' = [counted EXCEPT !.accepted = @ + 1]
            /\ rejected' = FALSE /\ UNCHANGED trajectory
  <2>1. CountedAs(1, 0)
    BY <1>1, <1>3, <1>10 DEF CountedAs, ResultType
  <2>2. Acceptance(r)
    BY <1>10, <2>1 DEF Acceptance
  <2>3. QED
    BY <1>5, <2>2
<1>11. QED
  BY <1>7, <1>8, <1>9, <1>10

\* An observation fails, or is the first of two, or completes the transition.
LEMMA ObserveEffects ==
    ASSUME PlayIInv, NEW r \in Role, NEW ok \in BOOLEAN, Observe(r, ok)
    PROVE  /\ UNCHANGED <<kind, training, next, response, rejected, previousYield, agent, yielded>>
           /\ pc = IF r = "A" THEN "observeA" ELSE "observeB"
           /\ \/ Ends("failed") /\ UNCHANGED <<view, state, trajectory>>
              \/ /\ view' = [q \in Role |-> IF q = r THEN {Observation(next, q)} ELSE view[q]]
                 /\ UNCHANGED <<turn, result>>
                 /\ \/ r = "A" /\ pc' = "observeB" /\ UNCHANGED <<state, trajectory>>
                    \/ /\ r = "B" /\ state' = next
                       /\ \/ UNCHANGED trajectory
                          \/ trajectory' = Append(trajectory, [decision |-> result.decisions, accepted |-> TRUE,
                                                               terminal |-> IsComplete(next)])
                       /\ \/ pc' = "message" /\ HasMessage(response) /\ ~IsComplete(next)
                          \/ pc' = "after"
<1>1. PlayTypeOK /\ view = [q \in Role |-> view[q]]
  BY DEF PlayIInv, Shape
<1>2. CASE ~ok
  BY <1>1, <1>2, LeaveEnds DEF Observe
<1>3. CASE ok
  <2>1. view' = [view EXCEPT ![r] = {Observation(next, r)}]
    BY <1>3 DEF Observe
  <2>2. view' = [q \in Role |-> IF q = r THEN {Observation(next, q)} ELSE view[q]]
    BY <1>1, <2>1
  <2>3. QED
    BY <1>3, <2>2 DEF Observe, Role, Transition
<1>4. QED
  BY <1>2, <1>3

\* A delivery fails, or is counted.
LEMMA DeliveryEffects ==
    ASSUME PlayIInv, NEW ok \in BOOLEAN, DeliverMessage(ok)
    PROVE  /\ pc = "message"
           /\ UNCHANGED <<kind, training, state, next, response, rejected, previousYield,
                          agent, view, trajectory, yielded>>
           /\ \/ Ends("failed")
              \/ /\ pc' = "after" /\ UNCHANGED turn
                 /\ result' = [status |-> result.status, decisions |-> result.decisions, accepted |-> result.accepted,
                               rejected |-> result.rejected, messages |-> result.messages + 1]
<1>1. PlayTypeOK /\ result \in ResultType
  BY DEF PlayIInv, PlayTypeOK, ResultType
<1>2. [result EXCEPT !.messages = @ + 1] =
         [status |-> result.status, decisions |-> result.decisions, accepted |-> result.accepted,
          rejected |-> result.rejected, messages |-> result.messages + 1]
  BY <1>1 DEF ResultType
<1>3. QED
  BY <1>1, <1>2, LeaveEnds DEF DeliverMessage

\* An agent's end fails, or is told to the first or to the second agent.
LEMMA FinishEffects ==
    ASSUME PlayIInv, NEW ok \in BOOLEAN, FinishAgent(ok)
    PROVE  /\ pc = "finish"
           /\ UNCHANGED <<kind, training, state, next, response, rejected, previousYield,
                          view, trajectory, yielded>>
           /\ \/ Ends("failed") /\ UNCHANGED agent
              \/ /\ agent' = [agent EXCEPT ![turn] = @ \cup {"finished"}]
                 /\ \/ turn = "A" /\ turn' = "B" /\ UNCHANGED <<pc, result>>
                    \/ turn = "B" /\ Ends("completed")
<1>1. PlayTypeOK /\ turn \in Role
  BY DEF PlayIInv, PlayTypeOK
<1>2. QED
  BY <1>1, LeaveEnds DEF FinishAgent, Role

\* Why a round ends as it does.
LEMMA VerdictMeans ==
    ASSUME PlayTypeOK, CountsFit, pc = "after"
    PROVE  /\ Verdict \in {"completed", "continue", "quiescent", "action_limit", "message_limit", "rejection_limit"}
           /\ Verdict = "completed" <=> IsComplete(state)
           /\ Verdict = "continue" =>
                 /\ ~IsComplete(state) /\ ~BothYield
                 /\ result.accepted < MaxActions /\ result.rejected < MaxRejections /\ result.messages < MaxMessages
           /\ Verdict = "quiescent" => BothYield
           /\ Verdict = "action_limit" => result.accepted = MaxActions
           /\ Verdict = "message_limit" => result.messages = MaxMessages
           /\ Verdict = "rejection_limit" => result.rejected = MaxRejections
BY PlayBounds DEF Verdict, PlayTypeOK, CountsFit, Ran

\* The end of a round ends the session, finishes it, or hands over.
LEMMA AfterEffects ==
    ASSUME PlayIInv, After
    PROVE  /\ pc = "after"
           /\ UNCHANGED <<kind, training, state, next, response, rejected,
                          agent, view, trajectory, yielded>>
           /\ \/ Verdict = "completed" /\ pc' = "finish" /\ turn' = "A" /\ UNCHANGED <<previousYield, result>>
              \/ /\ Verdict = "continue" /\ pc' = "loop" /\ turn' \in {turn, other_role(turn)}
                 /\ response = "yield" => turn' = other_role(turn)
                 /\ previousYield' = NextMemory /\ UNCHANGED result
              \/ /\ Verdict \in {"quiescent", "action_limit", "message_limit", "rejection_limit"}
                 /\ Ends(Verdict) /\ UNCHANGED previousYield
<1>1. PlayTypeOK /\ CountsFit /\ kind \in Schedules
  BY DEF PlayIInv, PlayTypeOK
<1>2. pc = "after"
  BY DEF After
<1>3. NextTurn \in {turn, other_role(turn)} /\ (response = "yield" => NextTurn = other_role(turn))
  BY <1>1, PlayBounds DEF NextTurn, HasAction
<1>4. QED
  BY <1>1, <1>2, <1>3, VerdictMeans, LeaveEnds DEF After

\* An ended session's result has its type.
LEMMA EndsInType ==
    ASSUME PlayTypeOK, NEW how \in SessionStatus, Ends(how)
    PROVE  result' \in ResultType /\ pc' = "shutdown" /\ turn' = "A"
BY DEF PlayTypeOK, ResultType, Ends

\* The captured steps, one by one.
LEMMA StepTypes ==
    ASSUME PlayTypeOK
    PROVE  /\ trajectory \in Seq(Steps) /\ Len(trajectory) \in Nat /\ DOMAIN trajectory = 1 .. Len(trajectory)
           /\ \A i \in DOMAIN trajectory : trajectory[i] \in Steps /\ trajectory[i].decision \in Nat
<1>1. trajectory \in Seq(Steps)
  BY DEF PlayTypeOK, Steps
<1>2. Len(trajectory) \in Nat /\ DOMAIN trajectory = 1 .. Len(trajectory)
      /\ \A i \in DOMAIN trajectory : trajectory[i] \in Steps
  BY <1>1
<1>3. \A x \in Steps : x.decision \in Nat
  BY PlayBounds DEF Steps
<1>4. QED
  BY <1>1, <1>2, <1>3

\* Steps that are kept stay in order.
LEMMA StepsKept ==
    ASSUME PlayTypeOK, StepsInOrder, UNCHANGED trajectory,
           result'.decisions \in Nat, result.decisions <= result'.decisions,
           state' = state \/ pc \in Acting,
           pc' \in Acting => pc \in Acting \/ (1 <= result'.decisions /\ result.decisions < result'.decisions),
           pc' \in {"loop"} \cup Acting => pc \in {"loop"} \cup Acting \/ ~IsComplete(state)
    PROVE  StepsInOrder'
<1> DEFINE t == trajectory
<1>1. \A i \in DOMAIN t : t[i].decision \in Nat
  BY StepTypes
<1>2. result.decisions \in Nat
  BY DEF PlayTypeOK
<1>3. \A i \in DOMAIN t : t[i].decision <= result'.decisions
  BY <1>1, <1>2 DEF StepsInOrder
<1>4. ASSUME pc' \in Acting
      PROVE  1 <= result'.decisions /\ \A i \in DOMAIN t : t[i].decision < result'.decisions
  BY <1>1, <1>2, <1>4 DEF StepsInOrder
<1>5. ASSUME pc' \in {"loop"} \cup Acting
      PROVE  \A i \in DOMAIN t : ~t[i].terminal
  BY <1>5 DEF StepsInOrder, TrajectoryIsOrdered
<1>6. TrajectoryIsOrdered'
  BY DEF StepsInOrder, TrajectoryIsOrdered
<1>7. QED
  BY <1>3, <1>4, <1>5, <1>6 DEF StepsInOrder, Acting

\* A step of the latest decision may follow steps that have not ended the game.
LEMMA StepsGrow ==
    ASSUME PlayTypeOK, StepsInOrder, NEW step \in Steps, trajectory' = Append(trajectory, step),
           \A i \in DOMAIN trajectory : trajectory[i].decision < step.decision /\ ~trajectory[i].terminal,
           result'.decisions \in Nat, step.decision <= result'.decisions,
           step.terminal => step.accepted /\ IsComplete(state'),
           pc' \notin {"loop"} \cup Acting
    PROVE  StepsInOrder' /\ trajectory' \in Seq(Steps)
<1> DEFINE t == trajectory
<1>1. t \in Seq(Steps) /\ DOMAIN t = 1 .. Len(t) /\ \A i \in DOMAIN t : t[i].decision \in Nat
  BY StepTypes
<1>2. /\ t' \in Seq(Steps) /\ DOMAIN t' = 1 .. Len(t) + 1 /\ Len(t') = Len(t) + 1 /\ Len(t) \in Nat
      /\ t'[Len(t) + 1] = step /\ \A i \in 1 .. Len(t) : t'[i] = t[i]
  BY <1>1
<1> HIDE DEF t
<1>3. \A i \in DOMAIN t' : i \in 1 .. Len(t) \/ i = Len(t) + 1
  BY <1>2
<1>4. /\ DOMAIN t = 1 .. Len(t) /\ (\A i \in 1 .. Len(t) : t[i].decision \in Nat) /\ step.decision \in Nat
  BY <1>1, PlayBounds DEF Steps
<1>5. \A i \in 1 .. Len(t) : t[i].decision < step.decision /\ ~t[i].terminal
  BY <1>4 DEF t
<1>6. \A i \in DOMAIN t' : t'[i].decision <= result'.decisions
  BY <1>2, <1>3, <1>4, <1>5
<1>7. \A i \in DOMAIN t' : i > 1 => t'[i - 1].decision < t'[i].decision
  <2> TAKE i \in DOMAIN t'
  <2> HAVE i > 1
  <2>1. i - 1 \in 1 .. Len(t)
    BY <1>2
  <2>2. CASE i = Len(t) + 1
    BY <1>2, <1>5, <2>1, <2>2
  <2>3. CASE i \in 1 .. Len(t)
    <3>1. t[i - 1].decision < t[i].decision
      BY <1>4, <2>1, <2>3 DEF StepsInOrder, TrajectoryIsOrdered, t
    <3>2. QED
      BY <1>2, <2>1, <2>3, <3>1
  <2>4. QED
    BY <1>3, <2>2, <2>3
<1>8. \A i \in DOMAIN t' : t'[i].terminal => i = Len(t') /\ t'[i].accepted /\ IsComplete(state')
  BY <1>2, <1>3, <1>5
<1>9. QED
  BY <1>2, <1>6, <1>7, <1>8 DEF StepsInOrder, TrajectoryIsOrdered, IsComplete, Acting, t

\* A session that goes on stays undecided.
LEMMA UndecidedStays ==
    ASSUME PlayIInv, PlayNext
    PROVE  Undecided'
<1> USE PlayBounds DEF Role
<1>1. ASSUME NEW ok \in BOOLEAN, CreateGame(ok)
      PROVE  Undecided'
  BY <1>1, LeaveEnds DEF PlayIInv, CreateGame, Ends, Undecided, Over, PlayTypeOK
<1>2. ASSUME NEW ok \in BOOLEAN, CreateAgent(ok)
      PROVE  Undecided'
  BY <1>2, LeaveEnds DEF PlayIInv, CreateAgent, Ends, other_role, Undecided, Over, PlayTypeOK
<1>3. ASSUME NEW ok \in BOOLEAN, InitialState(ok)
      PROVE  Undecided'
  BY <1>3, LeaveEnds DEF PlayIInv, InitialState, Ends, Undecided, Over, PlayTypeOK
<1>4. ASSUME NEW ok \in BOOLEAN, StartAgent(ok)
      PROVE  Undecided'
  BY <1>4, StartEffects DEF PlayIInv, Ends, other_role, Undecided, Over, PlayTypeOK
<1>5. ASSUME NEW limit \in Limits, StopBefore(limit)
      PROVE  Undecided'
  BY <1>5, LeaveEnds DEF PlayIInv, StopBefore, Limits, Ends, Undecided, Over, PlayTypeOK
<1>6. CASE RespondFails
  BY <1>6, FailureEffects DEF PlayIInv, EndsAsking, Undecided, Over, PlayTypeOK
<1>7. ASSUME NEW r \in Responses(state), Respond(r)
      PROVE  Undecided'
  <2>1. Answered(r) /\ (NoAction(r) \/ Rejection(r) \/ Acceptance(r))
    BY <1>7, ResponseEffects
  <2>2. CASE NoAction(r)
    BY <2>1, <2>2 DEF PlayIInv, Answered, NoAction, CountedAs, HasAction, Undecided, Over, PlayTypeOK
  <2>3. CASE Rejection(r)
    BY <2>1, <2>3 DEF PlayIInv, Answered, Rejection, CountedAs, HasAction, Undecided, Over, PlayTypeOK
  <2>4. CASE Acceptance(r)
    BY <2>1, <2>4 DEF PlayIInv, Answered, Acceptance, CountedAs, HasAction, Undecided, Over, PlayTypeOK
  <2>5. QED
    BY <2>1, <2>2, <2>3, <2>4
<1>8. CASE WrongLearnerResponse
  BY <1>8, FailureEffects DEF PlayIInv, EndsAsking, Undecided, Over, PlayTypeOK
<1>9. ASSUME NEW r \in Role, NEW ok \in BOOLEAN, Observe(r, ok)
      PROVE  Undecided'
  BY <1>9, ObserveEffects DEF PlayIInv, Ends, HasMessage, Undecided, Over, PlayTypeOK
<1>10. ASSUME NEW ok \in BOOLEAN, DeliverMessage(ok)
      PROVE  Undecided'
  BY <1>10, DeliveryEffects DEF PlayIInv, Ends, Undecided, Over, PlayTypeOK
<1>11. CASE After
  BY <1>11, AfterEffects, VerdictMeans DEF PlayIInv, Ends, NextMemory, other_role, BothYield, Undecided, Over, PlayTypeOK
<1>12. ASSUME NEW ok \in BOOLEAN, FinishAgent(ok)
      PROVE  Undecided'
  BY <1>12, FinishEffects DEF PlayIInv, Ends, Undecided, Over, PlayTypeOK
<1>13. CASE ShutDown
  BY <1>13 DEF PlayIInv, ShutDown, other_role, Undecided, Over, PlayTypeOK
<1>14. QED
  BY <1>1, <1>2, <1>3, <1>4, <1>5, <1>6, <1>7, <1>8, <1>9, <1>10, <1>11, <1>12, <1>13 DEF PlayNext

\* The two agents are led through the session in order.
LEMMA SeatsStayInOrder ==
    ASSUME PlayIInv, PlayNext
    PROVE  SeatsInOrder'
<1> USE PlayBounds DEF Role
<1>1. ASSUME NEW ok \in BOOLEAN, CreateGame(ok)
      PROVE  SeatsInOrder'
  BY <1>1, LeaveEnds DEF PlayIInv, CreateGame, Ends, Undecided, SeatsInOrder, Over, PlayTypeOK
<1>2. ASSUME NEW ok \in BOOLEAN, CreateAgent(ok)
      PROVE  SeatsInOrder'
  BY <1>2, LeaveEnds DEF PlayIInv, CreateAgent, Ends, other_role, Undecided, SeatsInOrder, Over, PlayTypeOK
<1>3. ASSUME NEW ok \in BOOLEAN, InitialState(ok)
      PROVE  SeatsInOrder'
  BY <1>3, LeaveEnds DEF PlayIInv, InitialState, Ends, Undecided, SeatsInOrder, Over, PlayTypeOK
<1>4. ASSUME NEW ok \in BOOLEAN, StartAgent(ok)
      PROVE  SeatsInOrder'
  BY <1>4, StartEffects DEF PlayIInv, Ends, other_role, Undecided, SeatsInOrder, Over, PlayTypeOK
<1>5. ASSUME NEW limit \in Limits, StopBefore(limit)
      PROVE  SeatsInOrder'
  BY <1>5, LeaveEnds DEF PlayIInv, StopBefore, Limits, Ends, Undecided, SeatsInOrder, Over, PlayTypeOK
<1>6. CASE RespondFails
  BY <1>6, FailureEffects DEF PlayIInv, EndsAsking, Undecided, SeatsInOrder, Over, PlayTypeOK
<1>7. ASSUME NEW r \in Responses(state), Respond(r)
      PROVE  SeatsInOrder'
  BY <1>7, ResponseEffects DEF PlayIInv, Answered, NoAction, Rejection, Acceptance, CountedAs, HasAction, HasMessage, Undecided, SeatsInOrder, Over, PlayTypeOK
<1>8. CASE WrongLearnerResponse
  BY <1>8, FailureEffects DEF PlayIInv, EndsAsking, Undecided, SeatsInOrder, Over, PlayTypeOK
<1>9. ASSUME NEW r \in Role, NEW ok \in BOOLEAN, Observe(r, ok)
      PROVE  SeatsInOrder'
  BY <1>9, ObserveEffects DEF PlayIInv, Ends, HasMessage, Undecided, SeatsInOrder, Over, PlayTypeOK
<1>10. ASSUME NEW ok \in BOOLEAN, DeliverMessage(ok)
      PROVE  SeatsInOrder'
  BY <1>10, DeliveryEffects DEF PlayIInv, Ends, Undecided, SeatsInOrder, Over, PlayTypeOK
<1>11. CASE After
  BY <1>11, AfterEffects, VerdictMeans DEF PlayIInv, Ends, NextMemory, other_role, BothYield, Undecided, SeatsInOrder, Over, PlayTypeOK
<1>12. ASSUME NEW ok \in BOOLEAN, FinishAgent(ok)
      PROVE  SeatsInOrder'
  BY <1>12, FinishEffects DEF PlayIInv, Ends, Undecided, SeatsInOrder, Over, PlayTypeOK
<1>13. CASE ShutDown
  BY <1>13 DEF PlayIInv, ShutDown, other_role, Undecided, SeatsInOrder, Over, PlayTypeOK
<1>14. QED
  BY <1>1, <1>2, <1>3, <1>4, <1>5, <1>6, <1>7, <1>8, <1>9, <1>10, <1>11, <1>12, <1>13 DEF PlayNext

\* What the agents have seen keeps up with the game.
LEMMA ViewsStay ==
    ASSUME PlayIInv, PlayNext
    PROVE  ViewsFollow'
<1> USE PlayBounds DEF Role
<1>1. ASSUME NEW ok \in BOOLEAN, CreateGame(ok)
      PROVE  ViewsFollow'
  BY <1>1, LeaveEnds DEF PlayIInv, CreateGame, Ends, ViewsFollow, SeatsInOrder, PlayTypeOK
<1>2. ASSUME NEW ok \in BOOLEAN, CreateAgent(ok)
      PROVE  ViewsFollow'
  BY <1>2, LeaveEnds DEF PlayIInv, CreateAgent, Ends, other_role, ViewsFollow, SeatsInOrder, PlayTypeOK
<1>3. ASSUME NEW ok \in BOOLEAN, InitialState(ok)
      PROVE  ViewsFollow'
  BY <1>3, LeaveEnds DEF PlayIInv, InitialState, Ends, ViewsFollow, SeatsInOrder, PlayTypeOK
<1>4. ASSUME NEW ok \in BOOLEAN, StartAgent(ok)
      PROVE  ViewsFollow'
  BY <1>4, StartEffects DEF PlayIInv, Ends, other_role, ViewsFollow, SeatsInOrder, PlayTypeOK
<1>5. ASSUME NEW limit \in Limits, StopBefore(limit)
      PROVE  ViewsFollow'
  BY <1>5, LeaveEnds DEF PlayIInv, StopBefore, Limits, Ends, ViewsFollow, SeatsInOrder, PlayTypeOK
<1>6. CASE RespondFails
  BY <1>6, FailureEffects DEF PlayIInv, EndsAsking, ViewsFollow, SeatsInOrder, PlayTypeOK
<1>7. ASSUME NEW r \in Responses(state), Respond(r)
      PROVE  ViewsFollow'
  BY <1>7, ResponseEffects DEF PlayIInv, Answered, NoAction, Rejection, Acceptance, CountedAs, HasAction, HasMessage, ViewsFollow, SeatsInOrder, PlayTypeOK
<1>8. CASE WrongLearnerResponse
  BY <1>8, FailureEffects DEF PlayIInv, EndsAsking, ViewsFollow, SeatsInOrder, PlayTypeOK
<1>9. ASSUME NEW r \in Role, NEW ok \in BOOLEAN, Observe(r, ok)
      PROVE  ViewsFollow'
  BY <1>9, ObserveEffects DEF PlayIInv, Ends, HasMessage, ViewsFollow, SeatsInOrder, PlayTypeOK
<1>10. ASSUME NEW ok \in BOOLEAN, DeliverMessage(ok)
      PROVE  ViewsFollow'
  BY <1>10, DeliveryEffects DEF PlayIInv, Ends, ViewsFollow, SeatsInOrder, PlayTypeOK
<1>11. CASE After
  BY <1>11, AfterEffects, VerdictMeans DEF PlayIInv, Ends, NextMemory, other_role, BothYield, ViewsFollow, SeatsInOrder, PlayTypeOK
<1>12. ASSUME NEW ok \in BOOLEAN, FinishAgent(ok)
      PROVE  ViewsFollow'
  BY <1>12, FinishEffects DEF PlayIInv, Ends, ViewsFollow, SeatsInOrder, PlayTypeOK
<1>13. CASE ShutDown
  BY <1>13 DEF PlayIInv, ShutDown, other_role, ViewsFollow, SeatsInOrder, PlayTypeOK
<1>14. QED
  BY <1>1, <1>2, <1>3, <1>4, <1>5, <1>6, <1>7, <1>8, <1>9, <1>10, <1>11, <1>12, <1>13 DEF PlayNext

\* The counts keep within the limits.
LEMMA CountsStay ==
    ASSUME PlayIInv, PlayNext
    PROVE  CountsFit'
<1> USE PlayBounds DEF Role
<1>1. ASSUME NEW ok \in BOOLEAN, CreateGame(ok)
      PROVE  CountsFit'
  BY <1>1, LeaveEnds DEF PlayIInv, CreateGame, Ends, CountsFit, Undecided, Over, Ran, Acting, PlayTypeOK
<1>2. ASSUME NEW ok \in BOOLEAN, CreateAgent(ok)
      PROVE  CountsFit'
  BY <1>2, LeaveEnds DEF PlayIInv, CreateAgent, Ends, other_role, CountsFit, Undecided, Over, Ran, Acting, PlayTypeOK
<1>3. ASSUME NEW ok \in BOOLEAN, InitialState(ok)
      PROVE  CountsFit'
  BY <1>3, LeaveEnds DEF PlayIInv, InitialState, Ends, CountsFit, Undecided, Over, Ran, Acting, PlayTypeOK
<1>4. ASSUME NEW ok \in BOOLEAN, StartAgent(ok)
      PROVE  CountsFit'
  BY <1>4, StartEffects DEF PlayIInv, Ends, other_role, CountsFit, Undecided, Over, Ran, Acting, PlayTypeOK
<1>5. ASSUME NEW limit \in Limits, StopBefore(limit)
      PROVE  CountsFit'
  BY <1>5, LeaveEnds DEF PlayIInv, StopBefore, Limits, Ends, CountsFit, Undecided, Over, Ran, Acting, PlayTypeOK
<1>6. CASE RespondFails
  BY <1>6, FailureEffects DEF PlayIInv, EndsAsking, CountsFit, Undecided, Over, Ran, Acting, PlayTypeOK
<1>7. ASSUME NEW r \in Responses(state), Respond(r)
      PROVE  CountsFit'
  <2>1. Answered(r) /\ (NoAction(r) \/ Rejection(r) \/ Acceptance(r))
    BY <1>7, ResponseEffects
  <2>2. CASE NoAction(r)
    BY <2>1, <2>2 DEF PlayIInv, Answered, NoAction, CountedAs, HasAction, HasMessage, CountsFit, Undecided, Over, Ran, Acting, PlayTypeOK
  <2>3. CASE Rejection(r)
    BY <2>1, <2>3 DEF PlayIInv, Answered, Rejection, CountedAs, HasAction, HasMessage, CountsFit, Undecided, Over, Ran, Acting, PlayTypeOK
  <2>4. CASE Acceptance(r)
    BY <2>1, <2>4 DEF PlayIInv, Answered, Acceptance, CountedAs, HasAction, HasMessage, CountsFit, Undecided, Over, Ran, Acting, PlayTypeOK
  <2>5. QED
    BY <2>1, <2>2, <2>3, <2>4
<1>8. CASE WrongLearnerResponse
  BY <1>8, FailureEffects DEF PlayIInv, EndsAsking, CountsFit, Undecided, Over, Ran, Acting, PlayTypeOK
<1>9. ASSUME NEW r \in Role, NEW ok \in BOOLEAN, Observe(r, ok)
      PROVE  CountsFit'
  BY <1>9, ObserveEffects DEF PlayIInv, Ends, HasMessage, CountsFit, Undecided, Over, Ran, Acting, PlayTypeOK
<1>10. ASSUME NEW ok \in BOOLEAN, DeliverMessage(ok)
      PROVE  CountsFit'
  BY <1>10, DeliveryEffects DEF PlayIInv, Ends, CountsFit, Undecided, Over, Ran, Acting, PlayTypeOK
<1>11. CASE After
  BY <1>11, AfterEffects, VerdictMeans DEF PlayIInv, Ends, NextMemory, other_role, BothYield, CountsFit, Undecided, Over, Ran, Acting, PlayTypeOK
<1>12. ASSUME NEW ok \in BOOLEAN, FinishAgent(ok)
      PROVE  CountsFit'
  BY <1>12, FinishEffects DEF PlayIInv, Ends, CountsFit, Undecided, Over, Ran, Acting, PlayTypeOK
<1>13. CASE ShutDown
  BY <1>13 DEF PlayIInv, ShutDown, other_role, CountsFit, Undecided, Over, Ran, Acting, PlayTypeOK
<1>14. QED
  BY <1>1, <1>2, <1>3, <1>4, <1>5, <1>6, <1>7, <1>8, <1>9, <1>10, <1>11, <1>12, <1>13 DEF PlayNext

\* The schedule's memory agrees with who has yielded.
LEMMA YieldsStay ==
    ASSUME PlayIInv, PlayNext
    PROVE  YieldsAreKnown'
<1> USE PlayBounds DEF Role
<1>1. ASSUME NEW ok \in BOOLEAN, CreateGame(ok)
      PROVE  YieldsAreKnown'
  BY <1>1, LeaveEnds DEF PlayIInv, CreateGame, Ends, YieldsAreKnown, Undecided, Over, Acting, HasAction, HasMessage, BothYield, CountsFit, PlayTypeOK
<1>2. ASSUME NEW ok \in BOOLEAN, CreateAgent(ok)
      PROVE  YieldsAreKnown'
  BY <1>2, LeaveEnds DEF PlayIInv, CreateAgent, Ends, other_role, YieldsAreKnown, Undecided, Over, Acting, HasAction, HasMessage, BothYield, CountsFit, PlayTypeOK
<1>3. ASSUME NEW ok \in BOOLEAN, InitialState(ok)
      PROVE  YieldsAreKnown'
  BY <1>3, LeaveEnds DEF PlayIInv, InitialState, Ends, YieldsAreKnown, Undecided, Over, Acting, HasAction, HasMessage, BothYield, CountsFit, PlayTypeOK
<1>4. ASSUME NEW ok \in BOOLEAN, StartAgent(ok)
      PROVE  YieldsAreKnown'
  BY <1>4, StartEffects DEF PlayIInv, Ends, other_role, YieldsAreKnown, Undecided, Over, Acting, HasAction, HasMessage, BothYield, CountsFit, PlayTypeOK
<1>5. ASSUME NEW limit \in Limits, StopBefore(limit)
      PROVE  YieldsAreKnown'
  BY <1>5, LeaveEnds DEF PlayIInv, StopBefore, Limits, Ends, YieldsAreKnown, Undecided, Over, Acting, HasAction, HasMessage, BothYield, CountsFit, PlayTypeOK
<1>6. CASE RespondFails
  BY <1>6, FailureEffects DEF PlayIInv, EndsAsking, YieldsAreKnown, Undecided, Over, Acting, HasAction, HasMessage, BothYield, CountsFit, PlayTypeOK
<1>7. ASSUME NEW r \in Responses(state), Respond(r)
      PROVE  YieldsAreKnown'
  <2>1. Answered(r) /\ (NoAction(r) \/ Rejection(r) \/ Acceptance(r))
    BY <1>7, ResponseEffects
  <2>2. CASE NoAction(r)
    BY <2>1, <2>2 DEF PlayIInv, Answered, NoAction, CountedAs, HasAction, YieldsAreKnown, Undecided, Over, Acting, PlayTypeOK, Nobody
  <2>3. CASE Rejection(r)
    BY <2>1, <2>3 DEF PlayIInv, Answered, Rejection, CountedAs, HasAction, YieldsAreKnown, Undecided, Over, Acting, PlayTypeOK, Nobody
  <2>4. CASE Acceptance(r)
    BY <2>1, <2>4 DEF PlayIInv, Answered, Acceptance, CountedAs, HasAction, YieldsAreKnown, Undecided, Over, Acting, PlayTypeOK, Nobody
  <2>5. QED
    BY <2>1, <2>2, <2>3, <2>4
<1>8. CASE WrongLearnerResponse
  BY <1>8, FailureEffects DEF PlayIInv, EndsAsking, YieldsAreKnown, Undecided, Over, Acting, HasAction, HasMessage, BothYield, CountsFit, PlayTypeOK
<1>9. ASSUME NEW r \in Role, NEW ok \in BOOLEAN, Observe(r, ok)
      PROVE  YieldsAreKnown'
  BY <1>9, ObserveEffects DEF PlayIInv, Ends, HasMessage, YieldsAreKnown, Undecided, Over, Acting, HasAction, BothYield, CountsFit, PlayTypeOK
<1>10. ASSUME NEW ok \in BOOLEAN, DeliverMessage(ok)
      PROVE  YieldsAreKnown'
  <2>1. YieldsAreKnown /\ Undecided /\ pc = "message" /\ UNCHANGED <<response, yielded, previousYield>>
    BY <1>10, DeliveryEffects DEF PlayIInv
  <2>2. \/ Ends("failed")
        \/ pc' = "after" /\ UNCHANGED turn /\ result'.status = result.status
    BY <1>10, DeliveryEffects
  <2>3. QED
    BY <2>1, <2>2 DEF YieldsAreKnown, Undecided, Over, Ends, Acting
<1>11. CASE After
  <2>1. Verdict = "quiescent" => BothYield
    BY <1>11, AfterEffects, VerdictMeans DEF PlayIInv
  <2>2. PlayTypeOK /\ YieldsAreKnown /\ Undecided /\ pc = "after" /\ UNCHANGED <<response, yielded>>
    BY <1>11, AfterEffects DEF PlayIInv
  <2>3. BothYield => yielded = Role
    BY <2>2 DEF BothYield, YieldsAreKnown, other_role, PlayTypeOK, Nobody
  <2>4. CASE Verdict = "completed" /\ pc' = "finish" /\ UNCHANGED <<previousYield, result>>
    BY <2>2, <2>4 DEF YieldsAreKnown, Undecided, Over, Acting
  <2>5. CASE /\ pc' = "loop" /\ UNCHANGED result /\ previousYield' = NextMemory /\ ~BothYield
             /\ response = "yield" => turn' = other_role(turn)
    <3>1. yielded = {NextMemory} \ {Nobody}
      BY <2>2, <2>5 DEF BothYield, YieldsAreKnown, other_role, NextMemory, PlayTypeOK, Nobody
    <3>2. QED
      BY <2>2, <2>5, <3>1 DEF YieldsAreKnown, Undecided, Over, Acting
  <2>6. CASE Verdict \in {"quiescent", "action_limit", "message_limit", "rejection_limit"} /\ Ends(Verdict)
    BY <2>1, <2>2, <2>3, <2>6 DEF YieldsAreKnown, Ends, Acting
  <2>7. QED
    BY <1>11, <2>4, <2>5, <2>6, AfterEffects, VerdictMeans DEF PlayIInv
<1>12. ASSUME NEW ok \in BOOLEAN, FinishAgent(ok)
      PROVE  YieldsAreKnown'
  BY <1>12, FinishEffects DEF PlayIInv, Ends, YieldsAreKnown, Undecided, Over, Acting, HasAction, HasMessage, BothYield, CountsFit, PlayTypeOK
<1>13. CASE ShutDown
  BY <1>13 DEF PlayIInv, ShutDown, other_role, YieldsAreKnown, Undecided, Over, Acting, HasAction, HasMessage, BothYield, CountsFit, PlayTypeOK
<1>14. QED
  BY <1>1, <1>2, <1>3, <1>4, <1>5, <1>6, <1>7, <1>8, <1>9, <1>10, <1>11, <1>12, <1>13 DEF PlayNext

\* The captured steps stay in order.
LEMMA StepsStay ==
    ASSUME PlayIInv, PlayNext
    PROVE  StepsInOrder'
<1> USE PlayBounds DEF Role
<1>1. ASSUME NEW ok \in BOOLEAN, CreateGame(ok)
      PROVE  StepsInOrder'
  BY <1>1, LeaveEnds DEF PlayIInv, CreateGame, Ends, StepsInOrder, Acting, TrajectoryIsOrdered, PlayTypeOK
<1>2. ASSUME NEW ok \in BOOLEAN, CreateAgent(ok)
      PROVE  StepsInOrder'
  BY <1>2, LeaveEnds DEF PlayIInv, CreateAgent, Ends, other_role, StepsInOrder, Acting, TrajectoryIsOrdered, PlayTypeOK
<1>3. ASSUME NEW ok \in BOOLEAN, InitialState(ok)
      PROVE  StepsInOrder'
  BY <1>3, LeaveEnds DEF PlayIInv, InitialState, Ends, StepsInOrder, Acting, TrajectoryIsOrdered, PlayTypeOK
<1>4. ASSUME NEW ok \in BOOLEAN, StartAgent(ok)
      PROVE  StepsInOrder'
  <2>1. /\ PlayTypeOK /\ StepsInOrder /\ UNCHANGED <<trajectory, state>>
        /\ result'.decisions \in Nat /\ result.decisions <= result'.decisions
    BY <1>4, StartEffects DEF PlayIInv, PlayTypeOK, Ends
  <2>2. pc' \notin Acting /\ (pc' = "loop" => ~IsComplete(state))
    BY <1>4, StartEffects DEF Acting, Ends
  <2>3. QED
    BY <2>1, <2>2, StepsKept
<1>5. ASSUME NEW limit \in Limits, StopBefore(limit)
      PROVE  StepsInOrder'
  BY <1>5, LeaveEnds DEF PlayIInv, StopBefore, Limits, Ends, StepsInOrder, Acting, TrajectoryIsOrdered, PlayTypeOK
<1>6. CASE RespondFails
  <2>1. /\ PlayTypeOK /\ StepsInOrder /\ UNCHANGED <<trajectory, state>>
        /\ result'.decisions \in Nat /\ result.decisions <= result'.decisions
    BY <1>6, FailureEffects DEF PlayIInv, PlayTypeOK, EndsAsking
  <2>2. pc' \notin {"loop"} \cup Acting
    BY <1>6, FailureEffects DEF PlayIInv, Acting, EndsAsking
  <2>3. QED
    BY <2>1, <2>2, StepsKept
<1>7. ASSUME NEW r \in Responses(state), Respond(r)
      PROVE  StepsInOrder'
  <2>1. Answered(r) /\ (NoAction(r) \/ Rejection(r) \/ Acceptance(r))
    BY <1>7, ResponseEffects
  <2>2. /\ PlayTypeOK /\ StepsInOrder /\ UNCHANGED state /\ pc = "loop" /\ result.decisions \in Nat
        /\ result'.decisions = result.decisions + 1 /\ result.decisions < MaxDecisions
    BY <2>1 DEF PlayIInv, PlayTypeOK, Answered, NoAction, Rejection, Acceptance, CountedAs
  <2>3. CASE UNCHANGED trajectory
    BY <2>2, <2>3, StepsKept
  <2>4. CASE Rejection(r) /\ ~UNCHANGED trajectory
    <3> DEFINE step == [decision |-> result.decisions + 1, accepted |-> FALSE, terminal |-> FALSE]
    <3>1. trajectory' = Append(trajectory, step) /\ pc' = "after"
      BY <2>4 DEF Rejection
    <3>2. step \in Steps
      BY <2>2 DEF Steps
    <3>3. \A i \in DOMAIN trajectory : trajectory[i].decision \in Nat
      BY <2>2, StepTypes
    <3>4. \A i \in DOMAIN trajectory : trajectory[i].decision < step.decision /\ ~trajectory[i].terminal
      BY <2>2, <3>3 DEF StepsInOrder
    <3>5. QED
      BY <2>2, <3>1, <3>2, <3>4, StepsGrow DEF Acting
  <2>5. QED
    BY <2>1, <2>3, <2>4 DEF NoAction, Acceptance
<1>8. CASE WrongLearnerResponse
  <2>1. /\ PlayTypeOK /\ StepsInOrder /\ UNCHANGED <<trajectory, state>>
        /\ result'.decisions \in Nat /\ result.decisions <= result'.decisions
    BY <1>8, FailureEffects DEF PlayIInv, PlayTypeOK, EndsAsking
  <2>2. pc' \notin {"loop"} \cup Acting
    BY <1>8, FailureEffects DEF PlayIInv, Acting, EndsAsking
  <2>3. QED
    BY <2>1, <2>2, StepsKept
<1>9. ASSUME NEW r \in Role, NEW ok \in BOOLEAN, Observe(r, ok)
      PROVE  StepsInOrder'
  <2>1. /\ PlayTypeOK /\ StepsInOrder /\ pc \in Acting /\ result.decisions \in Nat
        /\ result'.decisions = result.decisions /\ result.decisions <= MaxDecisions
    BY <1>9, ObserveEffects DEF PlayIInv, PlayTypeOK, CountsFit, Ends, Acting
  <2>2. CASE UNCHANGED trajectory
    <3>1. pc' \in {"loop"} \cup Acting => pc \in {"loop"} \cup Acting
      BY <2>1
    <3>2. result'.decisions \in Nat /\ result.decisions <= result'.decisions
      BY <2>1
    <3>3. /\ state' = state \/ pc \in Acting
          /\ pc' \in Acting => pc \in Acting \/ (1 <= result'.decisions /\ result.decisions < result'.decisions)
          /\ pc' \in {"loop"} \cup Acting => pc \in {"loop"} \cup Acting \/ ~IsComplete(state)
      BY <2>1, <3>1
    <3>4. QED
      BY <2>1, <2>2, <3>2, <3>3, StepsKept
  <2>3. CASE ~UNCHANGED trajectory
    <3> DEFINE step == [decision |-> result.decisions, accepted |-> TRUE, terminal |-> IsComplete(next)]
    <3>1. trajectory' = Append(trajectory, step) /\ state' = next /\ pc' \in {"message", "after"}
      BY <1>9, <2>3, ObserveEffects
    <3>2. step \in Steps
      BY <2>1 DEF Steps, StepsInOrder, IsComplete
    <3>3. \A i \in DOMAIN trajectory : trajectory[i].decision < step.decision /\ ~trajectory[i].terminal
      BY <2>1 DEF StepsInOrder
    <3>4. step.terminal => step.accepted /\ IsComplete(state')
      BY <3>1 DEF IsComplete
    <3>5. QED
      BY <2>1, <3>1, <3>2, <3>3, <3>4, StepsGrow DEF Acting
  <2>4. QED
    BY <2>2, <2>3
<1>10. ASSUME NEW ok \in BOOLEAN, DeliverMessage(ok)
      PROVE  StepsInOrder'
  <2>1. /\ PlayTypeOK /\ StepsInOrder /\ UNCHANGED <<trajectory, state>>
        /\ result'.decisions \in Nat /\ result.decisions <= result'.decisions
    BY <1>10, DeliveryEffects DEF PlayIInv, PlayTypeOK, Ends
  <2>2. pc' \notin {"loop"} \cup Acting
    BY <1>10, DeliveryEffects DEF PlayIInv, Acting, Ends
  <2>3. QED
    BY <2>1, <2>2, StepsKept
<1>11. CASE After
  <2>1. /\ PlayTypeOK /\ StepsInOrder /\ CountsFit /\ UNCHANGED <<trajectory, state>>
        /\ result'.decisions \in Nat /\ result.decisions <= result'.decisions
    BY <1>11, AfterEffects DEF PlayIInv, PlayTypeOK, Ends
  <2>2. pc' \notin Acting /\ (pc' = "loop" => ~IsComplete(state))
    BY <1>11, <2>1, AfterEffects, VerdictMeans DEF Acting, Ends
  <2>3. QED
    BY <2>1, <2>2, StepsKept
<1>12. ASSUME NEW ok \in BOOLEAN, FinishAgent(ok)
      PROVE  StepsInOrder'
  <2>1. /\ PlayTypeOK /\ StepsInOrder /\ UNCHANGED <<trajectory, state>>
        /\ result'.decisions \in Nat /\ result.decisions <= result'.decisions
    BY <1>12, FinishEffects DEF PlayIInv, PlayTypeOK, Ends
  <2>2. pc' \notin {"loop"} \cup Acting
    BY <1>12, FinishEffects DEF PlayIInv, Acting, Ends
  <2>3. QED
    BY <2>1, <2>2, StepsKept
<1>13. CASE ShutDown
  BY <1>13 DEF PlayIInv, ShutDown, other_role, StepsInOrder, Acting, TrajectoryIsOrdered, PlayTypeOK
<1>14. QED
  BY <1>1, <1>2, <1>3, <1>4, <1>5, <1>6, <1>7, <1>8, <1>9, <1>10, <1>11, <1>12, <1>13 DEF PlayNext

\* Every variable keeps its type.
LEMMA TypesStay ==
    ASSUME PlayIInv, PlayNext
    PROVE  PlayTypeOK'
<1> USE PlayBounds DEF Role
<1>1. ASSUME NEW ok \in BOOLEAN, CreateGame(ok)
      PROVE  PlayTypeOK'
  BY <1>1, LeaveEnds DEF PlayIInv, CreateGame, Ends, PlayTypeOK, Stage, SessionStatus, Limits
<1>2. ASSUME NEW ok \in BOOLEAN, CreateAgent(ok)
      PROVE  PlayTypeOK'
  BY <1>2, LeaveEnds DEF PlayIInv, CreateAgent, Ends, other_role, PlayTypeOK, Stage, SessionStatus, Limits
<1>3. ASSUME NEW ok \in BOOLEAN, InitialState(ok)
      PROVE  PlayTypeOK'
  BY <1>3, LeaveEnds DEF PlayIInv, InitialState, Ends, PlayTypeOK, Stage, SessionStatus, Limits
<1>4. ASSUME NEW ok \in BOOLEAN, StartAgent(ok)
      PROVE  PlayTypeOK'
  <2>1. PlayTypeOK
    BY DEF PlayIInv
  <2>2. result' \in ResultType
    BY <1>4, <2>1, StartEffects, EndsInType DEF PlayIInv, PlayTypeOK, ResultType, SessionStatus, Limits, other_role
  <2>3. pc' \in {"start", "finish", "loop", "shutdown"} /\ turn' \in Role
    BY <1>4, <2>1, StartEffects DEF PlayIInv, PlayTypeOK, Ends, other_role
  <2>4. agent' \in [Role -> SUBSET Stage] /\ trajectory' \in Seq(Steps)
    BY <1>4, <2>1, StartEffects, StepTypes DEF PlayIInv, PlayTypeOK, Stage, other_role
  <2>5. rejected' \in BOOLEAN /\ previousYield' \in Role \cup {Nobody} /\ yielded' \subseteq Role
        /\ UNCHANGED <<kind, training>>
    BY <1>4, <2>1, StartEffects DEF PlayIInv, PlayTypeOK, other_role
  <2>6. QED
    BY <2>1, <2>2, <2>3, <2>4, <2>5 DEF PlayTypeOK, ResultType, Steps
<1>5. ASSUME NEW limit \in Limits, StopBefore(limit)
      PROVE  PlayTypeOK'
  BY <1>5, LeaveEnds DEF PlayIInv, StopBefore, Limits, Ends, PlayTypeOK, Stage, SessionStatus
<1>6. CASE RespondFails
  <2>1. PlayTypeOK
    BY DEF PlayIInv
  <2>2. result' \in ResultType
    BY <1>6, <2>1, FailureEffects, EndsInType DEF PlayIInv, PlayTypeOK, ResultType, SessionStatus, Limits, EndsAsking
  <2>3. pc' \in {"shutdown"} /\ turn' \in Role
    BY <1>6, <2>1, FailureEffects DEF PlayIInv, PlayTypeOK, Ends, EndsAsking
  <2>4. agent' \in [Role -> SUBSET Stage] /\ trajectory' \in Seq(Steps)
    BY <1>6, <2>1, FailureEffects, StepTypes DEF PlayIInv, PlayTypeOK, Stage, EndsAsking
  <2>5. rejected' \in BOOLEAN /\ previousYield' \in Role \cup {Nobody} /\ yielded' \subseteq Role
        /\ UNCHANGED <<kind, training>>
    BY <1>6, <2>1, FailureEffects DEF PlayIInv, PlayTypeOK, EndsAsking
  <2>6. QED
    BY <2>1, <2>2, <2>3, <2>4, <2>5 DEF PlayTypeOK, ResultType, Steps
<1>7. ASSUME NEW r \in Responses(state), Respond(r)
      PROVE  PlayTypeOK'
  <2>1. Answered(r) /\ (NoAction(r) \/ Rejection(r) \/ Acceptance(r))
    BY <1>7, ResponseEffects
  <2>2. /\ PlayTypeOK /\ result.decisions \in Nat /\ result.decisions < MaxDecisions
    BY <2>1 DEF PlayIInv, PlayTypeOK, Answered
  <2>3. result' \in ResultType
    BY <2>1, <2>2 DEF PlayTypeOK, ResultType, NoAction, Rejection, Acceptance, CountedAs
  <2>4. trajectory' \in Seq(Steps)
    <3>1. [decision |-> result.decisions + 1, accepted |-> FALSE, terminal |-> FALSE] \in Steps
      BY <2>2 DEF Steps
    <3>2. trajectory \in Seq(Steps)
      BY <2>2, StepTypes
    <3>3. QED
      BY <2>1, <3>1, <3>2 DEF NoAction, Rejection, Acceptance
  <2>5. pc' \in {"message", "after", "observeA"} /\ rejected' \in BOOLEAN /\ yielded' \subseteq Role
        /\ UNCHANGED <<turn, kind, training, previousYield, agent>>
    BY <2>1, <2>2 DEF PlayTypeOK, Answered, NoAction, Rejection, Acceptance
  <2>6. QED
    BY <2>2, <2>3, <2>4, <2>5 DEF PlayTypeOK, ResultType, Steps
<1>8. CASE WrongLearnerResponse
  <2>1. PlayTypeOK
    BY DEF PlayIInv
  <2>2. result' \in ResultType
    BY <1>8, <2>1, FailureEffects, EndsInType DEF PlayIInv, PlayTypeOK, ResultType, SessionStatus, Limits, EndsAsking
  <2>3. pc' \in {"shutdown"} /\ turn' \in Role
    BY <1>8, <2>1, FailureEffects DEF PlayIInv, PlayTypeOK, Ends, EndsAsking
  <2>4. agent' \in [Role -> SUBSET Stage] /\ trajectory' \in Seq(Steps)
    BY <1>8, <2>1, FailureEffects, StepTypes DEF PlayIInv, PlayTypeOK, Stage, EndsAsking
  <2>5. rejected' \in BOOLEAN /\ previousYield' \in Role \cup {Nobody} /\ yielded' \subseteq Role
        /\ UNCHANGED <<kind, training>>
    BY <1>8, <2>1, FailureEffects DEF PlayIInv, PlayTypeOK, EndsAsking
  <2>6. QED
    BY <2>1, <2>2, <2>3, <2>4, <2>5 DEF PlayTypeOK, ResultType, Steps
<1>9. ASSUME NEW r \in Role, NEW ok \in BOOLEAN, Observe(r, ok)
      PROVE  PlayTypeOK'
  <2>1. /\ PlayTypeOK /\ pc \in Acting /\ 1 <= result.decisions /\ result.decisions <= MaxDecisions
    BY <1>9, ObserveEffects DEF PlayIInv, CountsFit, StepsInOrder, Acting
  <2>2. result' \in ResultType
    BY <1>9, <2>1, ObserveEffects, EndsInType DEF PlayTypeOK, ResultType, SessionStatus
  <2>3. trajectory' \in Seq(Steps)
    <3> DEFINE step == [decision |-> result.decisions, accepted |-> TRUE, terminal |-> IsComplete(next)]
    <3>1. step \in Steps
      BY <2>1 DEF Steps, PlayTypeOK, IsComplete
    <3>2. trajectory \in Seq(Steps)
      BY <2>1, StepTypes
    <3>3. trajectory' = trajectory \/ trajectory' = Append(trajectory, step)
      BY <1>9, ObserveEffects
    <3> HIDE DEF step
    <3>4. QED
      BY <3>1, <3>2, <3>3
  <2>4. pc' \in {"observeB", "message", "after", "shutdown"} /\ turn' \in Role
    BY <1>9, <2>1, ObserveEffects DEF Ends, PlayTypeOK
  <2>5. UNCHANGED <<kind, training, rejected, previousYield, agent, yielded>>
    BY <1>9, ObserveEffects
  <2>6. QED
    BY <2>1, <2>2, <2>3, <2>4, <2>5 DEF PlayTypeOK, ResultType, Steps
<1>10. ASSUME NEW ok \in BOOLEAN, DeliverMessage(ok)
      PROVE  PlayTypeOK'
  <2>1. PlayTypeOK
    BY DEF PlayIInv
  <2>2. result' \in ResultType
    BY <1>10, <2>1, DeliveryEffects, EndsInType DEF PlayIInv, PlayTypeOK, ResultType, SessionStatus, Limits
  <2>3. pc' \in {"after", "shutdown"} /\ turn' \in Role
    BY <1>10, <2>1, DeliveryEffects DEF PlayIInv, PlayTypeOK, Ends
  <2>4. agent' \in [Role -> SUBSET Stage] /\ trajectory' \in Seq(Steps)
    BY <1>10, <2>1, DeliveryEffects, StepTypes DEF PlayIInv, PlayTypeOK, Stage
  <2>5. rejected' \in BOOLEAN /\ previousYield' \in Role \cup {Nobody} /\ yielded' \subseteq Role
        /\ UNCHANGED <<kind, training>>
    BY <1>10, <2>1, DeliveryEffects DEF PlayIInv, PlayTypeOK
  <2>6. QED
    BY <2>1, <2>2, <2>3, <2>4, <2>5 DEF PlayTypeOK, ResultType, Steps
<1>11. CASE After
  <2>1. PlayTypeOK
    BY DEF PlayIInv
  <2>2. result' \in ResultType
    BY <1>11, <2>1, AfterEffects, EndsInType DEF PlayIInv, PlayTypeOK, ResultType, SessionStatus, Limits, other_role, NextMemory
  <2>3. pc' \in {"finish", "loop", "shutdown"} /\ turn' \in Role
    BY <1>11, <2>1, AfterEffects DEF PlayIInv, PlayTypeOK, Ends, other_role, NextMemory
  <2>4. agent' \in [Role -> SUBSET Stage] /\ trajectory' \in Seq(Steps)
    BY <1>11, <2>1, AfterEffects, StepTypes DEF PlayIInv, PlayTypeOK, Stage, other_role, NextMemory
  <2>5. rejected' \in BOOLEAN /\ previousYield' \in Role \cup {Nobody} /\ yielded' \subseteq Role
        /\ UNCHANGED <<kind, training>>
    BY <1>11, <2>1, AfterEffects DEF PlayIInv, PlayTypeOK, other_role, NextMemory
  <2>6. QED
    BY <2>1, <2>2, <2>3, <2>4, <2>5 DEF PlayTypeOK, ResultType, Steps
<1>12. ASSUME NEW ok \in BOOLEAN, FinishAgent(ok)
      PROVE  PlayTypeOK'
  <2>1. PlayTypeOK
    BY DEF PlayIInv
  <2>2. result' \in ResultType
    BY <1>12, <2>1, FinishEffects, EndsInType DEF PlayIInv, PlayTypeOK, ResultType, SessionStatus, Limits
  <2>3. pc' \in {"finish", "shutdown"} /\ turn' \in Role
    BY <1>12, <2>1, FinishEffects DEF PlayIInv, PlayTypeOK, Ends
  <2>4. agent' \in [Role -> SUBSET Stage] /\ trajectory' \in Seq(Steps)
    BY <1>12, <2>1, FinishEffects, StepTypes DEF PlayIInv, PlayTypeOK, Stage
  <2>5. rejected' \in BOOLEAN /\ previousYield' \in Role \cup {Nobody} /\ yielded' \subseteq Role
        /\ UNCHANGED <<kind, training>>
    BY <1>12, <2>1, FinishEffects DEF PlayIInv, PlayTypeOK
  <2>6. QED
    BY <2>1, <2>2, <2>3, <2>4, <2>5 DEF PlayTypeOK, ResultType, Steps
<1>13. CASE ShutDown
  BY <1>13 DEF PlayIInv, ShutDown, other_role, PlayTypeOK, Stage, SessionStatus, Limits
<1>14. QED
  BY <1>1, <1>2, <1>3, <1>4, <1>5, <1>6, <1>7, <1>8, <1>9, <1>10, <1>11, <1>12, <1>13 DEF PlayNext

\* A response is of a known kind and the views are those of the two roles.
LEMMA RestStays ==
    ASSUME PlayIInv, PlayNext
    PROVE  Shape'
<1> USE PlayBounds DEF Role
<1>1. ASSUME NEW ok \in BOOLEAN, CreateGame(ok)
      PROVE  Shape'
  BY <1>1, LeaveEnds DEF PlayIInv, CreateGame, Ends, Shape, PlayTypeOK
<1>2. ASSUME NEW ok \in BOOLEAN, CreateAgent(ok)
      PROVE  Shape'
  BY <1>2, LeaveEnds DEF PlayIInv, CreateAgent, Ends, other_role, Shape, PlayTypeOK
<1>3. ASSUME NEW ok \in BOOLEAN, InitialState(ok)
      PROVE  Shape'
  BY <1>3, LeaveEnds DEF PlayIInv, InitialState, Ends, Shape, PlayTypeOK
<1>4. ASSUME NEW ok \in BOOLEAN, StartAgent(ok)
      PROVE  Shape'
  BY <1>4, StartEffects DEF PlayIInv, Ends, other_role, Shape, PlayTypeOK
<1>5. ASSUME NEW limit \in Limits, StopBefore(limit)
      PROVE  Shape'
  BY <1>5, LeaveEnds DEF PlayIInv, StopBefore, Limits, Ends, Shape, PlayTypeOK
<1>6. CASE RespondFails
  BY <1>6, FailureEffects DEF PlayIInv, EndsAsking, Shape, PlayTypeOK
<1>7. ASSUME NEW r \in Responses(state), Respond(r)
      PROVE  Shape'
  BY <1>7, ResponseEffects DEF PlayIInv, Answered, NoAction, Rejection, Acceptance, CountedAs, HasAction, HasMessage, Shape, PlayTypeOK
<1>8. CASE WrongLearnerResponse
  BY <1>8, FailureEffects DEF PlayIInv, EndsAsking, Shape, PlayTypeOK
<1>9. ASSUME NEW r \in Role, NEW ok \in BOOLEAN, Observe(r, ok)
      PROVE  Shape'
  BY <1>9, ObserveEffects DEF PlayIInv, Ends, HasMessage, Shape, PlayTypeOK
<1>10. ASSUME NEW ok \in BOOLEAN, DeliverMessage(ok)
      PROVE  Shape'
  BY <1>10, DeliveryEffects DEF PlayIInv, Ends, Shape, PlayTypeOK
<1>11. CASE After
  BY <1>11, AfterEffects, VerdictMeans DEF PlayIInv, Ends, NextMemory, other_role, BothYield, Shape, PlayTypeOK
<1>12. ASSUME NEW ok \in BOOLEAN, FinishAgent(ok)
      PROVE  Shape'
  BY <1>12, FinishEffects DEF PlayIInv, Ends, Shape, PlayTypeOK
<1>13. CASE ShutDown
  BY <1>13 DEF PlayIInv, ShutDown, other_role, Shape, PlayTypeOK
<1>14. QED
  BY <1>1, <1>2, <1>3, <1>4, <1>5, <1>6, <1>7, <1>8, <1>9, <1>10, <1>11, <1>12, <1>13 DEF PlayNext

\* The invariant holds at first.
LEMMA PlayInitIInv ==
    ASSUME PlayInit
    PROVE  PlayIInv
<1> USE PlayBounds DEF Role
<1>1. PlayTypeOK /\ Shape
  <2>1. turn \in Role /\ agent \in [Role -> SUBSET Stage] /\ Shape
    BY DEF PlayInit, Stage, Shape
  <2>2. result \in ResultType
    BY DEF PlayInit, ResultType, SessionStatus
  <2>3. trajectory \in Seq(Steps)
    BY DEF PlayInit
  <2>4. QED
    BY <2>1, <2>2, <2>3 DEF PlayInit, PlayTypeOK, ResultType, Steps
<1>2. Undecided /\ SeatsInOrder /\ ViewsFollow
  BY DEF PlayInit, Undecided, Over, SeatsInOrder, ViewsFollow
<1>3. CountsFit /\ YieldsAreKnown /\ StepsInOrder
  BY DEF PlayInit, CountsFit, Ran, Acting, YieldsAreKnown, StepsInOrder, TrajectoryIsOrdered, Nobody
<1>4. QED
  BY <1>1, <1>2, <1>3 DEF PlayIInv

\* And is kept by every step.
LEMMA PlayStep ==
    ASSUME PlayIInv, [PlayNext]_playVars
    PROVE  PlayIInv'
<1>1. CASE PlayNext
  BY <1>1, UndecidedStays, SeatsStayInOrder, ViewsStay, CountsStay, YieldsStay, StepsStay, TypesStay, RestStays DEF PlayIInv
<1>2. CASE UNCHANGED playVars
  <2>1. (PlayTypeOK /\ Shape)'
    BY <1>2 DEF playVars, PlayIInv, PlayTypeOK, Shape
  <2>2. (Undecided /\ SeatsInOrder /\ ViewsFollow)'
    BY <1>2 DEF playVars, PlayIInv, Undecided, Over, SeatsInOrder, ViewsFollow
  <2>3. (CountsFit /\ YieldsAreKnown)'
    BY <1>2 DEF playVars, PlayIInv, CountsFit, Ran, Acting, YieldsAreKnown
  <2>4. StepsInOrder'
    BY <1>2 DEF playVars, PlayIInv, Acting, StepsInOrder, TrajectoryIsOrdered
  <2>5. QED
    BY <2>1, <2>2, <2>3, <2>4 DEF PlayIInv
<1>3. QED
  BY <1>1, <1>2

\* It says what a session promises.
LEMMA PlayIsEven ==
    ASSUME PlayIInv
    PROVE  SessionIsEven
<1>1. PlayTypeOK /\ NobodyIsLeftRunning /\ BothSeeTheGame /\ CompletionIsShared
  BY DEF PlayIInv, SeatsInOrder, ViewsFollow, Over, NobodyIsLeftRunning, BothSeeTheGame, CompletionIsShared
<1>2. LimitsHold
  BY DEF PlayIInv, CountsFit, Ran, LimitsHold
<1>3. QuiescenceIsMutual
  BY DEF PlayIInv, YieldsAreKnown, QuiescenceIsMutual, Role, Nobody
<1>4. TrajectoryIsOrdered
  BY DEF PlayIInv, StepsInOrder
<1>5. QED
  BY <1>1, <1>2, <1>3, <1>4 DEF SessionIsEven

\* agent_experiment.rs, SessionRunner: both agents see the game and its end, nobody
\* is left running, limits and quiescence are judged rightly and the learner's
\* steps are in order, for every game and whatever the agents answer.
THEOREM SessionsStayEven == PlaySpec => []SessionIsEven
<1>1. PlayInit => PlayIInv
  BY PlayInitIInv
<1>2. PlayIInv /\ [PlayNext]_playVars => PlayIInv'
  BY PlayStep
<1>3. PlayIInv => SessionIsEven
  BY PlayIsEven
<1>4. QED
  BY <1>1, <1>2, <1>3, PTL DEF PlaySpec
-----------------------------------------------------------------------------
(* The headless run, killed and resumed *)

\* What the files say of a plan, told of any set of results.
Result(R, p) == CHOOSE r \in R : r.plan = p
Ended(R, p) == \E r \in R : r.plan = p
OneEach(R) == \A r, q \in R : r.plan = q.plan => r = q

\* The plans of the epochs E, and what their sessions have brought.
EpochPlans(s, E, c) == UNION {ToSet(PlanSet(s, "training", e, c)) : e \in E}
Harvest(R, P) == UNION {Result(R, p).steps : p \in P}
AllWell(R, P) == \A p \in P : Ended(R, p) /\ Result(R, p).ok

\* The boundary that a plan was played behind.
Due(s, p) ==
    IF p.phase = "evaluation" THEN 0
    ELSE IF p.phase = "training" THEN (p.index - 1) \div s.every ELSE p.index

\* The learner's checkpoints are numbered as its updates are, and a record says
\* so: each starts where the last one ended.
RecordsNumber ==
    /\ learner \in Seq(Nat) /\ \A n \in 1..Len(learner) : learner[n] = n
    /\ records \in Seq(CheckpointRecord)
    /\ \A n \in 1..Len(records) : records[n] = [run |-> manifest.run, base |-> n - 1, checkpoint |-> n]
    /\ Len(records) <= Len(learner) /\ Len(learner) <= Len(records) + 1

\* One result of a plan, of this run, played under the checkpoint of its boundary.
ResultFits(r) ==
    /\ r \in SessionResult /\ r.run = manifest.run
    /\ r.plan \in ToSet(PlanSet(manifest.spec, r.plan.phase, r.plan.index, r.plan.checkpoint))
    /\ Due(manifest.spec, r.plan) <= Len(records) /\ r.plan.checkpoint = Due(manifest.spec, r.plan)
    /\ r.plan.phase = "training" => manifest.spec.training /\ r.plan.index \in 1..manifest.spec.epochs
ResultsFit == OneEach(results) /\ \A r \in results : ResultFits(r)

\* A call asks for what the files say of the epochs before its boundary.
CallFits(c) ==
    /\ c \in TrainingBatch /\ c.update \in 1..(Len(records) + 1) /\ c.base = c.update - 1
    /\ AllWell(results, EpochPlans(manifest.spec, Window(c.update), c.base))
    /\ c.steps = Harvest(results, EpochPlans(manifest.spec, Window(c.update), c.base))
CallsFit ==
    /\ calls \in Seq(TrainingBatch) /\ \A i \in 1..Len(calls) : CallFits(calls[i])
    /\ \A n \in 1..Len(records) : \E i \in 1..Len(calls) : calls[i].update = n

\* What the directory and the learner hold, whether a process runs or not.
FilesFit ==
    /\ manifest = None \/ manifest \in RunManifest
    /\ manifest = None => results = {} /\ records = <<>> /\ learner = <<>> /\ calls = <<>>
    /\ manifest # None => ValidSpec(manifest.spec)
    /\ RecordsNumber /\ ResultsFit /\ CallsFit

\* A process acts on the specification and the run of the manifest.
ProcessKnows ==
    /\ runAt \in {"off", "plan", "execute", "boundary", "train", "record", "finish"}
    /\ invocation \in 0..MaxInvocations
    /\ exit \in {"none", "refused", "failed", "crashed", "done"}
    /\ phase \in Phase /\ epoch \in Nat /\ checkpoint \in Nat /\ checkpoints \in Nat
    /\ runAt = "off" => checkpoint = 0 /\ checkpoints = 0 /\ pending = {} /\ epoch = 0 /\ phase = "evaluation"
    /\ runAt # "off" => /\ manifest # None /\ spec = manifest.spec /\ run = manifest.run
                        /\ invocation >= 1 /\ exit = "none"

\* Where it is between two boundaries.
BoundaryFits ==
    /\ runAt \in {"plan", "execute", "boundary", "finish"} => checkpoint = checkpoints /\ checkpoints <= Len(records)
    /\ runAt \in {"train", "record"} => checkpoints = Len(records) + 1 /\ checkpoint = checkpoints - 1
    /\ runAt = "record" => /\ Len(learner) >= checkpoints
                           /\ \E i \in 1..Len(calls) : calls[i].update = checkpoints
EpochFits ==
    /\ phase = "evaluation" => epoch = 0 /\ checkpoints = 0 /\ runAt \in {"off", "plan", "execute", "finish"}
    /\ phase # "evaluation" => spec.training /\ epoch \in 1..spec.epochs
    /\ phase = "training" /\ runAt \in {"plan", "execute"} =>
          checkpoint * spec.every < epoch /\ epoch <= (checkpoint + 1) * spec.every
    /\ runAt \in {"boundary", "train", "record"} => phase = "training" /\ epoch = (checkpoint + 1) * spec.every
    /\ phase = "validation" => epoch = checkpoint * spec.every /\ runAt \in {"plan", "execute", "finish"}
    /\ runAt = "finish" /\ spec.training => epoch = spec.epochs /\ epoch = checkpoint * spec.every

\* The set of plans that is executed: each is waiting, played or finalized, and
\* the batch has what the finalized ones have brought.
SetFits ==
    /\ runAt # "execute" => inflight = {} /\ queue = {}
    /\ runAt = "execute" =>
          /\ ~DuplicatePlan(Plans)
          /\ queue \subseteq DOMAIN Plans /\ inflight \subseteq ToSet(Plans)
          /\ \A k \in queue : Plans[k] \notin inflight /\ ~Ended(results, Plans[k])
          /\ \A p \in inflight : ~Ended(results, p)
          /\ \A k \in DOMAIN Plans : k \in queue \/ Plans[k] \in inflight \/ Ended(results, Plans[k])
          /\ batch.steps = Harvest(results, {p \in ToSet(Plans) : Ended(results, p)})
          /\ ~batch.failed => \A p \in ToSet(Plans) : Ended(results, p) => Result(results, p).ok
BatchTyped == batch \in [steps : SUBSET TrajectoryStep, failed : BOOLEAN] /\ pending \subseteq TrajectoryStep

\* Pending are the steps of the epochs since the last boundary.
Gathered(hi) ==
    LET P == EpochPlans(spec, (checkpoint * spec.every + 1)..hi, checkpoint) IN
    AllWell(results, P) /\ pending = Harvest(results, P)
PendingFits ==
    IF phase = "training" /\ runAt \in {"plan", "execute"} THEN Gathered(epoch - 1)
    ELSE IF runAt \in {"boundary", "train"} THEN Gathered(epoch)
    ELSE pending = {}

\* A run that is done has a record for each of its boundaries.
DoneFits ==
    exit = "done" =>
        /\ manifest # None
        /\ manifest.spec.training => manifest.spec.epochs <= Len(records) * manifest.spec.every

RunIInv ==
    /\ FilesFit /\ ProcessKnows /\ BoundaryFits /\ EpochFits /\ SetFits /\ BatchTyped /\ PendingFits /\ DoneFits

-----------------------------------------------------------------------------
(* Numbers.                                                                *)

\* Quotient and remainder.
LEMMA DivIs ==
    ASSUME NEW a \in Int, NEW b \in Nat \ {0}
    PROVE  a \div b \in Int /\ a % b \in 0..b-1 /\ a = b * (a \div b) + (a % b)
OBVIOUS

\* The quotient between two multiples.
LEMMA DivAt ==
    ASSUME NEW a \in Int, NEW b \in Nat \ {0}, NEW c \in Int, c * b <= a, a < (c + 1) * b
    PROVE  a \div b = c
OBVIOUS

\* The quotient below a multiple.
LEMMA DivBelow ==
    ASSUME NEW a \in Nat, NEW b \in Nat \ {0}, NEW n \in Nat, a < n * b
    PROVE  a \div b \in Nat /\ a \div b < n
OBVIOUS

\* Only the end of a stretch is a multiple.
LEMMA ModEnd ==
    ASSUME NEW a \in Nat, NEW b \in Nat \ {0}, NEW c \in Nat, c * b < a, a <= (c + 1) * b, a % b = 0
    PROVE  a = (c + 1) * b
<1>1. PICK q \in Int : q = a \div b
  BY DivIs
<1>2. a = b * q
  BY <1>1, DivIs
<1>3. c < q
  BY <1>2
<1>4. q <= c + 1
  BY <1>2
<1>5. q = c + 1
  BY <1>3, <1>4
<1>6. QED
  BY <1>2, <1>5

\* A multiple has no remainder.
LEMMA ModNone ==
    ASSUME NEW b \in Nat \ {0}, NEW c \in Nat
    PROVE  (c * b) % b = 0
<1>1. PICK r : r = (c * b) % b
  OBVIOUS
<1>2. PICK q \in Int : q = (c * b) \div b
  BY DivIs
<1>3. PICK p \in Int : p = c * b
  OBVIOUS
<1>4. p = b * q + r /\ r \in 0..b-1
  BY <1>1, <1>2, <1>3, DivIs
<1>5. c * b <= p /\ p < (c + 1) * b
  BY <1>3
<1>6. q = c
  BY <1>2, <1>3, <1>5, DivAt
<1>7. b * q = p
  BY <1>3, <1>6
<1>8. r = 0
  BY <1>4, <1>7
<1>9. QED
  BY <1>1, <1>8

\* One stretch more.
LEMMA OneTimeMore ==
    ASSUME NEW a \in Int, NEW b \in Int
    PROVE  a * b \in Int /\ (a + 1) * b = a * b + b
OBVIOUS

\* A number lies in the stretch its quotient names.
LEMMA DivWindow ==
    ASSUME NEW e \in Nat, NEW a \in Nat, a = e - 1, NEW v \in Nat \ {0}, NEW q \in Nat, q = a \div v
    PROVE  e \in (q * v + 1)..((q + 1) * v)
<1>1. PICK x : x = a % v
  OBVIOUS
<1>2. PICK m \in Int : m = q * v
  BY OneTimeMore
<1>3. a = v * q + x /\ x \in 0..v-1
  BY <1>1, DivIs
<1>4. (q + 1) * v = m + v /\ v * q = m
  BY <1>2, OneTimeMore
<1>5. a = m + x
  BY <1>3, <1>4
<1>6. m + 1 <= e /\ e <= m + v
  BY <1>2, <1>3, <1>5
<1>7. QED
  BY <1>2, <1>4, <1>6

-----------------------------------------------------------------------------
(* Plans and results.                                                      *)

\* What a valid specification has.
LEMMA SpecHas ==
    ASSUME NEW s \in Specs, ValidSpec(s)
    PROVE  /\ s.seeds \in Seq(Nat) /\ Len(s.seeds) \in Nat /\ s.repetitions \in Nat \ {0}
           /\ s.epochs \in Nat /\ s.every \in Nat /\ s.training \in BOOLEAN /\ s.sessions \in BOOLEAN
           /\ s.training => s.epochs > 0 /\ s.every > 0 /\ s.epochs % s.every = 0
           /\ (s.sessions \/ s.training) /\ (s.validation => s.training)
           /\ Legs(s) \in {<<"original">>, <<"original", "mirrored">>}
<1>1. s \in ExperimentFile
  BY SpecsAssumption
<1>2. /\ s.seeds \in Seq(Nat) /\ s.repetitions \in Nat /\ s.epochs \in Nat /\ s.every \in Nat
      /\ s.training \in BOOLEAN /\ s.sessions \in BOOLEAN
  BY <1>1 DEF ExperimentFile
<1>3. QED
  BY <1>2 DEF ValidSpec, ValidSessionSet, Legs

\* Plans of one set differ in seed, repetition and roles only.
LEMMA PlansAre ==
    ASSUME NEW s \in Specs, ValidSpec(s), NEW ph \in Phase, NEW i \in Nat, NEW c \in Nat,
           NEW k \in DOMAIN PlanSet(s, ph, i, c)
    PROVE  /\ PlanSet(s, ph, i, c)[k] \in SessionPlan
           /\ PlanSet(s, ph, i, c)[k].phase = ph /\ PlanSet(s, ph, i, c)[k].index = i
           /\ PlanSet(s, ph, i, c)[k].checkpoint = c
<1> DEFINE legs == Legs(s)
<1> DEFINE perSeed == s.repetitions * Len(legs)
<1> DEFINE n == Len(s.seeds) * perSeed
<1>1. /\ s.seeds \in Seq(Nat) /\ Len(s.seeds) \in Nat /\ s.repetitions \in Nat \ {0}
      /\ legs \in {<<"original">>, <<"original", "mirrored">>} /\ Len(legs) \in {1, 2}
      /\ \A j \in 1..Len(legs) : legs[j] \in {"original", "mirrored"}
  BY SpecHas
<1>2. perSeed \in Nat \ {0}
  <2>1. CASE Len(legs) = 1
    BY <1>1, <2>1
  <2>2. CASE Len(legs) = 2
    BY <1>1, <2>2
  <2>3. QED
    BY <1>1, <2>1, <2>2
<1>3. n \in Nat
  BY <1>1, <1>2
<1>4. DOMAIN PlanSet(s, ph, i, c) = 1..n
  BY DEF PlanSet
<1>5. k \in 1..n
  BY <1>4
<1>6. PlanSet(s, ph, i, c)[k] =
         [phase |-> ph, index |-> i, seed |-> s.seeds[((k - 1) \div perSeed) + 1],
          repetition |-> ((k - 1) % perSeed) \div Len(legs), leg |-> legs[((k - 1) % Len(legs)) + 1],
          checkpoint |-> c]
  BY <1>5 DEF PlanSet
<1>7. s.seeds[((k - 1) \div perSeed) + 1] \in Nat
  <2>1. k - 1 \in Nat /\ k - 1 < n
    BY <1>3, <1>5
  <2> HIDE DEF perSeed
  <2>2. (k - 1) \div perSeed \in Nat /\ (k - 1) \div perSeed < Len(s.seeds)
    BY <1>1, <1>2, <2>1, DivBelow
  <2>3. ((k - 1) \div perSeed) + 1 \in 1..Len(s.seeds)
    BY <1>1, <2>2
  <2>4. QED
    BY <1>1, <2>3
<1>8. ((k - 1) % perSeed) \div Len(legs) \in Nat
  <2>1. k - 1 \in Int
    BY <1>3, <1>5
  <2> HIDE DEF perSeed, legs
  <2>2. (k - 1) % perSeed \in 0..perSeed - 1
    BY <1>2, <2>1, DivIs
  <2>3. (k - 1) % perSeed \in Nat
    BY <1>2, <2>2
  <2>4. PICK m \in Nat : m = (k - 1) % perSeed
    BY <2>3
  <2>5. PICK l \in {1, 2} : l = Len(legs)
    BY <1>1
  <2>6. m \div l \in Nat
    BY DivBelow
  <2>7. QED
    BY <2>4, <2>5, <2>6
<1>9. legs[((k - 1) % Len(legs)) + 1] \in {"original", "mirrored"}
  <2> HIDE DEF legs
  <2>1. PICK l \in {1, 2} : l = Len(legs)
    BY <1>1
  <2>2. k - 1 \in Int
    BY <1>3, <1>5
  <2>3. (k - 1) % l \in 0..l - 1
    BY <2>2, DivIs
  <2>4. ((k - 1) % l) + 1 \in 1..l
    BY <2>3
  <2>5. QED
    BY <1>1, <2>1, <2>4
<1> HIDE DEF legs, perSeed, n
<1>10. QED
  BY <1>6, <1>7, <1>8, <1>9 DEF SessionPlan

\* The same of the members of the set.
LEMMA PlanOf ==
    ASSUME NEW s \in Specs, ValidSpec(s), NEW ph \in Phase, NEW i \in Nat, NEW c \in Nat,
           NEW p \in ToSet(PlanSet(s, ph, i, c))
    PROVE  p \in SessionPlan /\ p.phase = ph /\ p.index = i /\ p.checkpoint = c
<1>1. PICK k \in DOMAIN PlanSet(s, ph, i, c) : p = PlanSet(s, ph, i, c)[k]
  BY DEF ToSet
<1>2. QED
  BY <1>1, PlansAre

\* The result of a plan.
LEMMA ResultIs ==
    ASSUME NEW R, OneEach(R)
    PROVE  /\ \A p : Ended(R, p) => Result(R, p) \in R /\ Result(R, p).plan = p
           /\ \A r \in R : Ended(R, r.plan) /\ Result(R, r.plan) = r
<1>1. ASSUME NEW p, Ended(R, p) PROVE Result(R, p) \in R /\ Result(R, p).plan = p
  BY <1>1 DEF Ended, Result
<1>2. ASSUME NEW r \in R PROVE Ended(R, r.plan) /\ Result(R, r.plan) = r
  <2>1. Ended(R, r.plan)
    BY DEF Ended
  <2>2. QED
    BY <1>1, <2>1 DEF OneEach
<1>3. QED
  BY <1>1, <1>2

\* New results leave the old ones what they were.
LEMMA ResultsGrow ==
    ASSUME NEW R, NEW Q, R \subseteq Q, OneEach(Q), NEW p, Ended(R, p)
    PROVE  Ended(Q, p) /\ Result(Q, p) = Result(R, p)
<1>1. OneEach(R)
  BY DEF OneEach
<1>2. Result(R, p) \in Q /\ Result(R, p).plan = p
  BY <1>1, ResultIs
<1>3. QED
  BY <1>2, ResultIs

\* And what they have brought.
LEMMA HarvestGrows ==
    ASSUME NEW R, NEW Q, R \subseteq Q, OneEach(Q), NEW P, AllWell(R, P)
    PROVE  AllWell(Q, P) /\ Harvest(Q, P) = Harvest(R, P)
<1>1. \A p \in P : Ended(R, p) /\ Ended(Q, p) /\ Result(Q, p) = Result(R, p)
  BY ResultsGrow DEF AllWell
<1>2. AllWell(Q, P)
  BY <1>1 DEF AllWell
<1>3. {Result(Q, p).steps : p \in P} = {Result(R, p).steps : p \in P}
  BY <1>1
<1>4. QED
  BY <1>2, <1>3 DEF Harvest

\* One more epoch.
LEMMA OneMoreEpoch ==
    ASSUME NEW s, NEW c, NEW lo \in Int, NEW hi \in Int, lo <= hi
    PROVE  EpochPlans(s, lo..hi, c) = EpochPlans(s, lo..(hi - 1), c) \cup ToSet(PlanSet(s, "training", hi, c))
<1>1. lo..hi = (lo..(hi - 1)) \cup {hi}
  OBVIOUS
<1>2. QED
  BY <1>1 DEF EpochPlans

\* No epoch.
LEMMA NoEpoch ==
    ASSUME NEW s, NEW c, NEW lo \in Int, NEW R
    PROVE  AllWell(R, EpochPlans(s, lo..(lo - 1), c)) /\ Harvest(R, EpochPlans(s, lo..(lo - 1), c)) = {}
<1>1. lo..(lo - 1) = {}
  OBVIOUS
<1>2. EpochPlans(s, lo..(lo - 1), c) = {}
  BY <1>1 DEF EpochPlans
<1>3. QED
  BY <1>2 DEF AllWell, Harvest

-----------------------------------------------------------------------------
(* The process between its steps.                                          *)

\* The process' half of the invariant.
ProcessFits == ProcessKnows /\ BoundaryFits /\ EpochFits /\ SetFits /\ BatchTyped /\ PendingFits /\ DoneFits

\* What a running process acts on.
LEMMA RunningKnows ==
    ASSUME FilesFit, ProcessKnows, runAt # "off"
    PROVE  /\ manifest \in RunManifest /\ spec \in Specs /\ ValidSpec(spec)
           /\ spec = manifest.spec /\ run = manifest.run /\ run \in 1..MaxInvocations
           /\ invocation \in 1..MaxInvocations /\ exit = "none"
<1>1. /\ manifest \in RunManifest /\ spec = manifest.spec /\ run = manifest.run /\ ValidSpec(spec)
      /\ invocation >= 1 /\ invocation \in 0..MaxInvocations /\ exit = "none"
  BY DEF FilesFit, ProcessKnows
<1>2. spec \in Specs /\ run \in 1..MaxInvocations
  BY <1>1 DEF RunManifest
<1>3. QED
  BY <1>1, <1>2, InvocationsAssumption

\* A process that is gone knows nothing.
LEMMA StopFits ==
    ASSUME ProcessKnows, NEW how \in {"refused", "failed", "crashed"}, Stop(how)
    PROVE  ProcessFits'
<1>1. /\ runAt' = "off" /\ exit' = how /\ phase' = "evaluation" /\ epoch' = 0
      /\ checkpoint' = 0 /\ checkpoints' = 0 /\ queue' = {} /\ inflight' = {}
      /\ batch' = EmptyBatch /\ pending' = {} /\ invocation' = invocation
  BY DEF Stop, Blank, InitialCheckpoint
<1>2. ProcessKnows'
  BY <1>1 DEF ProcessKnows, Phase
<1>3. BoundaryFits' /\ EpochFits' /\ SetFits' /\ DoneFits'
  BY <1>1 DEF BoundaryFits, EpochFits, SetFits, DoneFits
<1>4. BatchTyped' /\ PendingFits'
  BY <1>1 DEF BatchTyped, PendingFits, EmptyBatch
<1>5. QED
  BY <1>2, <1>3, <1>4 DEF ProcessFits

\* Files nobody writes.
LEMMA FilesFrame ==
    ASSUME FilesFit, UNCHANGED <<disk, outside>>
    PROVE  FilesFit'
<1>1. manifest' = manifest /\ results' = results /\ records' = records /\ learner' = learner /\ calls' = calls
  BY DEF disk, outside
<1>2. RecordsNumber' /\ ResultsFit' /\ CallsFit'
  BY <1>1 DEF FilesFit, RecordsNumber, ResultsFit, ResultFits, CallsFit, CallFits, Window
<1>3. QED
  BY <1>1, <1>2 DEF FilesFit

\* After a boundary, or after an evaluation, the next epoch or the end.
LEMMA EpochTurns ==
    ASSUME spec \in Specs, ValidSpec(spec), spec.training, spec' = spec,
           epoch \in 0..spec.epochs, checkpoint' \in Nat, checkpoints' = checkpoint',
           epoch = checkpoint' * spec.every, phase \in Phase, pending' = {},
           phase = "evaluation" => epoch = 0, NextEpoch
    PROVE  /\ runAt' \in {"plan", "finish"} /\ phase' \in Phase /\ epoch' \in Nat
           /\ EpochFits' /\ PendingFits'
<1>1. spec.epochs \in Nat \ {0} /\ spec.every \in Nat \ {0}
  BY SpecHas
<1>2. PICK m \in Int : m = checkpoint' * spec.every
  BY <1>1, OneTimeMore
<1>3. (checkpoint' + 1) * spec.every = m + spec.every
  <2>1. PICK c \in Int : c = checkpoint'
    OBVIOUS
  <2>2. PICK v \in Int : v = spec.every
    BY <1>1
  <2>3. c * v = m
    BY <1>2, <2>1, <2>2
  <2>4. (c + 1) * v = m + v
    BY <2>3, OneTimeMore
  <2>5. QED
    BY <2>1, <2>2, <2>4
<1>4. CASE epoch < spec.epochs
  <2>1. epoch' = epoch + 1 /\ phase' = "training" /\ runAt' = "plan"
    BY <1>4 DEF NextEpoch
  <2>2. epoch' \in 1..spec.epochs /\ m < epoch' /\ epoch' <= m + spec.every
    BY <1>1, <1>2, <1>4, <2>1
  <2>3. EpochFits'
    BY <1>2, <1>3, <2>1, <2>2 DEF EpochFits
  <2>4. epoch' - 1 = m
    BY <1>2, <2>1
  <2>5. Gathered(epoch - 1)'
    <3>1. PICK l \in Int : l = m + 1
      BY <1>2
    <3>2. AllWell(results', EpochPlans(spec', l..(l - 1), checkpoint'))
          /\ Harvest(results', EpochPlans(spec', l..(l - 1), checkpoint')) = {}
      BY <3>1, NoEpoch
    <3>3. checkpoint' * spec'.every + 1 = l /\ epoch' - 1 = l - 1
      BY <1>2, <2>4, <3>1
    <3>4. QED
      BY <3>2, <3>3 DEF Gathered
  <2>6. PendingFits'
    BY <2>1, <2>5 DEF PendingFits
  <2>7. QED
    BY <2>1, <2>2, <2>3, <2>6 DEF Phase
<1>5. CASE ~(epoch < spec.epochs)
  <2>1. epoch' = epoch /\ phase' = phase /\ runAt' = "finish" /\ epoch = spec.epochs
    BY <1>1, <1>5 DEF NextEpoch
  <2>2. phase # "evaluation" /\ epoch' \in 1..spec.epochs
    BY <1>1, <2>1
  <2>3. EpochFits'
    BY <2>1, <2>2 DEF EpochFits
  <2>4. PendingFits'
    BY <2>1 DEF PendingFits
  <2>5. QED
    BY <2>1, <2>2, <2>3, <2>4
<1>6. QED
  BY <1>4, <1>5

\* After a boundary, the validation of its checkpoint or the next epoch.
LEMMA BoundaryTurns ==
    ASSUME spec \in Specs, ValidSpec(spec), spec.training, spec' = spec,
           epoch \in 1..spec.epochs, checkpoint' \in Nat, checkpoints' = checkpoint',
           epoch = checkpoint' * spec.every, phase = "training", pending' = {},
           NEW number, AfterBoundary(number)
    PROVE  /\ runAt' \in {"plan", "finish"} /\ phase' \in Phase /\ epoch' \in Nat
           /\ EpochFits' /\ PendingFits'
<1>1. CASE spec.validation /\ number % spec.validateEvery = 0
  <2>1. phase' = "validation" /\ runAt' = "plan" /\ epoch' = epoch
    BY <1>1 DEF AfterBoundary
  <2>2. EpochFits'
    BY <2>1 DEF EpochFits
  <2>3. PendingFits'
    BY <2>1 DEF PendingFits
  <2>4. spec.epochs \in Nat
    BY SpecHas
  <2>5. QED
    BY <2>1, <2>2, <2>3, <2>4 DEF Phase
<1>2. CASE ~(spec.validation /\ number % spec.validateEvery = 0)
  <2>1. NextEpoch
    BY <1>2 DEF AfterBoundary
  <2>2. epoch \in 0..spec.epochs /\ phase \in Phase
    BY SpecHas DEF Phase
  <2>3. QED
    BY <2>1, <2>2, EpochTurns
<1>3. QED
  BY <1>1, <1>2

-----------------------------------------------------------------------------
(* The steps of an invocation.                                             *)

\* A directory nobody has written to.
LEMMA FreshDirectory ==
    ASSUME manifest \in RunManifest, ValidSpec(manifest.spec),
           results = {}, records = <<>>, learner = <<>>, calls = <<>>
    PROVE  FilesFit
<1>1. RecordsNumber
  BY DEF RecordsNumber
<1>2. ResultsFit
  BY DEF ResultsFit, OneEach
<1>3. CallsFit
  BY DEF CallsFit
<1>4. QED
  BY <1>1, <1>2, <1>3, ValidSpec(manifest.spec) DEF FilesFit, RunManifest, None

\* The invocation is accepted: files.
LEMMA InvokeFiles ==
    ASSUME RunIInv, NEW s \in Specs, Invoke(s)
    PROVE  FilesFit'
<1>1. CASE ~(ValidSpec(s) /\ Matches(s))
  <2>1. UNCHANGED <<disk, outside>>
    BY <1>1 DEF Invoke, disk, outside
  <2>2. QED
    BY <2>1, FilesFrame DEF RunIInv
<1>2. CASE ValidSpec(s) /\ Matches(s) /\ manifest # None
  <2>1. UNCHANGED <<disk, outside>>
    BY <1>2 DEF Invoke, disk, outside
  <2>2. QED
    BY <2>1, FilesFrame DEF RunIInv
<1>3. CASE ValidSpec(s) /\ Matches(s) /\ manifest = None
  <2>1. /\ manifest' = [run |-> invocation + 1, spec |-> s] /\ results' = results
        /\ records' = records /\ learner' = learner /\ calls' = calls /\ invocation < MaxInvocations
    BY <1>3 DEF Invoke, outside
  <2>2. results = {} /\ records = <<>> /\ learner = <<>> /\ calls = <<>>
    BY <1>3 DEF RunIInv, FilesFit
  <2>3. invocation + 1 \in 1..MaxInvocations
    BY <2>1, InvocationsAssumption DEF RunIInv, ProcessKnows
  <2>4. manifest' \in RunManifest /\ ValidSpec(manifest'.spec)
    BY <1>3, <2>1, <2>3 DEF RunManifest
  <2>5. /\ RecordsNumber' /\ ResultsFit' /\ CallsFit'
    BY <2>1, <2>2 DEF RecordsNumber, ResultsFit, OneEach, CallsFit
  <2>6. manifest' # None
    BY <2>1 DEF None
  <2>7. QED
    BY <2>4, <2>5, <2>6 DEF FilesFit
<1>4. QED
  BY <1>1, <1>2, <1>3

\* The invocation is accepted: the process.
LEMMA InvokeProcess ==
    ASSUME RunIInv, NEW s \in Specs, Invoke(s)
    PROVE  ProcessFits'
<1>1. /\ runAt = "off" /\ exit # "done" /\ invocation < MaxInvocations /\ invocation' = invocation + 1
      /\ checkpoint' = checkpoint /\ checkpoints' = checkpoints /\ queue' = queue /\ inflight' = inflight
      /\ batch' = batch /\ pending' = pending
  BY DEF Invoke
<1>2. /\ checkpoint = 0 /\ checkpoints = 0 /\ pending = {} /\ epoch = 0 /\ phase = "evaluation"
      /\ queue = {} /\ inflight = {} /\ exit \in {"none", "refused", "failed", "crashed", "done"}
  BY <1>1 DEF RunIInv, ProcessKnows, SetFits
<1>3. invocation' \in 0..MaxInvocations /\ invocation' >= 1
  BY <1>1, InvocationsAssumption DEF RunIInv, ProcessKnows
<1>4. SetFits' /\ BatchTyped'
  <2>1. runAt' # "execute"
    BY <1>1 DEF Invoke
  <2>2. SetFits'
    BY <1>1, <1>2, <2>1 DEF SetFits
  <2>3. BatchTyped'
    BY <1>1 DEF RunIInv, BatchTyped
  <2>4. QED
    BY <2>2, <2>3
<1>5. CASE ~(ValidSpec(s) /\ Matches(s))
  <2>1. /\ runAt' = "off" /\ exit' = "refused" /\ phase' = "evaluation" /\ epoch' = 0
    BY <1>1, <1>2, <1>5 DEF Invoke
  <2>2. ProcessKnows'
    BY <1>1, <1>2, <1>3, <2>1 DEF ProcessKnows, Phase
  <2>3. BoundaryFits' /\ EpochFits' /\ PendingFits' /\ DoneFits'
    BY <1>1, <1>2, <2>1 DEF BoundaryFits, EpochFits, PendingFits, DoneFits
  <2>4. QED
    BY <1>4, <2>2, <2>3 DEF ProcessFits
<1>6. CASE ValidSpec(s) /\ Matches(s)
  <2>1. /\ runAt' = "plan" /\ exit' = "none" /\ spec' = s /\ run' = manifest'.run
        /\ phase' = IF s.sessions THEN "evaluation" ELSE "training"
        /\ epoch' = IF s.sessions THEN 0 ELSE 1
        /\ manifest' = IF manifest = None THEN [run |-> invocation + 1, spec |-> s] ELSE manifest
    BY <1>6 DEF Invoke
  <2>2. manifest' # None /\ manifest'.spec = s
    BY <1>6, <2>1 DEF Matches, None
  <2>3. ProcessKnows'
    BY <1>1, <1>2, <1>3, <2>1, <2>2 DEF ProcessKnows, Phase
  <2>4. Len(records') \in Nat /\ checkpoint' = 0 /\ checkpoints' = 0
    BY <1>1, <1>2 DEF Invoke, RunIInv, FilesFit, RecordsNumber
  <2>5. BoundaryFits' /\ DoneFits'
    BY <2>1, <2>4 DEF BoundaryFits, DoneFits
  <2>6. EpochFits' /\ PendingFits'
    <3>1. CASE s.sessions
      BY <1>1, <1>2, <2>1, <3>1 DEF EpochFits, PendingFits
    <3>2. CASE ~s.sessions
      <4>1. s.training /\ s.epochs \in Nat \ {0} /\ s.every \in Nat \ {0}
        BY <1>6, <3>2, SpecHas
      <4>2. phase' = "training" /\ epoch' = 1
        BY <2>1, <3>2
      <4>3. 0 * s.every = 0 /\ (0 + 1) * s.every = s.every
        BY <4>1
      <4>4. EpochFits'
        BY <2>1, <2>4, <4>1, <4>2, <4>3 DEF EpochFits
      <4>5. AllWell(results', EpochPlans(s, 1..(1 - 1), 0)) /\ Harvest(results', EpochPlans(s, 1..(1 - 1), 0)) = {}
        BY NoEpoch
      <4>6. Gathered(epoch - 1)'
        BY <1>1, <1>2, <2>1, <2>4, <4>2, <4>3, <4>5 DEF Gathered
      <4>7. QED
        BY <2>1, <4>2, <4>4, <4>6 DEF PendingFits
    <3>3. QED
      BY <3>1, <3>2
  <2>7. QED
    BY <1>4, <2>3, <2>5, <2>6 DEF ProcessFits
<1>7. QED
  BY <1>5, <1>6

\* The plans of the current set, played behind the current boundary.
LEMMA CurrentPlans ==
    ASSUME FilesFit, ProcessKnows, BoundaryFits, EpochFits, runAt \in {"plan", "execute"}
    PROVE  /\ PhaseIndex \in Nat
           /\ \A p \in ToSet(Plans) :
                 /\ p \in SessionPlan /\ p.phase = phase /\ p.index = PhaseIndex /\ p.checkpoint = checkpoint
                 /\ Due(spec, p) = checkpoint /\ checkpoint <= Len(records)
                 /\ p.phase = "training" => spec.training /\ p.index \in 1..spec.epochs
           /\ DOMAIN Plans \subseteq Nat
           /\ ToSet(Plans) = {Plans[k] : k \in DOMAIN Plans}
<1>1. /\ spec \in Specs /\ ValidSpec(spec) /\ phase \in Phase /\ epoch \in Nat
      /\ checkpoint \in Nat /\ checkpoints \in Nat /\ checkpoint = checkpoints /\ checkpoint <= Len(records)
  BY RunningKnows DEF ProcessKnows, BoundaryFits
<1>2. PhaseIndex \in Nat
  BY <1>1 DEF PhaseIndex, Phase
<1>3. ASSUME NEW p \in ToSet(Plans)
      PROVE  /\ p \in SessionPlan /\ p.phase = phase /\ p.index = PhaseIndex /\ p.checkpoint = checkpoint
             /\ Due(spec, p) = checkpoint
             /\ p.phase = "training" => spec.training /\ p.index \in 1..spec.epochs
  <2>1. p \in SessionPlan /\ p.phase = phase /\ p.index = PhaseIndex /\ p.checkpoint = checkpoint
    BY <1>1, <1>2, <1>3, PlanOf DEF Plans
  <2>2. CASE phase = "evaluation"
    BY <1>1, <2>1, <2>2 DEF Due, EpochFits
  <2>3. CASE phase = "validation"
    BY <1>1, <2>1, <2>3 DEF Due, PhaseIndex
  <2>4. CASE phase = "training"
    <3>1. /\ spec.training /\ epoch \in 1..spec.epochs /\ p.index = epoch
          /\ checkpoint * spec.every < epoch /\ epoch <= (checkpoint + 1) * spec.every
      BY <2>1, <2>4 DEF EpochFits, PhaseIndex
    <3>2. PICK v \in Nat \ {0} : v = spec.every
      BY <1>1, <3>1, SpecHas
    <3>3. checkpoint * v < epoch /\ epoch <= (checkpoint + 1) * v
      BY <3>1, <3>2
    <3>4. PICK a \in Int : a = epoch - 1
      BY <1>1
    <3>5. checkpoint * v \in Int /\ (checkpoint + 1) * v \in Int
      BY <1>1, OneTimeMore
    <3>6. checkpoint * v <= a /\ a < (checkpoint + 1) * v
      BY <1>1, <3>3, <3>4, <3>5
    <3>7. a \div v = checkpoint
      BY <1>1, <3>6, DivAt
    <3>8. Due(spec, p) = (epoch - 1) \div spec.every
      BY <2>1, <2>4, <3>1 DEF Due
    <3>9. QED
      BY <2>1, <3>1, <3>2, <3>4, <3>7, <3>8
  <2>5. QED
    BY <1>1, <2>1, <2>2, <2>3, <2>4 DEF Phase
<1>4. ToSet(Plans) = {Plans[k] : k \in DOMAIN Plans}
  BY DEF ToSet
<1>5. DOMAIN Plans \subseteq Nat
  BY DEF Plans, PlanSet
<1>6. QED
  BY <1>1, <1>2, <1>3, <1>4, <1>5

\* Steps that stay in the set.
LEMMA PlansFrame ==
    ASSUME spec' = spec, phase' = phase, epoch' = epoch, checkpoint' = checkpoint, checkpoints' = checkpoints
    PROVE  Plans' = Plans
BY DEF Plans, PhaseIndex

\* Steps that stay in the set leave the process where it is.
LEMMA StayInSet ==
    ASSUME RunIInv, runAt \in {"plan", "execute"}, runAt' = "execute",
           UNCHANGED <<exit, invocation, spec, run, phase, epoch, checkpoint, checkpoints>>,
           manifest' = manifest, records' = records
    PROVE  ProcessKnows' /\ BoundaryFits' /\ EpochFits' /\ DoneFits'
<1>1. ProcessKnows'
  BY DEF RunIInv, ProcessKnows
<1>2. BoundaryFits' /\ EpochFits'
  BY DEF RunIInv, BoundaryFits, EpochFits
<1>3. DoneFits'
  BY DEF RunIInv, ProcessKnows, DoneFits
<1>4. QED
  BY <1>1, <1>2, <1>3

\* The set is opened: the plans that have a result are skipped.
LEMMA OpenSetFits ==
    ASSUME RunIInv, OpenSet
    PROVE  RunIInv'
<1>1. FilesFit'
  BY FilesFrame DEF RunIInv, OpenSet
<1>2. CASE DuplicatePlan(Plans) \/ ForeignResult(Plans)
  <2>1. Stop("refused")
    BY <1>2 DEF OpenSet
  <2>2. QED
    BY <1>1, <2>1, StopFits DEF RunIInv, ProcessFits
<1>3. CASE ~(DuplicatePlan(Plans) \/ ForeignResult(Plans))
  <2>1. /\ runAt = "plan" /\ runAt' = "execute" /\ queue' = Unfinished(Plans) /\ batch' = SkippedBatch(Plans)
        /\ UNCHANGED <<exit, invocation, spec, run, phase, epoch, checkpoint, checkpoints, inflight, pending>>
        /\ UNCHANGED <<disk, outside>>
    BY <1>3 DEF OpenSet
  <2>2. manifest' = manifest /\ records' = records /\ results' = results
    BY <2>1 DEF disk
  <2>3. ProcessKnows' /\ BoundaryFits' /\ EpochFits' /\ DoneFits'
    BY <2>1, <2>2, StayInSet
  <2>4. PendingFits'
    BY <2>1, <2>2 DEF RunIInv, PendingFits, Gathered
  <2>5. Plans' = Plans
    BY <2>1, PlansFrame
  <2>6. \A p \in ToSet(Plans) : Ended(results, p) => Result(results, p) \in results
    BY ResultIs DEF RunIInv, FilesFit, ResultsFit
  <2>7. DOMAIN Plans \subseteq Nat /\ ToSet(Plans) = {Plans[k] : k \in DOMAIN Plans}
    BY <2>1, CurrentPlans DEF RunIInv
  <2> DEFINE done == {ResultOf(Plans[i]) : i \in {k \in DOMAIN Plans : Finalized(Plans[k])}}
  <2>8. done = {Result(results, p) : p \in {p \in ToSet(Plans) : Ended(results, p)}}
    BY <2>7 DEF ResultOf, Finalized, Result, Ended
  <2>9. batch' = [steps |-> UNION {r.steps : r \in done}, failed |-> \E r \in done : ~ r.ok]
    BY <2>1 DEF SkippedBatch
  <2>10. done \subseteq results
    BY <2>6, <2>8
  <2>11. BatchTyped'
    <3>1. \A r \in done : r.steps \subseteq TrajectoryStep
      BY <2>10 DEF RunIInv, FilesFit, ResultsFit, ResultFits, SessionResult
    <3>2. UNION {r.steps : r \in done} \subseteq TrajectoryStep
      BY <3>1
    <3> HIDE DEF done
    <3>3. batch' \in [steps : SUBSET TrajectoryStep, failed : BOOLEAN]
      BY <2>9, <3>2
    <3>4. QED
      BY <2>1, <3>3 DEF RunIInv, BatchTyped
  <2>12. batch.steps' = Harvest(results, {p \in ToSet(Plans) : Ended(results, p)})
    <3>1. {r.steps : r \in done} = {Result(results, p).steps : p \in {p \in ToSet(Plans) : Ended(results, p)}}
      BY <2>8
    <3> HIDE DEF done
    <3>2. QED
      BY <2>9, <3>1 DEF Harvest
  <2>13. ~batch.failed' => \A p \in ToSet(Plans) : Ended(results, p) => Result(results, p).ok
    <3>1. \A p \in ToSet(Plans) : Ended(results, p) => Result(results, p) \in done
      BY <2>8
    <3> HIDE DEF done
    <3>2. QED
      BY <2>9, <3>1
  <2> HIDE DEF done
  <2>14. inflight = {}
    BY <2>1 DEF RunIInv, SetFits
  <2>15. queue' = {k \in DOMAIN Plans : ~Ended(results, Plans[k])}
    BY <2>1 DEF Unfinished, Finalized, Ended
  <2>16. SetFits'
    BY <1>3, <2>1, <2>2, <2>5, <2>12, <2>13, <2>14, <2>15 DEF SetFits
  <2>17. QED
    BY <1>1, <2>3, <2>4, <2>11, <2>16 DEF RunIInv
<1>4. QED
  BY <1>2, <1>3

\* A session starts.
LEMMA StartSessionFits ==
    ASSUME RunIInv, StartSession
    PROVE  RunIInv'
<1>1. FilesFit'
  BY FilesFrame DEF RunIInv, StartSession
<1>2. /\ runAt = "execute" /\ runAt' = "execute"
      /\ UNCHANGED <<exit, invocation, spec, run, phase, epoch, checkpoint, checkpoints, batch, pending>>
      /\ UNCHANGED <<disk, outside>>
  BY DEF StartSession
<1>3. manifest' = manifest /\ records' = records /\ results' = results
  BY <1>2 DEF disk
<1>4. ProcessKnows' /\ BoundaryFits' /\ EpochFits' /\ DoneFits'
  BY <1>2, <1>3, StayInSet
<1>5. PendingFits' /\ BatchTyped'
  <2>1. PendingFits'
    BY <1>2, <1>3 DEF RunIInv, PendingFits, Gathered
  <2>2. QED
    BY <1>2, <2>1 DEF RunIInv, BatchTyped
<1>6. Plans' = Plans
  BY <1>2, PlansFrame
<1>7. PICK k \in queue : inflight' = inflight \cup {Plans[k]} /\ queue' = queue \ {k}
  BY DEF StartSession
<1>8. SetFits
  BY DEF RunIInv
<1>9. k \in DOMAIN Plans /\ Plans[k] \in ToSet(Plans) /\ ~Ended(results, Plans[k]) /\ queue \subseteq DOMAIN Plans
  <2>1. k \in DOMAIN Plans /\ ~Ended(results, Plans[k]) /\ queue \subseteq DOMAIN Plans
    BY <1>2, <1>7, <1>8 DEF SetFits
  <2>2. QED
    BY <2>1 DEF ToSet
<1>10. \A j \in queue' : Plans[j] # Plans[k]
  <2>1. ~DuplicatePlan(Plans)
    BY <1>2, <1>8 DEF SetFits
  <2>2. QED
    BY <1>7, <1>9, <2>1 DEF DuplicatePlan
<1>11. SetFits'
  BY <1>2, <1>3, <1>6, <1>7, <1>8, <1>9, <1>10 DEF SetFits
<1>12. QED
  BY <1>1, <1>4, <1>5, <1>11 DEF RunIInv

\* What a session leaves when it ends.
Outcome(plan, ok) == [plan |-> plan, run |-> run, ok |-> ok, steps |-> Trajectory(plan)]

\* A plan in flight has no result yet, so its result replaces none.
LEMMA ResultIsNew ==
    ASSUME RunIInv, NEW plan \in inflight, NEW ok \in BOOLEAN, FinishSession(plan, ok)
    PROVE  /\ plan \in ToSet(Plans) /\ ~Ended(results, plan)
           /\ results' = results \cup {Outcome(plan, ok)} /\ OneEach(results')
<1>1. runAt = "execute" /\ SetFits /\ OneEach(results)
  BY DEF RunIInv, FilesFit, ResultsFit, FinishSession
<1>2. plan \in ToSet(Plans) /\ ~Ended(results, plan)
  BY <1>1 DEF SetFits
<1>3. results' = {r \in results : r.plan # plan} \cup {Outcome(plan, ok)}
  BY DEF FinishSession, Outcome
<1>4. {r \in results : r.plan # plan} = results
  BY <1>2 DEF Ended
<1>5. Outcome(plan, ok).plan = plan
  BY DEF Outcome
<1>6. OneEach(results')
  BY <1>1, <1>2, <1>3, <1>4, <1>5 DEF OneEach, Ended
<1>7. QED
  BY <1>2, <1>3, <1>4, <1>6

\* The files after the end of a session.
LEMMA FinishSessionFiles ==
    ASSUME RunIInv, NEW plan \in inflight, NEW ok \in BOOLEAN, FinishSession(plan, ok)
    PROVE  FilesFit' /\ Trajectory(plan) \subseteq TrajectoryStep
<1>1. runAt = "execute" /\ manifest' = manifest /\ records' = records /\ learner' = learner /\ calls' = calls
  BY DEF FinishSession, outside
<1>2. /\ plan \in ToSet(Plans) /\ results' = results \cup {Outcome(plan, ok)} /\ OneEach(results')
  BY ResultIsNew
<1>3. /\ manifest \in RunManifest /\ spec \in Specs /\ ValidSpec(spec) /\ spec = manifest.spec
      /\ run = manifest.run /\ run \in 1..MaxInvocations /\ invocation \in 1..MaxInvocations
  BY <1>1, RunningKnows DEF RunIInv
<1>4. /\ plan \in SessionPlan /\ plan.phase = phase /\ plan.index = PhaseIndex /\ plan.checkpoint = checkpoint
      /\ Due(spec, plan) = checkpoint /\ checkpoint <= Len(records)
      /\ plan.phase = "training" => spec.training /\ plan.index \in 1..spec.epochs
  BY <1>1, <1>2, CurrentPlans DEF RunIInv
<1>5. Trajectory(plan) \subseteq TrajectoryStep
  BY <1>3, <1>4 DEF Trajectory, TrajectoryStep
<1>6. PICK r : r = Outcome(plan, ok)
  OBVIOUS
<1>7. /\ r \in SessionResult /\ r.run = run /\ r.plan = plan
  BY <1>6, <1>3, <1>4, <1>5 DEF Outcome, SessionResult
<1>8. r.plan \in ToSet(PlanSet(spec, r.plan.phase, r.plan.index, r.plan.checkpoint))
  <2>1. PlanSet(spec, r.plan.phase, r.plan.index, r.plan.checkpoint) = Plans
    BY <1>4, <1>7 DEF Plans
  <2>2. QED
    BY <1>2, <1>7, <2>1
<1>9. ResultFits(r)'
  BY <1>1, <1>3, <1>4, <1>7, <1>8 DEF ResultFits
<1>10. \A q \in results : ResultFits(q)'
  BY <1>1 DEF RunIInv, FilesFit, ResultsFit, ResultFits
<1>11. ResultsFit'
  BY <1>6, <1>2, <1>9, <1>10 DEF ResultsFit
<1>12. RecordsNumber'
  BY <1>1 DEF RunIInv, FilesFit, RecordsNumber
<1>13. CallsFit'
  <2>1. ASSUME NEW i \in 1..Len(calls) PROVE CallFits(calls[i])'
    <3>1. CallFits(calls[i])
      BY DEF RunIInv, FilesFit, CallsFit
    <3>2. Window(calls[i].update)' = Window(calls[i].update)
      BY <1>1 DEF Window
    <3>3. PICK P : P = EpochPlans(manifest.spec, Window(calls[i].update), calls[i].base)
      OBVIOUS
    <3>4. AllWell(results, P) /\ calls[i].steps = Harvest(results, P)
      BY <3>1, <3>3 DEF CallFits
    <3>5. AllWell(results', P) /\ Harvest(results', P) = Harvest(results, P)
      BY <1>2, <3>4, HarvestGrows
    <3>6. QED
      BY <1>1, <3>1, <3>2, <3>3, <3>4, <3>5 DEF CallFits
  <2>2. QED
    BY <1>1, <2>1 DEF RunIInv, FilesFit, CallsFit
<1>14. FilesFit'
  <2>1. manifest # None
    BY <1>1 DEF RunIInv, ProcessKnows
  <2>2. QED
    BY <1>1, <1>3, <1>11, <1>12, <1>13, <2>1 DEF FilesFit
<1>15. QED
  BY <1>5, <1>14

\* The process after the end of a session that does not stop it.
LEMMA FinishSessionGoesOn ==
    ASSUME RunIInv, NEW plan \in inflight, NEW ok \in BOOLEAN, FinishSession(plan, ok),
           ok \/ ~spec.failFast
    PROVE  ProcessFits'
<1>1. /\ runAt = "execute" /\ runAt' = "execute"
      /\ inflight' = inflight \ {plan}
      /\ batch' = [steps |-> batch.steps \cup Trajectory(plan), failed |-> batch.failed \/ ~ ok]
      /\ UNCHANGED <<exit, invocation, spec, run, phase, epoch, checkpoint, checkpoints, queue, pending>>
      /\ manifest' = manifest /\ records' = records
  BY DEF FinishSession
<1>2. ProcessKnows' /\ BoundaryFits' /\ EpochFits' /\ DoneFits'
  BY <1>1, StayInSet
<1>3. /\ plan \in ToSet(Plans) /\ ~Ended(results, plan)
      /\ results' = results \cup {Outcome(plan, ok)} /\ OneEach(results')
  BY ResultIsNew
<1>4. Plans' = Plans
  BY <1>1, PlansFrame
<1>5. BatchTyped'
  <2>1. Trajectory(plan) \subseteq TrajectoryStep
    BY FinishSessionFiles
  <2>2. QED
    BY <1>1, <2>1 DEF RunIInv, BatchTyped
<1>6. PendingFits'
  <2>1. CASE phase = "training"
    <3>1. PICK P : P = EpochPlans(spec, (checkpoint * spec.every + 1)..(epoch - 1), checkpoint)
      OBVIOUS
    <3>2. AllWell(results, P) /\ pending = Harvest(results, P)
      BY <1>1, <2>1, <3>1 DEF RunIInv, PendingFits, Gathered
    <3>3. AllWell(results', P) /\ Harvest(results', P) = Harvest(results, P)
      BY <1>3, <3>2, HarvestGrows
    <3>4. QED
      BY <1>1, <2>1, <3>1, <3>2, <3>3 DEF PendingFits, Gathered
  <2>2. CASE phase # "training"
    BY <1>1, <2>2 DEF RunIInv, PendingFits
  <2>3. QED
    BY <2>1, <2>2
<1>7. SetFits'
  <2>1. SetFits
    BY DEF RunIInv
  <2>2. /\ Outcome(plan, ok) \in results' /\ Outcome(plan, ok).plan = plan
        /\ Outcome(plan, ok).steps = Trajectory(plan) /\ Outcome(plan, ok).ok = ok
    BY <1>3 DEF Outcome
  <2>3. Ended(results', plan) /\ Result(results', plan) = Outcome(plan, ok)
    BY <1>3, <2>2, ResultIs
  <2>4. \A p : Ended(results, p) => Ended(results', p) /\ Result(results', p) = Result(results, p)
    BY <1>3, ResultsGrow
  <2>5. \A p : Ended(results', p) <=> Ended(results, p) \/ p = plan
    BY <1>3, <2>2 DEF Ended
  <2>6. {p \in ToSet(Plans) : Ended(results', p)} = {p \in ToSet(Plans) : Ended(results, p)} \cup {plan}
    BY <1>3, <2>5
  <2>7. Harvest(results', {p \in ToSet(Plans) : Ended(results', p)})
           = Harvest(results, {p \in ToSet(Plans) : Ended(results, p)}) \cup Trajectory(plan)
    <3>1. PICK P : P = {p \in ToSet(Plans) : Ended(results, p)}
      OBVIOUS
    <3>2. \A p \in P : Result(results', p).steps = Result(results, p).steps
      BY <2>4, <3>1
    <3>3. Result(results', plan).steps = Trajectory(plan)
      BY <2>2, <2>3
    <3>4. Harvest(results', P \cup {plan}) = Harvest(results, P) \cup Trajectory(plan)
      BY <3>2, <3>3 DEF Harvest
    <3>5. QED
      BY <2>6, <3>1, <3>4
  <2>8. batch'.steps = Harvest(results', {p \in ToSet(Plans) : Ended(results', p)})
    <3>1. batch'.steps = batch.steps \cup Trajectory(plan)
      BY <1>1
    <3>2. batch.steps = Harvest(results, {p \in ToSet(Plans) : Ended(results, p)})
      BY <1>1, <2>1 DEF SetFits
    <3>3. QED
      BY <2>7, <3>1, <3>2
  <2>9. ~batch'.failed => \A p \in ToSet(Plans) : Ended(results', p) => Result(results', p).ok
    <3>1. ~batch'.failed => ~batch.failed /\ ok
      BY <1>1
    <3>2. ~batch.failed => \A p \in ToSet(Plans) : Ended(results, p) => Result(results, p).ok
      BY <1>1, <2>1 DEF SetFits
    <3>3. QED
      BY <2>2, <2>3, <2>4, <2>5, <3>1, <3>2
  <2>10. /\ ~DuplicatePlan(Plans) /\ queue' \subseteq DOMAIN Plans /\ inflight' \subseteq ToSet(Plans)
         /\ \A k \in queue' : Plans[k] \notin inflight' /\ ~Ended(results', Plans[k])
         /\ \A p \in inflight' : ~Ended(results', p)
         /\ \A k \in DOMAIN Plans : k \in queue' \/ Plans[k] \in inflight' \/ Ended(results', Plans[k])
    BY <1>1, <2>1, <2>5 DEF SetFits
  <2>11. QED
    BY <1>1, <1>4, <2>8, <2>9, <2>10 DEF SetFits
<1>8. QED
  BY <1>2, <1>5, <1>6, <1>7 DEF ProcessFits

\* A session ends.
LEMMA FinishSessionFits ==
    ASSUME RunIInv, NEW plan \in inflight, NEW ok \in BOOLEAN, FinishSession(plan, ok)
    PROVE  RunIInv'
<1>1. FilesFit'
  BY FinishSessionFiles
<1>2. CASE ~ok /\ spec.failFast
  <2>1. Stop("failed")
    BY <1>2 DEF FinishSession
  <2>2. ProcessFits'
    BY <2>1, StopFits DEF RunIInv
  <2>3. QED
    BY <1>1, <2>2 DEF RunIInv, ProcessFits
<1>3. CASE ok \/ ~spec.failFast
  <2>1. ProcessFits'
    BY <1>3, FinishSessionGoesOn
  <2>2. QED
    BY <1>1, <2>1 DEF RunIInv, ProcessFits
<1>4. QED
  BY <1>2, <1>3

\* A process that goes on keeps what it knows.
LEMMA GoesOn ==
    ASSUME ProcessKnows, runAt # "off", UNCHANGED <<manifest, exit, invocation, spec, run>>,
           runAt' \in {"plan", "execute", "boundary", "train", "record", "finish"},
           phase' \in Phase, epoch' \in Nat, checkpoint' \in Nat, checkpoints' \in Nat
    PROVE  ProcessKnows' /\ DoneFits'
BY DEF ProcessKnows, DoneFits

\* The steps of the epoch that ends join those since the boundary.
LEMMA EpochGathered ==
    ASSUME FilesFit, ProcessKnows, BoundaryFits, EpochFits, SetFits, PendingFits,
           runAt = "execute", queue = {}, inflight = {}, phase = "training", ~batch.failed,
           pending' = pending \cup batch.steps,
           NEW E, E = EpochPlans(spec, (checkpoint * spec.every + 1)..epoch, checkpoint)
    PROVE  AllWell(results, E) /\ pending' = Harvest(results, E)
<1>1. /\ spec \in Specs /\ ValidSpec(spec) /\ spec.training /\ epoch \in 1..spec.epochs
      /\ checkpoint * spec.every < epoch /\ checkpoint \in Nat
  BY RunningKnows DEF ProcessKnows, EpochFits
<1>2. spec.every \in Nat \ {0} /\ spec.epochs \in Nat
  <2>1. spec.every \in Nat /\ spec.epochs \in Nat /\ (spec.training => spec.every > 0)
    BY <1>1, SpecHas
  <2>2. QED
    BY <1>1, <2>1
<1>3. PICK lo \in Int : lo = checkpoint * spec.every + 1
  BY <1>1, <1>2, OneTimeMore
<1>4. lo <= epoch /\ epoch \in Int
  <2>1. PICK m \in Int : m = checkpoint * spec.every
    BY <1>1, <1>2, OneTimeMore
  <2>2. QED
    BY <1>1, <1>2, <1>3, <2>1
<1>5. PICK P : P = EpochPlans(spec, lo..(epoch - 1), checkpoint)
  OBVIOUS
<1>6. AllWell(results, P) /\ pending = Harvest(results, P)
  BY <1>3, <1>5 DEF PendingFits, Gathered
<1>7. Plans = PlanSet(spec, "training", epoch, checkpoint)
  BY DEF Plans, PhaseIndex
<1>8. EpochPlans(spec, lo..epoch, checkpoint) = P \cup ToSet(Plans)
  <2>1. PICK e \in Int : e = epoch
    BY <1>4
  <2>2. lo <= e
    BY <1>4, <2>1
  <2>3. EpochPlans(spec, lo..e, checkpoint)
           = EpochPlans(spec, lo..(e - 1), checkpoint) \cup ToSet(PlanSet(spec, "training", e, checkpoint))
    BY <2>2, OneMoreEpoch
  <2>4. QED
    BY <1>5, <1>7, <2>1, <2>3
<1>9. \A p \in ToSet(Plans) : Ended(results, p)
  <2>1. ToSet(Plans) = {Plans[k] : k \in DOMAIN Plans}
    BY CurrentPlans
  <2>2. \A k \in DOMAIN Plans : Ended(results, Plans[k])
    BY DEF SetFits
  <2>3. QED
    BY <2>1, <2>2
<1>10. AllWell(results, P \cup ToSet(Plans))
  BY <1>6, <1>9 DEF AllWell, SetFits
<1>11. batch.steps = Harvest(results, ToSet(Plans))
  <2>1. {p \in ToSet(Plans) : Ended(results, p)} = ToSet(Plans)
    BY <1>9
  <2>2. QED
    BY <2>1 DEF SetFits
<1>12. Harvest(results, P \cup ToSet(Plans)) = pending \cup batch.steps
  BY <1>6, <1>11 DEF Harvest
<1>13. QED
  BY <1>3, <1>8, <1>10, <1>12

\* Where a set ends and the next step of the loop is the end of an epoch.
LEMMA EpochEndsAt ==
    ASSUME RunIInv, runAt = "execute", phase = "training"
    PROVE  /\ spec.training /\ spec.every \in Nat \ {0} /\ spec.epochs \in Nat \ {0} /\ epoch \in 1..spec.epochs
           /\ checkpoint \in Nat /\ checkpoints = checkpoint /\ checkpoint <= Len(records)
           /\ epoch % spec.every = 0 => epoch = (checkpoint + 1) * spec.every
           /\ epoch % spec.every # 0 =>
                 /\ epoch < spec.epochs
                 /\ checkpoint * spec.every < epoch + 1 /\ epoch + 1 <= (checkpoint + 1) * spec.every
<1>1. /\ spec \in Specs /\ ValidSpec(spec) /\ spec.training /\ epoch \in 1..spec.epochs /\ checkpoint \in Nat
      /\ checkpoint * spec.every < epoch /\ epoch <= (checkpoint + 1) * spec.every
      /\ checkpoints = checkpoint /\ checkpoint <= Len(records)
  BY RunningKnows DEF RunIInv, ProcessKnows, BoundaryFits, EpochFits
<1>2. /\ spec.every \in Nat /\ spec.epochs \in Nat
      /\ spec.training => spec.epochs > 0 /\ spec.every > 0 /\ spec.epochs % spec.every = 0
  BY <1>1, SpecHas
<1>3. PICK v \in Nat \ {0} : v = spec.every
  BY <1>1, <1>2
<1>4. PICK c \in Nat : c = checkpoint
  BY <1>1
<1>5. PICK e \in Nat : e = epoch
  BY <1>1, <1>2
<1>6. PICK hi \in Int : hi = (c + 1) * v
  BY OneTimeMore
<1>7. c * v < e /\ e <= (c + 1) * v /\ c * v \in Int
  BY <1>1, <1>3, <1>4, <1>5, OneTimeMore
<1>8. ASSUME e % v = 0 PROVE e = (c + 1) * v
  BY <1>7, <1>8, ModEnd
<1>9. ASSUME e % v # 0 PROVE e < spec.epochs /\ e + 1 <= (c + 1) * v
  <2>1. e # spec.epochs
    BY <1>1, <1>2, <1>3, <1>9
  <2>2. e # hi
    <3>1. (c + 1) \in Nat
      OBVIOUS
    <3>2. ((c + 1) * v) % v = 0
      BY <3>1, ModNone
    <3>3. QED
      BY <1>6, <1>9, <3>2
  <2>3. e + 1 <= hi
    BY <1>6, <1>7, <2>2
  <2>4. e < spec.epochs
    BY <1>1, <1>2, <1>5, <2>1
  <2>5. QED
    BY <1>6, <2>3, <2>4
<1>10. c * v < e + 1
  BY <1>7
<1>11. QED
  BY <1>1, <1>2, <1>3, <1>4, <1>5, <1>8, <1>9, <1>10

\* The set has ended.
LEMMA EndSetFits ==
    ASSUME RunIInv, EndSet
    PROVE  RunIInv'
<1>1. FilesFit'
  BY FilesFrame DEF RunIInv, EndSet
<1>2. /\ runAt = "execute" /\ queue = {} /\ inflight = {} /\ batch' = EmptyBatch
      /\ UNCHANGED <<disk, outside, exit, invocation, spec, run, checkpoint, checkpoints, queue, inflight>>
  BY DEF EndSet
<1>3. manifest' = manifest /\ records' = records /\ results' = results
  BY <1>2 DEF disk
<1>4. /\ spec \in Specs /\ ValidSpec(spec) /\ spec = manifest.spec /\ exit = "none"
  BY <1>2, RunningKnows DEF RunIInv
<1>5. /\ checkpoint \in Nat /\ checkpoints = checkpoint /\ checkpoint <= Len(records)
      /\ phase \in Phase /\ epoch \in Nat
  BY <1>2 DEF RunIInv, ProcessKnows, BoundaryFits
<1>6. ASSUME runAt' \in {"plan", "boundary", "finish"}, phase' \in Phase, epoch' \in Nat,
             EpochFits', PendingFits', pending' \subseteq TrajectoryStep
      PROVE  RunIInv'
  <2>1. ProcessKnows' /\ DoneFits'
    BY <1>2, <1>3, <1>5, <1>6, GoesOn DEF RunIInv
  <2>2. BoundaryFits'
    BY <1>2, <1>3, <1>5, <1>6 DEF BoundaryFits
  <2>3. SetFits'
    BY <1>2, <1>6 DEF SetFits
  <2>4. BatchTyped'
    BY <1>2, <1>6 DEF BatchTyped, EmptyBatch
  <2>5. QED
    BY <1>1, <1>6, <2>1, <2>2, <2>3, <2>4 DEF RunIInv
<1>7. CASE phase = "evaluation" /\ ~spec.training
  <2>1. runAt' = "finish" /\ phase' = phase /\ epoch' = epoch /\ pending' = pending
    BY <1>7 DEF EndSet
  <2>2. pending = {} /\ epoch = 0 /\ checkpoints = 0
    BY <1>7 DEF RunIInv, PendingFits, EpochFits
  <2>3. EpochFits' /\ PendingFits'
    BY <1>2, <1>7, <2>1, <2>2 DEF EpochFits, PendingFits
  <2>4. QED
    BY <1>5, <1>6, <2>1, <2>2, <2>3
<1>8. CASE phase = "evaluation" /\ spec.training
  <2>1. NextEpoch /\ pending' = pending
    BY <1>8 DEF EndSet
  <2>2. pending = {} /\ epoch = 0 /\ checkpoints = 0
    BY <1>8 DEF RunIInv, PendingFits, EpochFits
  <2>3. /\ spec.epochs \in Nat /\ spec.every \in Nat
    BY <1>4, SpecHas
  <2>4. epoch \in 0..spec.epochs /\ epoch = checkpoint' * spec.every
    BY <1>2, <1>5, <2>2, <2>3
  <2>5. runAt' \in {"plan", "finish"} /\ phase' \in Phase /\ epoch' \in Nat /\ EpochFits' /\ PendingFits'
    BY <1>2, <1>4, <1>5, <1>8, <2>1, <2>2, <2>4, EpochTurns
  <2>6. QED
    BY <1>6, <2>1, <2>2, <2>5
<1>9. CASE phase = "training"
  <2>1. ~batch.failed /\ pending' = pending \cup batch.steps
    BY <1>9 DEF EndSet
  <2>2. pending' \subseteq TrajectoryStep
    BY <2>1 DEF RunIInv, BatchTyped
  <2>3. PICK E : E = EpochPlans(spec, (checkpoint * spec.every + 1)..epoch, checkpoint)
    OBVIOUS
  <2>4. AllWell(results, E) /\ pending' = Harvest(results, E)
    BY <1>2, <1>9, <2>1, <2>3, EpochGathered DEF RunIInv
  <2>5. /\ spec.training /\ spec.every \in Nat \ {0} /\ spec.epochs \in Nat \ {0} /\ epoch \in 1..spec.epochs
        /\ epoch % spec.every = 0 => epoch = (checkpoint + 1) * spec.every
        /\ epoch % spec.every # 0 =>
              /\ epoch < spec.epochs
              /\ checkpoint * spec.every < epoch + 1 /\ epoch + 1 <= (checkpoint + 1) * spec.every
    BY <1>2, <1>9, EpochEndsAt
  <2>6. CASE epoch % spec.every = 0
    <3>1. runAt' = "boundary" /\ phase' = phase /\ epoch' = epoch
      BY <1>9, <2>6 DEF EndSet
    <3>2. EpochFits'
      BY <1>2, <1>9, <2>5, <2>6, <3>1 DEF EpochFits
    <3>3. Gathered(epoch)'
      BY <1>2, <1>3, <2>3, <2>4, <3>1 DEF Gathered
    <3>4. PendingFits'
      BY <3>1, <3>3 DEF PendingFits
    <3>5. QED
      BY <1>5, <1>6, <2>2, <3>1, <3>2, <3>4
  <2>7. CASE epoch % spec.every # 0
    <3>1. NextEpoch
      BY <1>9, <2>7 DEF EndSet
    <3>2. runAt' = "plan" /\ phase' = "training" /\ epoch' = epoch + 1
      BY <2>5, <2>7, <3>1 DEF NextEpoch
    <3>3. epoch' \in 1..spec.epochs /\ epoch' \in Nat /\ epoch' - 1 = epoch
      BY <2>5, <2>7, <3>2
    <3>4. checkpoint * spec.every < epoch' /\ epoch' <= (checkpoint + 1) * spec.every
      BY <2>5, <2>7, <3>2
    <3>5. EpochFits'
      BY <1>2, <2>5, <3>2, <3>3, <3>4 DEF EpochFits
    <3>6. Gathered(epoch - 1)'
      BY <1>2, <1>3, <2>3, <2>4, <3>3 DEF Gathered
    <3>7. PendingFits'
      BY <3>2, <3>6 DEF PendingFits
    <3>8. QED
      BY <1>6, <2>2, <3>2, <3>3, <3>5, <3>7 DEF Phase
  <2>8. QED
    BY <2>6, <2>7
<1>10. CASE phase = "validation"
  <2>1. NextEpoch /\ pending' = pending
    BY <1>10 DEF EndSet
  <2>2. pending = {} /\ spec.training /\ epoch \in 1..spec.epochs /\ epoch = checkpoint * spec.every
    BY <1>2, <1>10 DEF RunIInv, PendingFits, EpochFits
  <2>3. spec.epochs \in Nat
    BY <1>4, SpecHas
  <2>4. epoch \in 0..spec.epochs
    BY <2>2, <2>3
  <2>5. runAt' \in {"plan", "finish"} /\ phase' \in Phase /\ epoch' \in Nat /\ EpochFits' /\ PendingFits'
    BY <1>2, <1>4, <1>5, <1>10, <2>1, <2>2, <2>4, EpochTurns
  <2>6. QED
    BY <1>6, <2>1, <2>2, <2>5
<1>11. QED
  BY <1>5, <1>7, <1>8, <1>9, <1>10 DEF Phase

\* The boundary: epochs since the last one, and the records there are.
LEMMA AtBoundary ==
    ASSUME RunIInv, runAt \in {"boundary", "train", "record"}
    PROVE  /\ spec \in Specs /\ ValidSpec(spec) /\ spec = manifest.spec /\ run = manifest.run
           /\ manifest # None /\ exit = "none" /\ run \in 1..MaxInvocations
           /\ spec.training /\ phase = "training" /\ epoch \in 1..spec.epochs /\ epoch \in Nat
           /\ epoch = (checkpoint + 1) * spec.every
           /\ checkpoint \in Nat /\ checkpoints \in Nat /\ Len(records) \in Nat
           /\ queue = {} /\ inflight = {}
<1>1. /\ spec \in Specs /\ ValidSpec(spec) /\ spec = manifest.spec /\ run = manifest.run /\ manifest # None
      /\ exit = "none" /\ run \in 1..MaxInvocations
  BY RunningKnows DEF RunIInv, ProcessKnows
<1>2. phase = "training" /\ epoch = (checkpoint + 1) * spec.every
  BY DEF RunIInv, EpochFits
<1>3. spec.training /\ epoch \in 1..spec.epochs
  BY <1>2 DEF RunIInv, EpochFits
<1>4. queue = {} /\ inflight = {}
  BY DEF RunIInv, SetFits
<1>5. checkpoint \in Nat /\ checkpoints \in Nat /\ epoch \in Nat /\ Len(records) \in Nat
  BY DEF RunIInv, ProcessKnows, FilesFit, RecordsNumber
<1>6. QED
  BY <1>1, <1>2, <1>3, <1>4, <1>5

\* A boundary that is passed: what is left to say of the process.
LEMMA BoundaryPassed ==
    ASSUME RunIInv, runAt \in {"boundary", "record"},
           UNCHANGED <<manifest, exit, invocation, spec, run, queue, inflight, batch>>,
           checkpoint' = checkpoint + 1, checkpoints' = checkpoint', pending' = {},
           checkpoint' <= Len(records'), NEW number, AfterBoundary(number)
    PROVE  ProcessFits'
<1>1. /\ spec \in Specs /\ ValidSpec(spec) /\ spec.training /\ phase = "training" /\ epoch \in 1..spec.epochs
      /\ epoch = (checkpoint + 1) * spec.every /\ checkpoint \in Nat /\ queue = {} /\ inflight = {}
  BY AtBoundary
<1>2. checkpoint' \in Nat /\ epoch = checkpoint' * spec.every
  BY <1>1
<1>3. runAt' \in {"plan", "finish"} /\ phase' \in Phase /\ epoch' \in Nat /\ EpochFits' /\ PendingFits'
  BY <1>1, <1>2, BoundaryTurns
<1>4. ProcessKnows' /\ DoneFits'
  BY <1>2, <1>3, GoesOn DEF RunIInv
<1>5. BoundaryFits' /\ SetFits'
  BY <1>1, <1>3 DEF BoundaryFits, SetFits
<1>6. BatchTyped'
  BY DEF RunIInv, BatchTyped
<1>7. QED
  BY <1>3, <1>4, <1>5, <1>6 DEF ProcessFits

\* The record of the boundary is there: its checkpoint is the next one.
LEMMA LoadRecordFits ==
    ASSUME RunIInv, LoadRecord
    PROVE  RunIInv'
<1>1. FilesFit'
  BY FilesFrame DEF RunIInv, LoadRecord
<1>2. runAt = "boundary" /\ checkpoints + 1 <= Len(records) /\ UNCHANGED <<disk, outside>>
  BY DEF LoadRecord
<1>3. checkpoint = checkpoints /\ checkpoint \in Nat /\ Len(records) \in Nat /\ run = manifest.run
  BY <1>2, AtBoundary DEF RunIInv, BoundaryFits
<1>4. checkpoints + 1 \in 1..Len(records)
  BY <1>2, <1>3
<1>5. /\ records[checkpoints + 1].run = run /\ records[checkpoints + 1].checkpoint = checkpoint + 1
  <2>1. PICK n \in 1..Len(records) : n = checkpoints + 1
    BY <1>4
  <2>2. records[n] = [run |-> manifest.run, base |-> n - 1, checkpoint |-> n]
    BY DEF RunIInv, FilesFit, RecordsNumber
  <2>3. records[n].run = run /\ records[n].checkpoint = n
    BY <1>3, <2>2
  <2>4. QED
    BY <1>3, <2>1, <2>3
<1>6. /\ checkpoints' = checkpoints + 1 /\ checkpoint' = checkpoint + 1 /\ pending' = {}
      /\ AfterBoundary(checkpoints + 1) /\ UNCHANGED <<exit, invocation, spec, run, queue, inflight, batch>>
  BY <1>5 DEF LoadRecord
<1>7. manifest' = manifest /\ records' = records
  BY <1>2 DEF disk
<1>8. checkpoints' = checkpoint' /\ checkpoint' <= Len(records')
  BY <1>2, <1>3, <1>6, <1>7
<1>9. ProcessFits'
  BY <1>2, <1>6, <1>7, <1>8, BoundaryPassed
<1>10. QED
  BY <1>1, <1>9 DEF RunIInv, ProcessFits

\* There is no record yet: the learner is asked.
LEMMA NeedUpdateFits ==
    ASSUME RunIInv, NeedUpdate
    PROVE  RunIInv'
<1>1. FilesFit'
  BY FilesFrame DEF RunIInv, NeedUpdate
<1>2. /\ runAt = "boundary" /\ runAt' = "train" /\ checkpoints + 1 > Len(records)
      /\ checkpoints' = checkpoints + 1
      /\ UNCHANGED <<disk, outside, exit, invocation, spec, run, phase, epoch,
                     checkpoint, queue, inflight, batch, pending>>
  BY DEF NeedUpdate
<1>3. manifest' = manifest /\ records' = records /\ results' = results
  BY <1>2 DEF disk
<1>4. /\ checkpoint = checkpoints /\ checkpoint \in Nat /\ Len(records) \in Nat /\ checkpoint <= Len(records)
      /\ phase = "training" /\ epoch \in Nat /\ spec.training /\ epoch \in 1..spec.epochs
      /\ epoch = (checkpoint + 1) * spec.every /\ queue = {} /\ inflight = {}
  BY <1>2, AtBoundary DEF RunIInv, BoundaryFits
<1>5. ProcessKnows' /\ DoneFits'
  BY <1>2, <1>3, <1>4, GoesOn DEF RunIInv, Phase
<1>6. BoundaryFits'
  BY <1>2, <1>3, <1>4 DEF BoundaryFits
<1>7. EpochFits'
  BY <1>2, <1>4 DEF EpochFits
<1>8. SetFits' /\ BatchTyped'
  BY <1>2, <1>4 DEF RunIInv, SetFits, BatchTyped
<1>9. PendingFits'
  BY <1>2, <1>3 DEF RunIInv, PendingFits, Gathered
<1>10. QED
  BY <1>1, <1>5, <1>6, <1>7, <1>8, <1>9 DEF RunIInv

\* The call asks for the epochs before the boundary, whatever became of it.
LEMMA TrainFiles ==
    ASSUME RunIInv, runAt = "train", calls' = Append(calls, Called),
           Apply(checkpoints) \/ learner' = learner, UNCHANGED disk
    PROVE  /\ FilesFit' /\ \E i \in 1..Len(calls') : calls'[i].update = checkpoints
           /\ Apply(checkpoints) => Len(learner') >= checkpoints
<1>1. manifest' = manifest /\ results' = results /\ records' = records
  BY DEF disk
<1>2. /\ spec = manifest.spec /\ manifest # None /\ checkpoint \in Nat /\ checkpoints \in Nat /\ Len(records) \in Nat
      /\ checkpoints = Len(records) + 1 /\ checkpoint = checkpoints - 1
      /\ epoch = (checkpoint + 1) * spec.every
  BY AtBoundary DEF RunIInv, BoundaryFits
<1>3. /\ learner \in Seq(Nat) /\ \A n \in 1..Len(learner) : learner[n] = n
      /\ Len(learner) \in Nat /\ Len(records) <= Len(learner) /\ Len(learner) <= Len(records) + 1
  BY DEF RunIInv, FilesFit, RecordsNumber
<1>4. ASSUME Apply(checkpoints)
      PROVE  /\ learner' \in Seq(Nat) /\ \A n \in 1..Len(learner') : learner'[n] = n
             /\ Len(learner') = Len(records) + 1
  <2>1. CASE checkpoints <= Len(learner)
    <3>1. learner' = learner
      BY <1>4, <2>1 DEF Apply
    <3>2. QED
      BY <1>2, <1>3, <2>1, <3>1
  <2>2. CASE ~(checkpoints <= Len(learner))
    <3>1. learner' = Append(learner, checkpoints) /\ checkpoints = Len(learner) + 1
      BY <1>2, <1>3, <1>4, <2>2 DEF Apply
    <3>2. QED
      BY <1>2, <1>3, <3>1
  <2>3. QED
    BY <2>1, <2>2
<1>5. RecordsNumber'
  <2>1. /\ records \in Seq(CheckpointRecord)
        /\ \A n \in 1..Len(records) : records[n] = [run |-> manifest.run, base |-> n - 1, checkpoint |-> n]
    BY DEF RunIInv, FilesFit, RecordsNumber
  <2>2. CASE Apply(checkpoints)
    BY <1>1, <1>2, <1>4, <2>1, <2>2 DEF RecordsNumber
  <2>3. CASE learner' = learner
    BY <1>1, <1>3, <2>1, <2>3 DEF RecordsNumber
  <2>4. QED
    BY <2>2, <2>3
<1>6. ResultsFit'
  BY <1>1 DEF RunIInv, FilesFit, ResultsFit, ResultFits
<1>7. PICK c : c = Called
  OBVIOUS
<1>8. CallFits(c)'
  <2>1. c.update = checkpoints /\ c.base = checkpoint /\ c.steps = pending /\ c \in TrainingBatch
    BY <1>2, <1>7 DEF Called, TrainingBatch, RunIInv, BatchTyped
  <2>2. Gathered(epoch)
    BY DEF RunIInv, PendingFits
  <2>3. Window(c.update) = (checkpoint * spec.every + 1)..epoch
    BY <1>2, <2>1 DEF Window
  <2>4. PICK P : P = EpochPlans(spec, (checkpoint * spec.every + 1)..epoch, checkpoint)
    OBVIOUS
  <2>5. AllWell(results, P) /\ pending = Harvest(results, P)
    BY <2>2, <2>4 DEF Gathered
  <2>6. EpochPlans(manifest.spec, Window(c.update), c.base) = P
    BY <1>2, <2>1, <2>3, <2>4
  <2>7. CallFits(c)
    BY <1>2, <2>1, <2>5, <2>6 DEF CallFits
  <2>8. Window(c.update)' = Window(c.update)
    BY <1>1 DEF Window
  <2>9. QED
    BY <1>1, <2>7, <2>8 DEF CallFits
<1>9. \A i \in 1..Len(calls) : CallFits(calls[i])'
  <2>1. ASSUME NEW i \in 1..Len(calls) PROVE CallFits(calls[i])'
    <3>1. CallFits(calls[i])
      BY DEF RunIInv, FilesFit, CallsFit
    <3>2. Window(calls[i].update)' = Window(calls[i].update)
      BY <1>1 DEF Window
    <3>3. QED
      BY <1>1, <3>1, <3>2 DEF CallFits
  <2>2. QED
    BY <2>1
<1>10. CallsFit' /\ \E i \in 1..Len(calls') : calls'[i].update = checkpoints
  <2>1. /\ calls \in Seq(TrainingBatch) /\ \A n \in 1..Len(records) : \E i \in 1..Len(calls) : calls[i].update = n
    BY DEF RunIInv, FilesFit, CallsFit
  <2>2. c \in TrainingBatch /\ c.update = checkpoints /\ calls' = Append(calls, c)
    BY <1>7, <1>8 DEF CallFits, Called
  <2>3. /\ calls' \in Seq(TrainingBatch) /\ Len(calls') = Len(calls) + 1 /\ Len(calls) \in Nat
        /\ \A i \in 1..Len(calls) : calls'[i] = calls[i]
        /\ calls'[Len(calls) + 1] = c
    BY <2>1, <2>2
  <2>4. \A i \in 1..Len(calls') : calls'[i] = c \/ \E j \in 1..Len(calls) : calls'[i] = calls[j]
    BY <2>3
  <2>5. \A i \in 1..Len(calls') : CallFits(calls[i])'
    <3>1. ASSUME NEW i \in 1..Len(calls') PROVE CallFits(calls[i])'
      <4>1. PICK d : d = calls'[i]
        OBVIOUS
      <4>2. CallFits(d)'
        <5>1. CASE d = c
          BY <1>8, <5>1
        <5>2. CASE d # c
          <6>1. PICK j \in 1..Len(calls) : d = calls[j]
            BY <2>4, <4>1, <5>2
          <6>2. QED
            BY <1>9, <6>1
        <5>3. QED
          BY <5>1, <5>2
      <4>3. QED
        BY <4>1, <4>2 DEF CallFits
    <3>2. QED
      BY <3>1
  <2>6. \A n \in 1..Len(records') : \E i \in 1..Len(calls') : calls'[i].update = n
    BY <1>1, <2>1, <2>3
  <2>7. \E i \in 1..Len(calls') : calls'[i].update = checkpoints
    BY <2>2, <2>3
  <2>8. QED
    BY <2>3, <2>5, <2>6, <2>7 DEF CallsFit
<1>11. FilesFit'
  BY <1>1, <1>2, <1>5, <1>6, <1>10 DEF RunIInv, FilesFit
<1>12. QED
  BY <1>2, <1>4, <1>10, <1>11

\* The learner has answered.
LEMMA TrainFits ==
    ASSUME RunIInv, Train
    PROVE  RunIInv'
<1>1. /\ runAt = "train" /\ calls' = Append(calls, Called) /\ Apply(checkpoints) /\ pending' = {}
      /\ runAt' = "record"
      /\ UNCHANGED <<disk, exit, invocation, spec, run, phase, epoch,
                     checkpoint, checkpoints, queue, inflight, batch>>
  BY DEF Train
<1>2. /\ FilesFit' /\ (\E i \in 1..Len(calls') : calls'[i].update = checkpoints) /\ Len(learner') >= checkpoints
  BY <1>1, TrainFiles
<1>3. manifest' = manifest /\ records' = records
  BY <1>1 DEF disk
<1>4. /\ phase = "training" /\ epoch \in Nat /\ spec.training /\ epoch \in 1..spec.epochs
      /\ epoch = (checkpoint + 1) * spec.every /\ queue = {} /\ inflight = {}
      /\ checkpoint \in Nat /\ checkpoints \in Nat
  BY <1>1, AtBoundary
<1>5. ProcessKnows' /\ DoneFits'
  BY <1>1, <1>3, <1>4, GoesOn DEF RunIInv, Phase
<1>6. BoundaryFits'
  BY <1>1, <1>2, <1>3 DEF RunIInv, BoundaryFits
<1>7. EpochFits'
  BY <1>1, <1>4 DEF EpochFits
<1>8. SetFits' /\ BatchTyped' /\ PendingFits'
  BY <1>1, <1>4 DEF RunIInv, SetFits, BatchTyped, PendingFits
<1>9. QED
  BY <1>2, <1>5, <1>6, <1>7, <1>8 DEF RunIInv

\* The call has failed, whatever the learner made of it.
LEMMA TrainFailsFits ==
    ASSUME RunIInv, NEW applied \in BOOLEAN, TrainFails(applied)
    PROVE  RunIInv'
<1>1. /\ runAt = "train" /\ calls' = Append(calls, Called) /\ (Apply(checkpoints) \/ learner' = learner)
      /\ UNCHANGED disk /\ Stop("failed")
  BY DEF TrainFails
<1>2. FilesFit'
  BY <1>1, TrainFiles
<1>3. ProcessFits'
  BY <1>1, StopFits DEF RunIInv
<1>4. QED
  BY <1>2, <1>3 DEF RunIInv, ProcessFits

\* The files with the record of one more boundary.
LEMMA WriteRecordFiles ==
    ASSUME RunIInv, WriteRecord
    PROVE  FilesFit' /\ Len(records') = Len(records) + 1 /\ learner[checkpoints] = checkpoint + 1
<1>1. /\ runAt = "record"
      /\ records' = Append(records, [run |-> run, base |-> checkpoint, checkpoint |-> learner[checkpoints]])
      /\ manifest' = manifest /\ results' = results /\ learner' = learner /\ calls' = calls
  BY DEF WriteRecord, outside
<1>2. /\ run = manifest.run /\ run \in 1..MaxInvocations /\ manifest # None
      /\ checkpoint \in Nat /\ checkpoints \in Nat /\ Len(records) \in Nat
      /\ checkpoints = Len(records) + 1 /\ checkpoint = checkpoints - 1 /\ Len(learner) >= checkpoints
  BY <1>1, AtBoundary DEF RunIInv, BoundaryFits
<1>3. /\ learner \in Seq(Nat) /\ (\A n \in 1..Len(learner) : learner[n] = n) /\ Len(learner) \in Nat
      /\ records \in Seq(CheckpointRecord) /\ Len(learner) <= Len(records) + 1
      /\ \A n \in 1..Len(records) : records[n] = [run |-> manifest.run, base |-> n - 1, checkpoint |-> n]
  BY DEF RunIInv, FilesFit, RecordsNumber
<1>4. checkpoints \in 1..Len(learner)
  BY <1>2, <1>3
<1>5. learner[checkpoints] = checkpoints
  BY <1>3, <1>4
<1>6. PICK n \in Nat : n = checkpoints
  BY <1>2
<1>7. PICK r : r = [run |-> manifest.run, base |-> n - 1, checkpoint |-> n]
  OBVIOUS
<1>8. records' = Append(records, r)
  BY <1>1, <1>2, <1>5, <1>6, <1>7
<1>9. r \in CheckpointRecord
  <2>1. n - 1 \in Nat /\ manifest.run \in 1..MaxInvocations
    BY <1>2, <1>6
  <2>2. QED
    BY <1>7, <2>1 DEF CheckpointRecord
<1>10. /\ records' \in Seq(CheckpointRecord) /\ Len(records') = Len(records) + 1
       /\ \A m \in 1..Len(records) : records'[m] = records[m]
       /\ records'[Len(records) + 1] = r
  BY <1>3, <1>8, <1>9
<1>11. RecordsNumber'
  <2>1. ASSUME NEW m \in 1..Len(records')
        PROVE  records'[m] = [run |-> manifest.run, base |-> m - 1, checkpoint |-> m]
    <3>1. CASE m \in 1..Len(records)
      BY <1>3, <1>10, <3>1
    <3>2. CASE m = n
      BY <1>2, <1>6, <1>7, <1>10, <3>2
    <3>3. QED
      BY <1>2, <1>6, <1>10, <3>1, <3>2
  <2>2. Len(records') <= Len(learner) /\ Len(learner) <= Len(records') + 1
    BY <1>2, <1>3, <1>10
  <2>3. QED
    BY <1>1, <1>3, <1>10, <2>1, <2>2 DEF RecordsNumber
<1>12. ResultsFit'
  <2>1. ASSUME NEW q \in results PROVE ResultFits(q)'
    <3>1. ResultFits(q)
      BY DEF RunIInv, FilesFit, ResultsFit
    <3>2. q.plan.checkpoint \in Nat
      BY <3>1 DEF ResultFits, SessionResult, SessionPlan
    <3>3. Due(manifest.spec, q.plan) <= Len(records')
      BY <1>2, <1>10, <3>1, <3>2 DEF ResultFits
    <3>4. QED
      BY <1>1, <3>1, <3>3 DEF ResultFits
  <2>2. QED
    BY <1>1, <2>1 DEF RunIInv, FilesFit, ResultsFit
<1>13. CallsFit'
  <2>1. /\ calls \in Seq(TrainingBatch) /\ \A i \in 1..Len(calls) : CallFits(calls[i])
        /\ \A m \in 1..Len(records) : \E i \in 1..Len(calls) : calls[i].update = m
    BY DEF RunIInv, FilesFit, CallsFit
  <2>2. \E i \in 1..Len(calls) : calls[i].update = n
    BY <1>1, <1>6 DEF RunIInv, BoundaryFits
  <2>3. ASSUME NEW m \in 1..Len(records') PROVE \E i \in 1..Len(calls) : calls[i].update = m
    <3>1. m \in 1..Len(records) \/ m = n
      BY <1>2, <1>6, <1>10
    <3>2. QED
      BY <2>1, <2>2, <3>1
  <2>4. ASSUME NEW i \in 1..Len(calls) PROVE CallFits(calls[i])'
    <3>1. CallFits(calls[i])
      BY <2>1
    <3>2. Window(calls[i].update)' = Window(calls[i].update)
      BY <1>1 DEF Window
    <3>3. calls[i].update \in 1..(Len(records') + 1)
      BY <1>2, <1>10, <3>1 DEF CallFits
    <3>4. QED
      BY <1>1, <3>1, <3>2, <3>3 DEF CallFits
  <2>5. QED
    BY <1>1, <2>1, <2>3, <2>4 DEF CallsFit
<1>14. FilesFit'
  BY <1>1, <1>2, <1>11, <1>12, <1>13 DEF RunIInv, FilesFit
<1>15. QED
  BY <1>2, <1>5, <1>10, <1>14

\* The record is written.
LEMMA WriteRecordFits ==
    ASSUME RunIInv, WriteRecord
    PROVE  RunIInv'
<1>1. /\ runAt = "record" /\ checkpoint' = learner[checkpoints] /\ AfterBoundary(checkpoints)
      /\ UNCHANGED <<manifest, exit, invocation, spec, run, checkpoints, queue, inflight, batch, pending>>
  BY DEF WriteRecord
<1>2. FilesFit' /\ Len(records') = Len(records) + 1 /\ learner[checkpoints] = checkpoint + 1
  BY WriteRecordFiles
<1>3. /\ checkpoint \in Nat /\ checkpoints \in Nat /\ Len(records) \in Nat
      /\ checkpoints = Len(records) + 1 /\ checkpoint = checkpoints - 1 /\ pending = {}
  BY <1>1, AtBoundary DEF RunIInv, BoundaryFits, PendingFits
<1>4. checkpoint' = checkpoint + 1 /\ checkpoints' = checkpoint' /\ pending' = {} /\ checkpoint' <= Len(records')
  BY <1>1, <1>2, <1>3
<1>5. ProcessFits'
  BY <1>1, <1>4, BoundaryPassed
<1>6. QED
  BY <1>2, <1>5 DEF RunIInv, ProcessFits

\* The run is done: every epoch is behind a record.
LEMMA FinishFits ==
    ASSUME RunIInv, Finish
    PROVE  RunIInv'
<1>1. runAt = "finish" /\ Stop("done") /\ UNCHANGED <<disk, outside>>
  BY DEF Finish
<1>2. FilesFit'
  BY <1>1, FilesFrame DEF RunIInv
<1>3. /\ runAt' = "off" /\ exit' = "done" /\ phase' = "evaluation" /\ epoch' = 0
      /\ checkpoint' = 0 /\ checkpoints' = 0 /\ queue' = {} /\ inflight' = {}
      /\ batch' = EmptyBatch /\ pending' = {} /\ invocation' = invocation
      /\ manifest' = manifest /\ records' = records
  BY <1>1 DEF Stop, Blank, InitialCheckpoint, disk
<1>4. /\ manifest # None /\ spec = manifest.spec /\ spec \in Specs /\ ValidSpec(spec)
      /\ checkpoint \in Nat /\ Len(records) \in Nat /\ checkpoint <= Len(records)
  BY <1>1, RunningKnows DEF RunIInv, ProcessKnows, BoundaryFits, FilesFit, RecordsNumber
<1>5. ProcessKnows'
  BY <1>3 DEF RunIInv, ProcessKnows, Phase
<1>6. BoundaryFits' /\ EpochFits' /\ SetFits'
  BY <1>3 DEF BoundaryFits, EpochFits, SetFits
<1>7. BatchTyped' /\ PendingFits'
  BY <1>3 DEF BatchTyped, PendingFits, EmptyBatch
<1>8. DoneFits'
  <2>1. ASSUME spec.training PROVE spec.epochs <= Len(records) * spec.every
    <3>1. spec.epochs = checkpoint * spec.every /\ spec.every \in Nat
      BY <1>1, <1>4, <2>1, SpecHas DEF RunIInv, EpochFits
    <3>2. \A a, b, v \in Nat : a <= b => a * v <= b * v
      OBVIOUS
    <3>3. QED
      BY <1>4, <3>1, <3>2
  <2>2. QED
    BY <1>3, <1>4, <2>1 DEF DoneFits
<1>9. QED
  BY <1>2, <1>5, <1>6, <1>7, <1>8 DEF RunIInv

\* Every other way out leaves the files alone.
LEMMA StopsFit ==
    ASSUME RunIInv, NEW how \in {"refused", "failed", "crashed"}, Stop(how), UNCHANGED <<disk, outside>>
    PROVE  RunIInv'
<1>1. FilesFit'
  BY FilesFrame DEF RunIInv
<1>2. ProcessFits'
  BY StopFits DEF RunIInv
<1>3. QED
  BY <1>1, <1>2 DEF RunIInv, ProcessFits

\* Nothing happens.
LEMMA RunStutters ==
    ASSUME RunIInv, UNCHANGED runVars
    PROVE  RunIInv'
<1>1. /\ UNCHANGED <<disk, outside>> /\ UNCHANGED <<runAt, exit, invocation>>
      /\ UNCHANGED <<spec, run, phase, epoch, checkpoint, checkpoints, queue, inflight, batch, pending>>
  BY DEF runVars, volatile
<1>2. manifest' = manifest /\ results' = results /\ records' = records /\ learner' = learner /\ calls' = calls
  BY <1>1 DEF disk, outside
<1>3. FilesFit'
  BY <1>1, FilesFrame DEF RunIInv
<1>4. Plans' = Plans
  BY <1>1, PlansFrame
<1>5. ProcessKnows' /\ BoundaryFits' /\ EpochFits' /\ DoneFits'
  BY <1>1, <1>2 DEF RunIInv, ProcessKnows, BoundaryFits, EpochFits, DoneFits
<1>6. SetFits'
  BY <1>1, <1>2, <1>4 DEF RunIInv, SetFits
<1>7. BatchTyped' /\ PendingFits'
  BY <1>1, <1>2 DEF RunIInv, BatchTyped, PendingFits, Gathered
<1>8. QED
  BY <1>3, <1>5, <1>6, <1>7 DEF RunIInv

\* An empty directory, and no process.
LEMMA RunStarts ==
    ASSUME RunInit
    PROVE  RunIInv
<1>1. /\ manifest = None /\ results = {} /\ records = <<>> /\ learner = <<>> /\ calls = <<>>
      /\ runAt = "off" /\ exit = "none" /\ invocation = 0 /\ phase = "evaluation" /\ epoch = 0
      /\ checkpoint = 0 /\ checkpoints = 0
      /\ queue = {} /\ inflight = {} /\ batch = EmptyBatch /\ pending = {}
  BY DEF RunInit, Blank, InitialCheckpoint
<1>2. RecordsNumber /\ ResultsFit /\ CallsFit
  BY <1>1 DEF RecordsNumber, ResultsFit, OneEach, CallsFit
<1>3. FilesFit
  BY <1>1, <1>2 DEF FilesFit
<1>4. ProcessKnows
  BY <1>1, InvocationsAssumption DEF ProcessKnows, Phase
<1>5. BoundaryFits /\ EpochFits /\ SetFits /\ DoneFits
  BY <1>1 DEF BoundaryFits, EpochFits, SetFits, DoneFits
<1>6. BatchTyped /\ PendingFits
  BY <1>1 DEF BatchTyped, PendingFits, EmptyBatch
<1>7. QED
  BY <1>3, <1>4, <1>5, <1>6 DEF RunIInv

\* Every step of the run.
LEMMA RunSteps ==
    ASSUME RunIInv, [RunNext]_runVars
    PROVE  RunIInv'
<1>1. CASE UNCHANGED runVars
  BY <1>1, RunStutters
<1>2. ASSUME NEW s \in Specs, Invoke(s) PROVE RunIInv'
  BY <1>2, InvokeFiles, InvokeProcess DEF RunIInv, ProcessFits
<1>3. CASE Work
  <2>1. CASE OpenSet
    BY <2>1, OpenSetFits
  <2>2. CASE StartSession
    BY <2>2, StartSessionFits
  <2>3. ASSUME NEW plan \in inflight, NEW ok \in BOOLEAN, FinishSession(plan, ok) PROVE RunIInv'
    BY <2>3, FinishSessionFits
  <2>4. CASE EndSet
    BY <2>4, EndSetFits
  <2>5. CASE FailEpoch
    BY <2>5, StopsFit DEF FailEpoch
  <2>6. CASE LoadRecord
    BY <2>6, LoadRecordFits
  <2>7. CASE NeedUpdate
    BY <2>7, NeedUpdateFits
  <2>8. CASE Train
    BY <2>8, TrainFits
  <2>9. CASE WriteRecord
    BY <2>9, WriteRecordFits
  <2>10. CASE Finish
    BY <2>10, FinishFits
  <2>11. QED
    BY <1>3, <2>1, <2>2, <2>3, <2>4, <2>5, <2>6, <2>7, <2>8, <2>9, <2>10 DEF Work
<1>4. CASE Fault
  <2>1. CASE Crash
    BY <2>1, StopsFit DEF Crash
  <2>2. ASSUME NEW plan \in inflight, LoseResult(plan) PROVE RunIInv'
    BY <2>2, StopsFit DEF LoseResult
  <2>3. ASSUME NEW applied \in BOOLEAN, TrainFails(applied) PROVE RunIInv'
    BY <2>3, TrainFailsFits
  <2>4. CASE LoseRecord
    BY <2>4, StopsFit DEF LoseRecord
  <2>5. QED
    BY <1>4, <2>1, <2>2, <2>3, <2>4 DEF Fault
<1>5. QED
  BY <1>1, <1>2, <1>3, <1>4 DEF RunNext

\* The invariant of the run.
LEMMA RunHolds == RunSpec => []RunIInv
<1>1. RunInit => RunIInv
  BY RunStarts
<1>2. RunIInv /\ [RunNext]_runVars => RunIInv'
  BY RunSteps
<1>3. QED
  BY <1>1, <1>2, PTL DEF RunSpec

-----------------------------------------------------------------------------
(* What the run promises.                                                  *)

\* Every variable has its type.
LEMMA RunIsTyped ==
    ASSUME RunIInv
    PROVE  RunTypeOK
<1>1. /\ manifest = None \/ manifest \in RunManifest
      /\ records \in Seq(CheckpointRecord) /\ learner \in Seq(Nat) /\ calls \in Seq(TrainingBatch)
  BY DEF RunIInv, FilesFit, RecordsNumber, CallsFit
<1>2. results \subseteq SessionResult
  BY DEF RunIInv, FilesFit, ResultsFit, ResultFits
<1>3. /\ runAt \in {"off", "plan", "execute", "boundary", "train", "record", "finish"}
      /\ exit \in {"none", "refused", "failed", "crashed", "done"} /\ invocation \in 0 .. MaxInvocations
      /\ phase \in Phase /\ epoch \in Nat /\ checkpoint \in Nat /\ checkpoints \in Nat
  BY DEF RunIInv, ProcessKnows
<1>4. queue \subseteq Nat /\ inflight \subseteq SessionPlan
  <2>1. CASE runAt = "execute"
    BY <2>1, CurrentPlans DEF RunIInv, SetFits
  <2>2. CASE runAt # "execute"
    BY <2>2 DEF RunIInv, SetFits
  <2>3. QED
    BY <2>1, <2>2
<1>5. batch \in [steps : SUBSET TrajectoryStep, failed : BOOLEAN] /\ pending \subseteq TrajectoryStep
  BY DEF RunIInv, BatchTyped
<1>6. QED
  BY <1>1, <1>2, <1>3, <1>4, <1>5 DEF RunTypeOK

\* Two calls for one update ask for the same.
LEMMA CallsAgree ==
    ASSUME RunIInv
    PROVE  UpdatesAgree
<1>1. SUFFICES ASSUME NEW i \in DOMAIN calls, NEW j \in DOMAIN calls, calls[i].update = calls[j].update
               PROVE  calls[i] = calls[j]
  BY DEF UpdatesAgree
<1>2. CallFits(calls[i]) /\ CallFits(calls[j])
  BY DEF RunIInv, FilesFit, CallsFit
<1>3. calls[i].base = calls[j].base
  BY <1>1, <1>2 DEF CallFits
<1>4. calls[i].steps = calls[j].steps
  BY <1>1, <1>2, <1>3 DEF CallFits
<1>5. calls[i] \in TrainingBatch /\ calls[j] \in TrainingBatch
  BY <1>2 DEF CallFits
<1>6. QED
  BY <1>1, <1>3, <1>4, <1>5 DEF TrainingBatch

\* A call covers its epochs.
LEMMA CallsCover ==
    ASSUME RunIInv
    PROVE  UpdateCoversItsEpochs
<1>1. SUFFICES ASSUME NEW c, \E i \in DOMAIN calls : c = calls[i],
                      NEW P, P = UNION {ToSet(PlanSet(manifest.spec, "training", e, c.base)) : e \in Window(c.update)}
               PROVE  (\A p \in P : Finalized(p) /\ ResultOf(p).ok) /\ c.steps = UNION {ResultOf(p).steps : p \in P}
  BY DEF UpdateCoversItsEpochs
<1>2. CallFits(c)
  BY <1>1 DEF RunIInv, FilesFit, CallsFit
<1>3. P = EpochPlans(manifest.spec, Window(c.update), c.base)
  BY <1>1 DEF EpochPlans
<1>4. AllWell(results, P) /\ c.steps = Harvest(results, P)
  BY <1>2, <1>3 DEF CallFits
<1>5. QED
  BY <1>4 DEF AllWell, Harvest, Ended, Result, Finalized, ResultOf

\* What was played is what was recorded.
LEMMA PoliciesRecorded ==
    ASSUME RunIInv
    PROVE  PolicyIsRecorded
<1>1. /\ Len(records) \in Nat /\ DOMAIN records = 1..Len(records)
      /\ \A n \in 1..Len(records) : records[n].base = n - 1 /\ records[n].checkpoint = n
  <2>1. /\ records \in Seq(CheckpointRecord)
        /\ \A n \in 1..Len(records) : records[n] = [run |-> manifest.run, base |-> n - 1, checkpoint |-> n]
    BY DEF RunIInv, FilesFit, RecordsNumber
  <2>2. Len(records) \in Nat /\ DOMAIN records = 1..Len(records)
    BY <2>1
  <2>3. ASSUME NEW n \in 1..Len(records) PROVE records[n].base = n - 1 /\ records[n].checkpoint = n
    <3>1. records[n] = [run |-> manifest.run, base |-> n - 1, checkpoint |-> n]
      BY <2>1
    <3>2. QED
      BY <3>1
  <2>4. QED
    BY <2>2, <2>3
<1> DEFINE at(n) == IF n = 0 THEN InitialCheckpoint ELSE records[n].checkpoint
<1> DEFINE due(p) == CASE p.phase = "evaluation" -> 0
                       [] p.phase = "training"   -> (p.index - 1) \div manifest.spec.every
                       [] OTHER                  -> p.index
<1>2. \A n \in 0..Len(records) : at(n) = n
  BY <1>1 DEF InitialCheckpoint
<1>3. \A n \in DOMAIN records : records[n].base = at(n - 1)
  <2> HIDE DEF at
  <2>1. QED
    BY <1>1, <1>2
<1>4. ASSUME NEW r \in results PROVE due(r.plan) <= Len(records) /\ r.plan.checkpoint = at(due(r.plan))
  <2>1. ResultFits(r)
    BY DEF RunIInv, FilesFit, ResultsFit
  <2>2. r.plan.phase \in Phase /\ r.plan.checkpoint \in Nat
    BY <2>1 DEF ResultFits, SessionResult, SessionPlan
  <2>3. due(r.plan) = Due(manifest.spec, r.plan)
    BY <2>2 DEF Due, Phase
  <2> HIDE DEF due, at
  <2>4. due(r.plan) <= Len(records) /\ r.plan.checkpoint = due(r.plan)
    BY <2>1, <2>3 DEF ResultFits
  <2>5. due(r.plan) \in 0..Len(records)
    BY <1>1, <2>2, <2>4
  <2>6. QED
    BY <1>2, <2>4, <2>5
<1>5. QED
  BY <1>3, <1>4 DEF PolicyIsRecorded

\* A run that is done has trained on all it has collected.
LEMMA AllIsTrained ==
    ASSUME RunIInv
    PROVE  NothingLeftUntrained
<1>1. SUFFICES ASSUME exit = "done", NEW r \in results, r.plan.phase = "training"
               PROVE  \E i \in DOMAIN calls : r.steps \subseteq calls[i].steps /\ calls[i].update <= Len(records)
  BY DEF NothingLeftUntrained
<1>2. /\ ResultFits(r) /\ OneEach(results) /\ Len(records) \in Nat
  BY DEF RunIInv, FilesFit, ResultsFit, RecordsNumber
<1>3. /\ manifest \in RunManifest /\ ValidSpec(manifest.spec) /\ manifest.spec \in Specs
      /\ manifest.spec.training /\ r.plan.index \in 1..manifest.spec.epochs
      /\ manifest.spec.epochs <= Len(records) * manifest.spec.every
  <2>1. manifest # None /\ manifest.spec.training
    BY <1>1, <1>2 DEF RunIInv, DoneFits, ResultFits
  <2>2. manifest \in RunManifest /\ ValidSpec(manifest.spec)
    BY <2>1 DEF RunIInv, FilesFit
  <2>3. QED
    BY <1>1, <1>2, <2>1, <2>2 DEF RunIInv, DoneFits, ResultFits, RunManifest
<1>4. manifest.spec.every \in Nat \ {0} /\ manifest.spec.epochs \in Nat
  BY <1>3, SpecHas
<1>5. PICK v \in Nat \ {0} : v = manifest.spec.every
  BY <1>4
<1>6. PICK e \in Nat : e = r.plan.index /\ 1 <= e /\ e <= manifest.spec.epochs
  BY <1>3, <1>4
<1>7. PICK n \in Nat : n = Len(records)
  BY <1>2
<1>8. PICK a \in Nat : a = e - 1
  BY <1>6
<1>9. a < n * v
  <2>1. PICK m \in Int : m = n * v
    BY OneTimeMore
  <2>2. manifest.spec.epochs <= m
    BY <1>3, <1>5, <1>7, <2>1
  <2>3. QED
    BY <1>4, <1>6, <1>8, <2>1, <2>2
<1>10. PICK q \in Nat : q = a \div v /\ q < n
  BY <1>9, DivBelow
<1>11. r.plan.checkpoint = q
  BY <1>1, <1>2, <1>5, <1>6, <1>8, <1>10 DEF ResultFits, Due
<1>12. q + 1 \in 1..Len(records)
  BY <1>7, <1>10
<1>13. PICK i \in 1..Len(calls) : calls[i].update = q + 1
  BY <1>12 DEF RunIInv, FilesFit, CallsFit
<1>14. CallFits(calls[i])
  BY DEF RunIInv, FilesFit, CallsFit
<1>15. calls[i].base = q
  BY <1>13, <1>14 DEF CallFits
<1>16. e \in Window(calls[i].update)
  <2>1. e \in (q * v + 1)..((q + 1) * v)
    BY <1>6, <1>8, <1>10, DivWindow
  <2>2. q + 1 - 1 = q
    BY <1>10
  <2>3. QED
    BY <1>5, <1>13, <2>1, <2>2 DEF Window
<1>17. r.plan \in EpochPlans(manifest.spec, Window(calls[i].update), calls[i].base)
  <2>1. r.plan \in ToSet(PlanSet(manifest.spec, "training", e, q))
    BY <1>1, <1>2, <1>6, <1>11 DEF ResultFits
  <2>2. QED
    BY <1>15, <1>16, <2>1 DEF EpochPlans
<1>18. r.steps \subseteq calls[i].steps
  <2>1. Result(results, r.plan) = r
    BY <1>2, ResultIs
  <2>2. calls[i].steps = Harvest(results, EpochPlans(manifest.spec, Window(calls[i].update), calls[i].base))
    BY <1>14 DEF CallFits
  <2>3. QED
    BY <1>17, <2>1, <2>2 DEF Harvest
<1>19. calls \in Seq(TrainingBatch)
  BY DEF RunIInv, FilesFit, CallsFit
<1>20. calls[i].update <= Len(records)
  BY <1>12, <1>13
<1>21. QED
  BY <1>18, <1>19, <1>20

\* A training that was killed and resumed, however often and wherever, is the
\* training an undisturbed run would have made (TrainingIsReproducible), for
\* all experiment files and any number of invocations.
THEOREM TrainingStaysReproducible == RunSpec => []TrainingIsReproducible
<1>1. RunIInv => TrainingIsReproducible
  BY RunIsTyped, CallsAgree, CallsCover, PoliciesRecorded, AllIsTrained DEF TrainingIsReproducible
<1>2. QED
  BY <1>1, RunHolds, PTL

\* No resumption and no failure replaces the result of a plan
\* (ResultIsImmutable): the runner never plays a plan that has one.
THEOREM ResultsStand == RunSpec => ResultIsImmutable
<1>1. ASSUME RunIInv, [RunNext]_runVars PROVE [\A r \in results : r \in results']_runVars
  <2>1. ASSUME NEW plan \in inflight, NEW ok \in BOOLEAN, FinishSession(plan, ok)
        PROVE  \A r \in results : r \in results'
    BY <1>1, <2>1, ResultIsNew
  <2>2. CASE UNCHANGED results
    BY <2>2
  <2>3. CASE UNCHANGED runVars
    BY <2>3
  <2>4. ASSUME NEW s \in Specs, Invoke(s) PROVE UNCHANGED results
    BY <2>4 DEF Invoke
  <2>5. CASE Work
    BY <2>1, <2>5 DEF Work, OpenSet, StartSession, EndSet, FailEpoch, LoadRecord, NeedUpdate, Train,
                      WriteRecord, Finish, disk
  <2>6. CASE Fault
    BY <2>6 DEF Fault, Crash, LoseResult, TrainFails, LoseRecord, disk
  <2>7. QED
    BY <1>1, <2>2, <2>3, <2>4, <2>5, <2>6 DEF RunNext
<1>2. QED
  BY <1>1, RunHolds, PTL DEF RunSpec, ResultIsImmutable
====

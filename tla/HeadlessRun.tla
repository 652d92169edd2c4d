---------------------------- MODULE HeadlessRun ----------------------------
(***************************************************************************)
(* The headless experiment runner (agent_experiment.rs): one invocation    *)
(* opens the output directory, expands the specification into session      *)
(* plans, runs the plans that have no finalized result, trains the learner *)
(* at every checkpoint boundary and validates the new checkpoint.  The     *)
(* process may die between any two steps, or give up on an error; the same *)
(* command then resumes from the files it finds.                           *)
(*                                                                         *)
(* Files: the manifest run.json, one result per plan, one record per       *)
(* learner update.  Each is written through a temporary file and a rename, *)
(* so a crash leaves it absent or complete.  What a session does between   *)
(* its start and its result is the subject of HeadlessSession.             *)
(***************************************************************************)
EXTENDS Integers, FiniteSets, Sequences, SequencesExt

CONSTANTS
    Specs,           \* the experiment files an operator may pass
    MaxInvocations   \* bound on the number of invocations

ASSUME InvocationsAssumption == MaxInvocations \in Nat \ {0}

None == [none |-> TRUE]

(***************************************************************************)
(* What the runner reads of an experiment file.  Names, settings, secrets, *)
(* the game's configuration and the schedule only enter the identity of a  *)
(* plan; a file that gets them wrong has wellFormed = FALSE.               *)
(***************************************************************************)
Phase == {"evaluation", "training", "validation"}

\* The fields of ExperimentFile that the runner acts on.
ExperimentFile ==
    [wellFormed : BOOLEAN, sessions : BOOLEAN, training : BOOLEAN, validation : BOOLEAN,
     seeds : Seq(Nat), repetitions : Nat, mirror : BOOLEAN,
     seats : Seq({"learner", "partner"}), learner : {"learner"},
     epochs : Nat, every : Nat, validateEvery : Nat,
     concurrency : Nat, failFast : BOOLEAN]

ASSUME SpecsAssumption == \A s \in Specs : s \in ExperimentFile /\ Len(s.seats) = 2

\* validate_session_set: a set that expands to no plan is refused.
ValidSessionSet(s) == s.seeds # <<>> /\ s.repetitions > 0

\* Mutants: the cadence need not divide the epochs; no session may run.
MutUndivided(s) ==
    /\ s.wellFormed
    /\ s.sessions \/ s.training
    /\ s.validation => s.training
    /\ s.concurrency > 0
    /\ ValidSessionSet(s)
    /\ s.training => s.epochs > 0 /\ s.every > 0 /\ s.learner \in {s.seats[1], s.seats[2]}
    /\ s.validation => s.validateEvery > 0

MutNoConcurrency(s) ==
    /\ s.wellFormed
    /\ s.sessions \/ s.training
    /\ s.validation => s.training
    /\ ValidSessionSet(s)
    /\ s.training =>
          /\ s.epochs > 0 /\ s.every > 0
          /\ s.epochs % s.every = 0
          /\ s.learner \in {s.seats[1], s.seats[2]}
    /\ s.validation => s.validateEvery > 0

\* validate_spec: the cross-field constraints.
ValidSpec(s) ==
    /\ s.wellFormed
    /\ s.sessions \/ s.training
    /\ s.validation => s.training
    /\ s.concurrency > 0
    /\ ValidSessionSet(s)
    /\ s.training =>
          /\ s.epochs > 0 /\ s.every > 0
          /\ s.epochs % s.every = 0
          /\ s.learner \in {s.seats[1], s.seats[2]}
    /\ s.validation => s.validateEvery > 0

\* plan_set: both role assignments when the roles are mirrored and differ.
Legs(s) ==
    IF s.mirror /\ s.seats[1] # s.seats[2]
    THEN <<"original", "mirrored">>
    ELSE <<"original">>

(***************************************************************************)
(* plan_set: one plan per seed, repetition and role assignment, in this    *)
(* order.  The identity of a plan holds the checkpoint its learner is      *)
(* pinned to, so an epoch after another update is another plan; the run is *)
(* no part of it.                                                          *)
(***************************************************************************)
PlanSet(s, phase, index, checkpoint) ==
    LET legs == Legs(s)
        perSeed == s.repetitions * Len(legs)
        at(k) == [phase |-> phase, index |-> index,
                  seed |-> s.seeds[((k - 1) \div perSeed) + 1],
                  repetition |-> ((k - 1) % perSeed) \div Len(legs),
                  leg |-> legs[((k - 1) % Len(legs)) + 1],
                  checkpoint |-> checkpoint]
    IN  [k \in 1 .. Len(s.seeds) * perSeed |-> at(k)]

\* What tells one plan from another.
SessionPlan ==
    [phase : Phase, index : Nat, seed : Nat, repetition : Nat,
     leg : {"original", "mirrored"}, checkpoint : Nat]

\* plan_set: a specification that expands to the same plan twice is refused.
DuplicatePlan(plans) ==
    \E i, j \in DOMAIN plans : i # j /\ plans[i] = plans[j]

\* One learner action of one execution of a plan, and one finalized session.
TrajectoryStep == [plan : SessionPlan, by : 1 .. MaxInvocations]
SessionResult ==
    [plan : SessionPlan, run : 1 .. MaxInvocations, ok : BOOLEAN, steps : SUBSET TrajectoryStep]
CheckpointRecord == [run : 1 .. MaxInvocations, base : Nat, checkpoint : Nat]
TrainingBatch == [update : Nat, base : Nat, steps : SUBSET TrajectoryStep]
RunManifest == [run : 1 .. MaxInvocations, spec : Specs]

VARIABLES
    (* the output directory *)
    manifest,    \* run.json: [run, spec], or None
    results,     \* results/<plan>.json: a set of [plan, run, ok, steps]
    records,     \* checkpoints/<n>.json: a sequence of [run, base, checkpoint]
    (* the learner behind RLAgent: what it made of each update, kept by itself *)
    learner,     \* a sequence of checkpoints, one per update it has applied
    calls,       \* every call of train: [update, base, steps]
    (* the process *)
    runAt,          \* "off", "plan", "execute", "boundary", "train", "record", "finish"
    exit,        \* how the last invocation ended
    invocation,  \* its number
    spec,        \* the specification it was given
    run,         \* the identity it took from the manifest
    phase,       \* the phase of the current set of plans
    epoch,       \* the current training epoch, 0 before the first
    checkpoint,  \* the checkpoint the learner's seats are pinned to
    checkpoints, \* boundaries reached
    queue,       \* positions of the plans of the current set not started yet
    inflight,    \* plans being executed
    batch,       \* ExecutionBatch: steps and has_failure of the current set
    pending      \* pending_steps: steps since the last boundary

disk == <<manifest, results, records>>
outside == <<learner, calls>>
volatile == <<spec, run, phase, epoch, checkpoint, checkpoints, queue, inflight, batch, pending>>
runVars == <<disk, outside, runAt, exit, invocation, volatile>>

NoSpec == [none |-> TRUE]
EmptyBatch == [steps |-> {}, failed |-> FALSE]
InitialCheckpoint == 0

ResultOf(plan) == CHOOSE r \in results : r.plan = plan
Finalized(plan) == \E r \in results : r.plan = plan

-----------------------------------------------------------------------------
(* The life of the process *)

\* What a process knows when it has read nothing.
Blank ==
    [spec |-> NoSpec, run |-> 0, phase |-> "evaluation", epoch |-> 0,
     checkpoint |-> InitialCheckpoint, checkpoints |-> 0]

RunInit ==
    /\ manifest = None /\ results = {} /\ records = <<>>
    /\ learner = <<>> /\ calls = <<>>
    /\ runAt = "off" /\ exit = "none" /\ invocation = 0
    /\ spec = Blank.spec /\ run = Blank.run
    /\ phase = Blank.phase /\ epoch = Blank.epoch
    /\ checkpoint = Blank.checkpoint /\ checkpoints = Blank.checkpoints
    /\ queue = {} /\ inflight = {} /\ batch = EmptyBatch /\ pending = {}

\* The process is gone: by its last line, by an error it returns, by a crash.
\* Sessions in flight are dropped with it and leave no result.
Stop(how) ==
    /\ runAt' = "off" /\ exit' = how
    /\ spec' = Blank.spec /\ run' = Blank.run
    /\ phase' = Blank.phase /\ epoch' = Blank.epoch
    /\ checkpoint' = Blank.checkpoint /\ checkpoints' = Blank.checkpoints
    /\ queue' = {} /\ inflight' = {} /\ batch' = EmptyBatch /\ pending' = {}
    /\ UNCHANGED invocation

(***************************************************************************)
(* run: the specification is validated before the directory is touched; a  *)
(* manifest of another specification refuses the invocation, a missing one *)
(* is created with a fresh run identity.  An operator who has seen the run *)
(* finish does not start it again.                                         *)
(***************************************************************************)
Matches(s) == manifest = None \/ manifest.spec = s

Invoke(s) ==
    /\ runAt = "off" /\ exit # "done" /\ invocation < MaxInvocations
    /\ invocation' = invocation + 1
    /\ IF ValidSpec(s) /\ Matches(s)
       THEN /\ manifest' = IF manifest = None
                           THEN [run |-> invocation + 1, spec |-> s] ELSE manifest
            /\ runAt' = "plan" /\ exit' = "none"
            /\ spec' = s /\ run' = manifest'.run
            /\ phase' = IF s.sessions THEN "evaluation" ELSE "training"
            /\ epoch' = IF s.sessions THEN 0 ELSE 1
       ELSE /\ exit' = "refused"
            /\ UNCHANGED <<manifest, runAt, spec, run, phase, epoch>>
    /\ UNCHANGED <<results, records, outside, checkpoint, checkpoints,
                   queue, inflight, batch, pending>>

Crash ==
    /\ runAt # "off" /\ invocation < MaxInvocations
    /\ Stop("crashed")
    /\ UNCHANGED <<disk, outside>>

-----------------------------------------------------------------------------
(* execute_plans *)

PhaseIndex == CASE phase = "evaluation" -> 0
                [] phase = "training"   -> epoch
                [] OTHER                -> checkpoints

Plans == PlanSet(spec, phase, PhaseIndex, checkpoint)

\* Mutant: failed plans are tried again.
MutRetryFailed(plans) ==
    {k \in DOMAIN plans : ~ Finalized(plans[k]) \/ ~ ResultOf(plans[k]).ok}

\* Plans that have a finalized result, successful or not, are not run again.
Unfinished(plans) == {k \in DOMAIN plans : ~ Finalized(plans[k])}

\* load_result_data: the steps and failures of the skipped plans.
SkippedBatch(plans) ==
    LET done == {ResultOf(plans[i]) : i \in {k \in DOMAIN plans : Finalized(plans[k])}}
    IN  [steps |-> UNION {r.steps : r \in done}, failed |-> \E r \in done : ~ r.ok]

\* finalized_result_matches: a result of another run is an error.
ForeignResult(plans) ==
    \E i \in DOMAIN plans : Finalized(plans[i]) /\ ResultOf(plans[i]).run # run

OpenSet ==
    /\ runAt = "plan"
    /\ IF DuplicatePlan(Plans) \/ ForeignResult(Plans)
       THEN Stop("refused")
       ELSE /\ runAt' = "execute"
            /\ queue' = Unfinished(Plans)
            /\ batch' = SkippedBatch(Plans)
            /\ UNCHANGED <<exit, invocation, spec, run, phase, epoch,
                           checkpoint, checkpoints, inflight, pending>>
    /\ UNCHANGED <<disk, outside>>

Concurrency == IF spec.failFast THEN 1 ELSE spec.concurrency

StartSession ==
    /\ runAt = "execute" /\ Cardinality(inflight) < Concurrency
    /\ \E k \in queue :
          /\ \A j \in queue : k <= j
          /\ inflight' = inflight \cup {Plans[k]} /\ queue' = queue \ {k}
    /\ UNCHANGED <<disk, outside, runAt, exit, invocation, spec, run, phase, epoch,
                   checkpoint, checkpoints, batch, pending>>

\* The learner's steps in one execution of a plan.  Another execution of the
\* same plan has other steps: agents need not be deterministic.
Trajectory(plan) == IF plan.phase = "training" THEN {[plan |-> plan, by |-> invocation]} ELSE {}

\* A session ends, in any order, its result is finalized and joins the batch.
FinishSession(plan, ok) ==
    /\ runAt = "execute" /\ plan \in inflight
    /\ results' = {r \in results : r.plan # plan}
                     \cup {[plan |-> plan, run |-> run, ok |-> ok, steps |-> Trajectory(plan)]}
    /\ IF ~ ok /\ spec.failFast
       THEN Stop("failed")
       ELSE /\ inflight' = inflight \ {plan}
            /\ batch' = [steps |-> batch.steps \cup Trajectory(plan),
                         failed |-> batch.failed \/ ~ ok]
            /\ UNCHANGED <<runAt, exit, invocation, spec, run, phase, epoch,
                           checkpoint, checkpoints, queue, pending>>
    /\ UNCHANGED <<manifest, records, outside>>

\* The result cannot be written: the invocation ends, with the sessions that
\* run beside it.
LoseResult(plan) ==
    /\ runAt = "execute" /\ plan \in inflight
    /\ invocation < MaxInvocations
    /\ Stop("failed")
    /\ UNCHANGED <<disk, outside>>

-----------------------------------------------------------------------------
(* The training loop of run *)

\* After an epoch, its boundary and its validation: the next epoch or the end.
NextEpoch ==
    IF epoch < spec.epochs
    THEN /\ epoch' = epoch + 1 /\ phase' = "training" /\ runAt' = "plan"
    ELSE /\ runAt' = "finish"
         /\ UNCHANGED <<phase, epoch>>

\* Every plan of the set has a result.
EndSet ==
    /\ runAt = "execute" /\ queue = {} /\ inflight = {}
    /\ batch' = EmptyBatch
    /\ \/ /\ phase = "evaluation" /\ ~ spec.training
          /\ runAt' = "finish"
          /\ UNCHANGED <<phase, epoch, pending>>
       \/ /\ phase = "evaluation" /\ spec.training
          /\ NextEpoch
          /\ UNCHANGED pending
       \/ /\ phase = "training" /\ ~ batch.failed
          /\ pending' = pending \cup batch.steps
          /\ IF epoch % spec.every = 0
             THEN /\ runAt' = "boundary"
                  /\ UNCHANGED <<phase, epoch>>
             ELSE NextEpoch
       \/ /\ phase = "validation"
          /\ NextEpoch
          /\ UNCHANGED pending
    /\ UNCHANGED <<disk, outside, exit, invocation, spec, run, checkpoint, checkpoints,
                   queue, inflight>>

\* An epoch with a failed session stops the invocation.
FailEpoch ==
    /\ runAt = "execute" /\ queue = {} /\ inflight = {}
    /\ phase = "training" /\ batch.failed
    /\ Stop("failed")
    /\ UNCHANGED <<disk, outside>>

\* After a boundary: validation of the new checkpoint where one is due.
AfterBoundary(number) ==
    IF spec.validation /\ number % spec.validateEvery = 0
    THEN /\ phase' = "validation" /\ runAt' = "plan"
         /\ UNCHANGED epoch
    ELSE NextEpoch

\* Mutant: the steps of a recorded update stay pending.
MutKeepPending ==
    /\ runAt = "boundary"
    /\ LET number == checkpoints + 1 IN
       /\ number <= Len(records)
       /\ checkpoints' = number
       /\ checkpoint' = records[number].checkpoint
       /\ AfterBoundary(number)
    /\ UNCHANGED <<disk, outside, exit, invocation, spec, run, queue, inflight, batch, pending>>

\* The boundary's record is on disk: its checkpoint is taken and the steps
\* that led to it are forgotten.  A record of another run is an error.
LoadRecord ==
    /\ runAt = "boundary"
    /\ LET number == checkpoints + 1 IN
       /\ number <= Len(records)
       /\ IF records[number].run # run
          THEN Stop("refused")
          ELSE /\ checkpoints' = number
               /\ checkpoint' = records[number].checkpoint
               /\ pending' = {}
               /\ AfterBoundary(number)
               /\ UNCHANGED <<exit, invocation, spec, run, queue, inflight, batch>>
    /\ UNCHANGED <<disk, outside>>

NeedUpdate ==
    /\ runAt = "boundary"
    /\ checkpoints + 1 > Len(records)
    /\ checkpoints' = checkpoints + 1
    /\ runAt' = "train"
    /\ UNCHANGED <<disk, outside, exit, invocation, spec, run, phase, epoch,
                   checkpoint, queue, inflight, batch, pending>>

(***************************************************************************)
(* The learner applies an update once per update id, whatever the number   *)
(* of calls: its documented obligation.  It keeps its checkpoints itself.  *)
(***************************************************************************)
Apply(update) ==
    learner' = IF update <= Len(learner) THEN learner ELSE Append(learner, update)

\* Mutant: the update starts from the learner's latest checkpoint.
MutLatestBase == [update |-> checkpoints, base |-> Len(learner), steps |-> pending]

\* The batch and the base of the update of this boundary.
Called == [update |-> checkpoints, base |-> checkpoint, steps |-> pending]

Train ==
    /\ runAt = "train"
    /\ calls' = Append(calls, Called)
    /\ Apply(checkpoints)
    /\ pending' = {}
    /\ runAt' = "record"
    /\ UNCHANGED <<disk, exit, invocation, spec, run, phase, epoch,
                   checkpoint, checkpoints, queue, inflight, batch>>

\* train returns an error, before or after the learner has applied the update.
TrainFails(applied) ==
    /\ runAt = "train" /\ invocation < MaxInvocations
    /\ calls' = Append(calls, Called)
    /\ IF applied THEN Apply(checkpoints) ELSE UNCHANGED learner
    /\ Stop("failed")
    /\ UNCHANGED disk

\* Mutants: the seats stay on the old checkpoint; the boundary is not counted.
MutStalePolicy ==
    /\ runAt = "record"
    /\ records' = Append(records, [run |-> run, base |-> checkpoint,
                                   checkpoint |-> learner[checkpoints]])
    /\ AfterBoundary(checkpoints)
    /\ UNCHANGED <<manifest, results, outside, exit, invocation, spec, run, checkpoint,
                   checkpoints, queue, inflight, batch, pending>>

MutEmptyRecord ==
    /\ runAt = "record"
    /\ records' = Append(records, None)
    /\ AfterBoundary(checkpoints)
    /\ UNCHANGED <<manifest, results, outside, exit, invocation, spec, run, checkpoint,
                   checkpoints, queue, inflight, batch, pending>>

\* The record is finalized and the learner's seats move to its checkpoint.
WriteRecord ==
    /\ runAt = "record"
    /\ records' = Append(records, [run |-> run, base |-> checkpoint,
                                   checkpoint |-> learner[checkpoints]])
    /\ checkpoint' = learner[checkpoints]
    /\ AfterBoundary(checkpoints)
    /\ UNCHANGED <<manifest, results, outside, exit, invocation, spec, run, checkpoints,
                   queue, inflight, batch, pending>>

LoseRecord ==
    /\ runAt = "record" /\ invocation < MaxInvocations
    /\ Stop("failed")
    /\ UNCHANGED <<disk, outside>>

\* The last line of run: the summary is returned.
Finish ==
    /\ runAt = "finish"
    /\ Stop("done")
    /\ UNCHANGED <<disk, outside>>

-----------------------------------------------------------------------------
Work ==
    \/ OpenSet
    \/ StartSession
    \/ \E plan \in inflight, ok \in BOOLEAN : FinishSession(plan, ok)
    \/ EndSet
    \/ FailEpoch
    \/ LoadRecord
    \/ NeedUpdate
    \/ Train
    \/ WriteRecord
    \/ Finish

Fault ==
    \/ Crash
    \/ \E plan \in inflight : LoseResult(plan)
    \/ \E applied \in BOOLEAN : TrainFails(applied)
    \/ LoseRecord

\* Fairness: a process that runs goes on running (Work); sessions end by their
\* own limits and the files can be written.
RunNext == (\E s \in Specs : Invoke(s)) \/ Work \/ Fault

RunSpec == RunInit /\ [][RunNext]_runVars

-----------------------------------------------------------------------------
(* Properties *)

\* Every variable has its type: files hold what their writers put there.
RunTypeOK ==
    /\ manifest = None \/ manifest \in RunManifest
    /\ results \subseteq SessionResult
    /\ records \in Seq(CheckpointRecord)
    /\ learner \in Seq(Nat)
    /\ calls \in Seq(TrainingBatch)
    /\ runAt \in {"off", "plan", "execute", "boundary", "train", "record", "finish"}
    /\ exit \in {"none", "refused", "failed", "crashed", "done"}
    /\ invocation \in 0 .. MaxInvocations
    /\ phase \in Phase /\ epoch \in Nat
    /\ checkpoint \in Nat /\ checkpoints \in Nat
    /\ queue \subseteq Nat /\ inflight \subseteq SessionPlan
    /\ batch \in [steps : SUBSET TrajectoryStep, failed : BOOLEAN] /\ pending \subseteq TrajectoryStep

\* A finalized result is never replaced, by no resumption and no failure: one
\* plan, one execution, one result (technical-decisions.md, "Each headless
\* plan executes once").
ResultIsImmutable == [][\A r \in results : r \in results']_runVars

\* However often an update is attempted, it asks the learner for the same
\* thing: the same base and the same steps, whatever was lost in between.
\* This is what makes the learner's idempotence by update id sound.
UpdatesAgree ==
    \A i, j \in DOMAIN calls : calls[i].update = calls[j].update => calls[i] = calls[j]

Window(update) == LET k == manifest.spec.every IN (update - 1) * k + 1 .. update * k

\* An update holds the steps of the epochs since the last checkpoint: of all
\* their plans, of no other epoch, of no failed session, each under the
\* policy the update starts from.
UpdateCoversItsEpochs ==
    \A i \in DOMAIN calls :
        LET c == calls[i]
            plans == UNION {ToSet(PlanSet(manifest.spec, "training", e, c.base)) : e \in Window(c.update)}
        IN  /\ \A p \in plans : Finalized(p) /\ ResultOf(p).ok
            /\ c.steps = UNION {ResultOf(p).steps : p \in plans}

\* Every session was played under the checkpoint the records put there: a
\* training epoch under the last record before it, a validation under the
\* record it validates; and each record starts where the last one ended.
PolicyIsRecorded ==
    LET at(n) == IF n = 0 THEN InitialCheckpoint ELSE records[n].checkpoint
        due(p) == CASE p.phase = "evaluation" -> 0
                    [] p.phase = "training"   -> (p.index - 1) \div manifest.spec.every
                    [] OTHER                  -> p.index
    IN  /\ \A n \in DOMAIN records : records[n].base = at(n - 1)
        /\ \A r \in results : due(r.plan) <= Len(records) /\ r.plan.checkpoint = at(due(r.plan))

\* A run that finishes has used every training step it has collected: no
\* epoch is left behind the last checkpoint.
NothingLeftUntrained ==
    exit = "done" =>
        \A r \in results : r.plan.phase = "training" =>
            \E i \in DOMAIN calls : r.steps \subseteq calls[i].steps /\ calls[i].update <= Len(records)

\* Every invocation comes to an end, with a summary or with an error.
InvocationEnds == runAt # "off" ~> runAt = "off"

\* A training that was killed and resumed, however often, is the training that
\* an undisturbed run would have made: each update is asked for with the same
\* steps, covers its epochs, is what later sessions play, and none is missing.
TrainingIsReproducible ==
    /\ RunTypeOK
    /\ UpdatesAgree /\ UpdateCoversItsEpochs /\ PolicyIsRecorded /\ NothingLeftUntrained
=============================================================================

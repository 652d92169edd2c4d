-------------------------- MODULE ProlificPreflight -------------------------
(***************************************************************************)
(* An experiment that recruits through Prolific is started only after the  *)
(* linked study has been verified (experiment_activation_issues).  The     *)
(* provider's verdict is cached for half a minute; the start, the save of  *)
(* a configuration and the refresh behind a new session ask concurrently,  *)
(* answers take time, and the study is edited at the provider at any time. *)
(***************************************************************************)
EXTENDS Integers, FiniteSets

CONSTANTS CacheLife,     \* ticks a verdict is reused (30 seconds)
          FetchLimit,    \* ticks the requests to the provider take at most
          MaxTicks, MaxEdits  \* bounds: time; edits of the study and saves
ASSUME PreflightAssumption == {CacheLife, FetchLimit, MaxTicks, MaxEdits} \subseteq Nat

VARIABLES tick,
          study,      \* the provider's study: the flaws it has
          link,       \* the inputs of the preflight in the stored configuration
          edits,
          verdicts,   \* prolific_preflight_cache of the experiment, at most one
          asking,     \* preflights under way, by who asks
          intake      \* the lifecycle of the experiment
preflightVars == <<tick, study, link, edits, verdicts, asking, intake>>

Asker == {"start", "refresh", "save"}
Links == 1..2
NoCheck == [step |-> "idle", link |-> 0, since |-> 0, answer |-> {}]

PreflightInit ==
    /\ tick = 0 /\ study = {}
    /\ link = 1 /\ edits = 0 /\ verdicts = {} /\ intake = "inactive"
    /\ asking = [a \in Asker |-> NoCheck]

\* Time passes; a request to the provider is given up in time.
InTime == \A a \in Asker : asking[a].step = "asked" => tick < asking[a].since + FetchLimit
Tick ==
    /\ tick < MaxTicks /\ InTime /\ tick' = tick + 1
    /\ UNCHANGED <<study, link, edits, verdicts, asking, intake>>

\* The provider's side (external).
EditStudy ==
    /\ edits < MaxEdits /\ edits' = edits + 1
    /\ study' = {"setup"} \ study
    /\ UNCHANGED <<tick, link, verdicts, asking, intake>>

-----------------------------------------------------------------------------
(* The preflight. *)

\* cached_prolific_activation_preflight: a recent verdict on the same inputs.
\* prolific_preflight_fingerprint hashes all of them, so equal means equal.
MutAnyInputs(l) == {v \in verdicts : tick < v.at + CacheLife}
Reusable(l) == {v \in verdicts : v.link = l /\ tick < v.at + CacheLife}

\* prolific_activation_preflight on what the provider answers: the issues, and
\* the study unless its workspace is unknown.
Verdict(l) == [link |-> l, flaws |-> study, asOf |-> tick]
Failed(l) == [link |-> l, flaws |-> {"unreachable"}, asOf |-> tick]

Ask(a, l) == [asking EXCEPT ![a] = [step |-> "asked", link |-> l, since |-> tick, answer |-> {}]]

\* Start for participants: experiment_activation_issues up to the provider.
BeginStart ==
    /\ asking["start"].step = "idle" /\ intake = "inactive"
    /\ asking' = IF Reusable(link) = {} THEN Ask("start", link)
                 ELSE [asking EXCEPT !["start"] = [step |-> "told", link |-> link, since |-> tick,
                                                   answer |-> Reusable(link)]]
    /\ UNCHANGED <<tick, study, link, edits, verdicts, intake>>

\* refresh_prolific_progress, by the administrator or behind a new session.
BeginRefresh ==
    /\ asking["refresh"].step = "idle" /\ asking' = Ask("refresh", link)
    /\ UNCHANGED <<tick, study, link, edits, verdicts, intake>>

\* admin_save_experiment_config: new inputs, then a preflight of its own.
SaveLink(l) ==
    /\ intake = "inactive" /\ asking["save"].step = "idle" /\ edits < MaxEdits
    /\ link' = l /\ edits' = edits + 1 /\ asking' = Ask("save", l)
    /\ UNCHANGED <<tick, study, verdicts, intake>>

\* The provider answers, or the request fails (external).
Answer(a) ==
    /\ asking[a].step = "asked" /\ asking[a].answer = {}
    /\ \E v \in {Verdict(asking[a].link), Failed(asking[a].link)} : asking' = [asking EXCEPT ![a].answer = {v}]
    /\ UNCHANGED <<tick, study, link, edits, verdicts, intake>>

\* run_and_cache_prolific_activation_preflight after the answer: checked_at is
\* the time of the insertion.  What the runtime keeps of a flawless study
\* (prolific_study) is read by a launch alone: secure of ProlificLaunch.
Clean(answer) == \A v \in answer : v.flaws = {}
Deliver(a) ==
    /\ asking[a].step = "asked" /\ asking[a].answer # {}
    /\ verdicts' = {[link |-> v.link, flaws |-> v.flaws, asOf |-> v.asOf, at |-> tick]
                      : v \in asking[a].answer}
    /\ asking' = [asking EXCEPT ![a] = IF a = "start" THEN [@ EXCEPT !.step = "told"] ELSE NoCheck]
    /\ UNCHANGED <<tick, study, link, edits, intake>>

\* The rest of experiment_activation_issues and of admin_update_experiment_status.
MutIgnoresFlaws(answer) == TRUE
Startable(answer) == Clean(answer)
FinishStart ==
    /\ asking["start"].step = "told" /\ asking' = [asking EXCEPT !["start"] = NoCheck]
    /\ IF Startable(asking["start"].answer)
       THEN intake' = "active" ELSE UNCHANGED intake
    /\ UNCHANGED <<tick, study, link, edits, verdicts>>

\* Back to inactive: the cached verdict outlives the runtime.
Stop ==
    /\ intake = "active" /\ intake' = "inactive"
    /\ UNCHANGED <<tick, study, link, edits, verdicts, asking>>

PreflightNext ==
    \/ Tick \/ EditStudy \/ BeginStart \/ BeginRefresh \/ FinishStart \/ Stop
    \/ \E l \in Links : SaveLink(l)
    \/ \E a \in Asker : Answer(a) \/ Deliver(a)

PreflightSpec == PreflightInit /\ [][PreflightNext]_preflightVars

-----------------------------------------------------------------------------
(* Properties. *)

\* Participants are let in only on a verdict without issues, given on the very
\* inputs the start read, that the provider pronounced no longer ago than the
\* cache's life and a request's time, whichever of the concurrent checks wrote
\* the cache last (cached_prolific_activation_preflight).
StartIsVerified ==
    [][intake = "inactive" /\ intake' = "active" =>
          \A v \in asking["start"].answer :
              /\ v.flaws = {} /\ v.link = asking["start"].link
              /\ asking["start"].since <= v.asOf + CacheLife + FetchLimit]_preflightVars
=============================================================================

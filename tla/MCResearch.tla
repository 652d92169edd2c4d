---------------------------- MODULE MCResearch ----------------------------
(***************************************************************************)
(* Seven parts around the sessions in one run: the stored data and what is *)
(* made of it, the Prolific integration, the catalogue and the settings of *)
(* experiments, and the dashboard's liveness table.  They share no state,  *)
(* so a behaviour is one of them and the state space is their sum.         *)
(***************************************************************************)
EXTENDS EventTimeline, ResearchData, ProlificPreflight, ProlificLaunch,
        ExperimentCatalogue, GameSettings, SessionMonitor

\* Families of events that occur together.
AlphabetMC ==
    {ActionTypes \cup {"session_completed", "participant_disconnected"}, PresenceTypes \cup VoiceTypes,
     {"transcript_segment", "voice_message", "session_completed"},
     {"agent_message", "chat_message", "tts_published", "session_ended"}}

VARIABLE part
vars == <<part, timelineVars, dataVars, preflightVars, launchVars, catalogueVars, settingsVars, monitorVars>>

\* The parts that do not run rest in one of their initial states.
TimelineRests == part = "timeline" \/ (kinds = CHOOSE k \in AlphabetMC : TRUE)
DataRests == part = "data" \/ (testers = {})
CatalogueRests == part = "catalogue" \/ (catalogue["e"] # {} /\ \A c \in catalogue["e"] : c.version = "current")
Init ==
    /\ part \in {"timeline", "data", "preflight", "launch", "catalogue", "settings", "monitor"}
    /\ TimelineInit /\ TimelineRests
    /\ DataInit /\ DataRests
    /\ PreflightInit
    /\ LaunchInit
    /\ CatalogueInit /\ CatalogueRests
    /\ SettingsInit
    /\ MonitorInit

TimelinePart ==
    /\ part = "timeline" /\ (\E e \in Events : WriteEvent(e))
    /\ UNCHANGED <<part, dataVars, preflightVars, launchVars, catalogueVars, settingsVars, monitorVars>>
DataPart ==
    /\ part = "data" /\ DataNext
    /\ UNCHANGED <<part, timelineVars, preflightVars, launchVars, catalogueVars, settingsVars, monitorVars>>
PreflightPart ==
    /\ part = "preflight" /\ PreflightNext
    /\ UNCHANGED <<part, timelineVars, dataVars, launchVars, catalogueVars, settingsVars, monitorVars>>
LaunchPart ==
    /\ part = "launch" /\ LaunchNext
    /\ UNCHANGED <<part, timelineVars, dataVars, preflightVars, catalogueVars, settingsVars, monitorVars>>
CataloguePart ==
    /\ part = "catalogue" /\ CatalogueNext
    /\ UNCHANGED <<part, timelineVars, dataVars, preflightVars, launchVars, settingsVars, monitorVars>>
SettingsPart ==
    /\ part = "settings" /\ SettingsNext
    /\ UNCHANGED <<part, timelineVars, dataVars, preflightVars, launchVars, catalogueVars, monitorVars>>
MonitorPart ==
    /\ part = "monitor" /\ MonitorNext
    /\ UNCHANGED <<part, timelineVars, dataVars, preflightVars, launchVars, catalogueVars, settingsVars>>

Next == TimelinePart \/ DataPart \/ PreflightPart \/ LaunchPart \/ CataloguePart \/ SettingsPart \/ MonitorPart
Spec == Init /\ [][Next]_vars

\* What the tables hold and an export hands out is what happened: nothing of a
\* deleted person, nobody twice, no mixture of two sessions.
RecordsAreTrue == DeletedIsGone /\ CorpusIsFaithful /\ OneRowPerSubmission

\* Documents, revisions, secrets and settings agree with each other, in the
\* store, in memory and in a runtime built from them.
CatalogueAgrees == RevisionsAreComplete /\ BuiltFromOneRevision /\ CopyFollowsRow

\* A study starts, and a launch is let in, on the provider's present word only:
\* a verdict on the same inputs and keys that have not been withdrawn for long.
ProviderIsHeard == StartIsVerified /\ KeysKeepUp

\* Nobody's work is overwritten unseen: edits, documents in use, fields left out
\* and unfinished sessions all survive what others do.
NothingIsLost ==
    EditsBuildOnSeen /\ RunningIsUnedited /\ LeftOutIsKept /\ UnfinishedIsSpared
=============================================================================

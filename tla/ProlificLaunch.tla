--------------------------- MODULE ProlificLaunch ---------------------------
(***************************************************************************)
(* A launch from Prolific (create_participant_inner): verified by a signed *)
(* token when the study says so, else by a question to the provider, then  *)
(* admitted in one transaction.  The client caches the provider's signing  *)
(* keys for a day; the provider replaces them at any time (prolific.rs).   *)
(***************************************************************************)
EXTENDS Integers, FiniteSets

CONSTANTS Submission,    \* the submissions that are launched
          LaunchTab,     \* the browser tabs they are launched from
          KeyLife,       \* ticks signing keys are reused (a day)
          MaxHour, MaxKey, MaxLaunches  \* bounds: time, signing keys, launches
ASSUME LaunchAssumption == {KeyLife, MaxHour, MaxLaunches} \subseteq Nat /\ MaxKey \in Nat \ {0}

VARIABLES hour,
          secure,     \* the verified study wants signed launches
          signing,    \* the provider's present signing key
          withdrawn,  \* history: when an older key was replaced
          keyCache,   \* jwks of the client, at most one
          launch,     \* a launch by tab
          launches,
          admitted    \* rows of prolific_submissions
launchVars == <<hour, secure, signing, withdrawn, keyCache, launch, launches, admitted>>

NoLaunch == [step |-> "idle", who |-> {}, key |-> 0]

LaunchInit ==
    /\ hour = 0 /\ secure = TRUE /\ signing = 1
    /\ withdrawn = [k \in 1..MaxKey |-> MaxHour]
    /\ keyCache = {} /\ launch = [t \in LaunchTab |-> NoLaunch] /\ launches = 0 /\ admitted = {}

HourPasses ==
    /\ hour < MaxHour /\ hour' = hour + 1
    /\ UNCHANGED <<secure, signing, withdrawn, keyCache, launch, launches, admitted>>

\* The provider's side (external), and a preflight that finds the study changed.
ReplaceKey ==
    /\ signing < MaxKey /\ signing' = signing + 1 /\ withdrawn' = [withdrawn EXCEPT ![signing] = hour]
    /\ UNCHANGED <<hour, secure, keyCache, launch, launches, admitted>>
StudyChanges ==
    /\ secure' = ~secure
    /\ UNCHANGED <<hour, signing, withdrawn, keyCache, launch, launches, admitted>>

\* The handler reads the verified study; the token carries the key of its day.
Launch(t, p) ==
    /\ launch[t].step = "idle" /\ launches < MaxLaunches /\ launches' = launches + 1
    /\ \E k \in {signing, signing - 1} \ {0} :
          launch' = [launch EXCEPT ![t] = [step |-> IF secure THEN "signed" ELSE "submission", who |-> {p}, key |-> k]]
    /\ UNCHANGED <<hour, secure, signing, withdrawn, keyCache, admitted>>

\* cached_jwks: keys younger than a day, else what the provider publishes now.
MutEternalKeys == keyCache
FreshKeys == {c \in keyCache : hour < c.at + KeyLife}
FetchKeys == {[key |-> signing, at |-> hour]}

\* verify_signed_launch: fresh keys are asked for when none are cached and once
\* more when the token's key is not among the cached ones; a request may fail.
MutNoSecondLook(k) == FreshKeys # {}
KnownFromCache(k) == \E c \in FreshKeys : c.key = k
VerifySigned(t) ==
    LET k == launch[t].key IN
    /\ launch[t].step = "signed"
    /\ \/ /\ KnownFromCache(k) /\ UNCHANGED keyCache
          /\ launch' = [launch EXCEPT ![t].step = IF \E c \in FreshKeys : c.key = k THEN "verified" ELSE "refused"]
       \/ /\ ~KnownFromCache(k) /\ keyCache' = FetchKeys
          /\ launch' = [launch EXCEPT ![t].step = IF signing = k THEN "verified" ELSE "refused"]
       \/ /\ ~KnownFromCache(k) /\ UNCHANGED keyCache
          /\ launch' = [launch EXCEPT ![t].step = "failed"]
    /\ UNCHANGED <<hour, secure, signing, withdrawn, launches, admitted>>

\* verify_unsigned_launch: the provider confirms the submission or does not.
VerifySubmission(t) ==
    /\ launch[t].step = "submission"
    /\ \E answer \in {"verified", "failed"} : launch' = [launch EXCEPT ![t].step = answer]
    /\ UNCHANGED <<hour, secure, signing, withdrawn, keyCache, launches, admitted>>

\* admit_prolific_submission: the same submission is the same participant.
MutAdmitsTabs(t, p) == {[who |-> p, row |-> t]}
AdmittedAs(t, p) == IF \E r \in admitted : r.who = p THEN {} ELSE {[who |-> p, row |-> t]}
AdmitSubmission(t) ==
    /\ launch[t].step = "verified"
    /\ admitted' = admitted \cup UNION {AdmittedAs(t, p) : p \in launch[t].who}
    /\ launch' = [launch EXCEPT ![t] = NoLaunch]
    /\ UNCHANGED <<hour, secure, signing, withdrawn, keyCache, launches>>
RefuseLaunch(t) ==
    /\ launch[t].step \in {"refused", "failed"} /\ launch' = [launch EXCEPT ![t] = NoLaunch]
    /\ UNCHANGED <<hour, secure, signing, withdrawn, keyCache, launches, admitted>>

LaunchNext ==
    \/ HourPasses \/ ReplaceKey \/ StudyChanges
    \/ \E t \in LaunchTab : VerifySigned(t) \/ VerifySubmission(t) \/ AdmitSubmission(t) \/ RefuseLaunch(t)
    \/ \E t \in LaunchTab, p \in Submission : Launch(t, p)

LaunchSpec == LaunchInit /\ [][LaunchNext]_launchVars

-----------------------------------------------------------------------------
(* Properties. *)

\* A key that has been replaced verifies no launch once the cached keys have
\* outlived their day, and a launch with the present key is never refused for
\* keys that were cached before it (verify_signed_launch, cached_jwks).
KeysKeepUp ==
    [][\A t \in LaunchTab : launch[t].step = "signed" =>
          /\ launch'[t].step = "verified" => hour <= withdrawn[launch[t].key] + KeyLife
          /\ launch'[t].step = "refused" => launch[t].key # signing]_launchVars

\* However many tabs a submission is launched from, it is one participant
\* (admit_prolific_submission looks for it inside the transaction).
OneRowPerSubmission == \A r, s \in admitted : r.who = s.who => r = s
=============================================================================

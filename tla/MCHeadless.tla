----------------------------- MODULE MCHeadless -----------------------------
(***************************************************************************)
(* The headless runner and the games in one run: HeadlessRun on six        *)
(* experiment files, HeadlessSession playing Great Tree and cue-choice,    *)
(* the Space Game and its floor.  They share no state, so a behaviour is   *)
(* one of the four and the state space is their sum.                       *)
(***************************************************************************)
EXTENDS HeadlessRun, HeadlessSession, GreatTree, CueChoice, SpaceGame, SpaceFloor

(* Experiment files: three that run, three that are refused. *)
Base == [wellFormed |-> TRUE, sessions |-> FALSE, training |-> TRUE, validation |-> FALSE,
         seeds |-> <<1>>, repetitions |-> 1, mirror |-> FALSE,
         seats |-> <<"learner", "partner">>, learner |-> "learner",
         epochs |-> 2, every |-> 1, validateEvery |-> 1,
         concurrency |-> 2, failFast |-> FALSE]

\* Evaluation, two epochs with an update each, validation of the second.
Full == [Base EXCEPT !.sessions = TRUE, !.validation = TRUE, !.validateEvery = 2,
                     !.mirror = TRUE]

\* Two epochs of two sessions to one update, one session at a time.
Careful == [Base EXCEPT !.seeds = <<1, 2>>, !.every = 2, !.failFast = TRUE]

\* Evaluation only.
Plain == [Base EXCEPT !.sessions = TRUE, !.training = FALSE, !.repetitions = 2]

Repeated == [Base EXCEPT !.seeds = <<1, 1>>]
Undivided == [Base EXCEPT !.epochs = 3, !.every = 2]
Idle == [Base EXCEPT !.concurrency = 0]

SpecsMC == {Full, Careful, Plain, Repeated, Undivided, Idle}
-----------------------------------------------------------------------------
(* The games a session plays; a state is tagged with its game. *)
InGame(g, S) == {[game |-> g, at |-> s] : s \in S}

\* One pairing and one limb that flowers at first: the others differ from
\* these by names only.
InitialStatesMC == InGame("tree", {t \in TreeInitial : t.sun = <<1>>}) \cup InGame("cue", CueInitial)
ActionsMC(s) == IF s.game = "tree" THEN TreeActions ELSE CueActions
AcceptsMC(s, a, r) ==
    IF s.game = "tree" THEN TreeAccepts(s.at, a, r) ELSE CueAccepts(s.at, a, r)
ApplyActionMC(s, a) ==
    [s EXCEPT !.at = IF s.game = "tree" THEN TreeApply(s.at, a) ELSE CueApply(s.at, a)]
ObservationMC(s, r) ==
    IF s.game = "tree" THEN TreeObservation(s.at, r) ELSE CueObservation(s.at, r)
CompletionMC(s) ==
    IF (IF s.game = "tree" THEN TreeComplete(s.at) ELSE CueComplete(s.at)) THEN {"completed"} ELSE {}

PairingMC == {[l \in Limb |-> (l % 4) + 1]}
CorrectMC == [l \in Level |-> IF l = "dax" THEN "oak" ELSE "pine"]

\* Great Tree: a root runs only while its limb has the sun (the invariant of
\* types.rs), a limb is wet exactly while its root runs, and neither seat
\* holds more than its limit, however the two interleave their moves.
TreeIsConsistent ==
    state.game = "tree" =>
        LET t == state.at IN
        /\ \A r \in Root : Holds(t.flow, r) => thawed(t, r)
        /\ \A l \in Limb : t.water[l] = Holds(t.flow, t.pair[l])
        /\ Len(t.sun) <= HoldLimit /\ Len(t.flow) <= HoldLimit

\* Cue-choice: a completed session has the learner's choice as its terminal
\* step, so no reward of a finished game is lost to training.
RewardIsCaptured ==
    state.game = "cue" /\ training /\ result.status = "completed" =>
        trajectory # <<>> /\ Last(trajectory).terminal
-----------------------------------------------------------------------------
VARIABLE part
vars == <<part, runVars, playVars, spaceVars, floorVars>>

\* The parts that do not run rest in one of their initial states.
PlayRests ==
    \/ part = "play"
    \/ kind = "alternate_every_response" /\ training = TRUE /\ state = CHOOSE s \in InitialStatesMC : TRUE
FloorRests == part = "floor" \/ (hatchOpen = FALSE /\ flooded = {<<2, 2>>})
Init ==
    /\ part \in {"run", "play", "space", "floor"}
    /\ RunInit /\ PlayInit /\ SpaceInit /\ FloorInit /\ PlayRests /\ FloorRests

RunPart == part = "run" /\ RunNext /\ UNCHANGED <<part, playVars, spaceVars, floorVars>>
PlayPart == part = "play" /\ PlayNext /\ UNCHANGED <<part, runVars, spaceVars, floorVars>>
SpacePart == part = "space" /\ SpaceAct /\ UNCHANGED <<part, runVars, playVars, floorVars>>
FloorPart == part = "floor" /\ Flood /\ UNCHANGED <<part, runVars, playVars, spaceVars>>

Next == RunPart \/ PlayPart \/ SpacePart \/ FloorPart

\* A process that runs goes on running, and every callback of a session is
\* bounded by a timeout, so the runner always goes on.
RunWorks == part = "run" /\ Work /\ UNCHANGED <<part, playVars, spaceVars, floorVars>>
Spec == Init /\ [][Next]_vars /\ WF_vars(RunWorks) /\ WF_vars(PlayPart)

\* Whatever the players of the Space Game did, they can still launch
\* (CanStillLaunch), and every place of the station can be walked to
\* (FloorIsConnected), each where it is at stake.
StationIsSolvable == part = "space" => CanStillLaunch
FloorIsWhole == part = "floor" => FloorIsConnected

\* The rules of the three games under every order of moves: Great Tree stays
\* consistent, no reward of cue-choice is lost, the Space Game takes two and has
\* no dead end.
GamesAreSound ==
    /\ TreeIsConsistent /\ RewardIsCaptured
    /\ LaunchTakesTwo /\ StationIsSolvable /\ FloorIsWhole

\* Whatever fails on the way, every invocation of the runner and every session
\* it plays comes to an end.
EverythingEnds == InvocationEnds /\ SessionEnds
=============================================================================

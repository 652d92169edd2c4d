----------------------------- MODULE CueChoice -----------------------------
(***************************************************************************)
(* The cue-choice experiment's game (experiments/cue-choice-rl, game.rs):  *)
(* player B deals, player A sees a cue and chooses.  Pure operators, like  *)
(* the code's.                                                             *)
(***************************************************************************)
CONSTANTS
    Level,     \* compiled levels
    Choice,    \* the four choices
    Correct    \* Level -> Choice: correct_choice

ASSUME CorrectAssumption == Correct \in [Level -> Choice]

NoChoice == [none |-> TRUE]

\* initial_state; the nonce is shown and never read.
CueInitial == [phase : {"awaitingDeal"}, level : Level, chosen : {NoChoice}]

CueActions == [type : {"deal"}] \cup [type : {"choose"}, choice : Choice]

\* apply_action: one authorized transition per phase, the rest is rejected.
CueAccepts(c, action, actor) ==
    \/ c.phase = "awaitingDeal" /\ action.type = "deal" /\ actor = "B"
    \/ c.phase = "choosing" /\ action.type = "choose" /\ actor = "A"

CueApply(c, action) ==
    IF action.type = "deal"
    THEN [c EXCEPT !.phase = "choosing"]
    ELSE [c EXCEPT !.phase = "complete", !.chosen = action.choice]

\* observation: the cue is A's alone; both see the result.
CueObservation(c, role) ==
    CASE c.phase = "awaitingDeal" -> [view |-> IF role = "A" THEN "waiting" ELSE "readyToDeal"]
      [] c.phase = "choosing" /\ role = "A" -> [view |-> "cue", cue |-> c.level]
      [] c.phase = "choosing" /\ role = "B" -> [view |-> "dealerWaiting"]
      [] c.phase = "complete" -> [view |-> "finished", chosen |-> c.chosen,
                                  correct |-> c.chosen = Correct[c.level]]

CueComplete(c) == c.phase = "complete"
=============================================================================

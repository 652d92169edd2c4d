--------------------------- MODULE SessionOutcome ---------------------------
(***************************************************************************)
(* What the durable record of a session promises to a researcher who reads *)
(* it later: the session forms, may run, and ends once.  The end fixes a   *)
(* cause and the results of the roles that had joined, the results fit the *)
(* cause, and only a game that ran can be completed or time out idle.      *)
(***************************************************************************)
CONSTANTS Role, Cause, NoCause, Outcome

VARIABLES phase, cause, results

(***************************************************************************)
(* The outcomes a role may be given under each cause.                      *)
(***************************************************************************)
OutcomesOf(c) ==
    CASE c = "game_completed"      -> {"completed"}
      [] c = "participant_left"    -> {"left_waiting_room", "left_game", "partner_left"}
      [] c = "partner_unavailable" -> {"partner_unavailable"}
      [] c = "reconnect_timed_out" -> {"connection_lost", "partner_left"}
      [] c = "idle_timed_out"      -> {"idle_limit_reached"}
      [] c = "lifetime_timed_out"  -> {"lifetime_limit_reached"}
      [] c = "technical_failure"   -> {"technical_failure"}

NeedsGame == {"game_completed", "idle_timed_out"}

Init ==
    /\ phase = "forming"
    /\ cause = NoCause
    /\ results = << >>

Start ==
    /\ phase = "forming"
    /\ phase' = "running"
    /\ UNCHANGED <<cause, results>>

EndWith(c) ==
    /\ phase # "ended"
    /\ c \in NeedsGame => phase = "running"
    /\ phase' = "ended"
    /\ cause' = c
    /\ DOMAIN results' \subseteq Role
    /\ \A r \in DOMAIN results' : results'[r] \in OutcomesOf(c)

Next == Start \/ \E c \in Cause : EndWith(c)

Spec == Init /\ [][Next]_<<phase, cause, results>>

=============================================================================

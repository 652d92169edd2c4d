------------------------------ MODULE SpaceGame ------------------------------
(***************************************************************************)
(* The mechanics of the Space Game (space-game/server/src/game): two       *)
(* players repair a station whose systems depend on each other, and launch *)
(* a beacon that ends the session.  The state is a record, an action a     *)
(* record, apply_action an operator, as in the code.  Of a position only   *)
(* the zone is kept: on the floor plate, in the airlock or elsewhere.      *)
(* SpaceFloor shows on the real grid that one may walk freely between the  *)
(* cells of a zone and between all zones but into the airlock.  Texts      *)
(* revealed to the players and visual effects change no later step and are *)
(* left out.                                                               *)
(***************************************************************************)
EXTENDS Integers, Sequences, SequencesExt

Crew == {"A", "B"}
Zone == {"outside", "plate", "airlock"}

VARIABLE station   \* SpaceGameState
spaceVars == <<station>>

initial_state ==
    [at |-> [p \in Crew |-> "outside"],
     blue |-> FALSE, yellow |-> FALSE,                       \* fuses; the red one feeds nothing
     main |-> FALSE, aux |-> FALSE,                          \* breakers
     A |-> FALSE, C |-> FALSE, floodgate |-> FALSE,          \* valves
     override |-> FALSE, relay |-> "bypass",
     location |-> "charger", charged |-> FALSE, spent |-> FALSE,   \* battery
     drained |-> FALSE, tripped |-> FALSE, launched |-> FALSE]
SpaceInit == station = initial_state

-----------------------------------------------------------------------------
(* derive_systems *)

pump_powered(s) == s.yellow /\ s.main /\ ~s.tripped
power_stable(s) == s.blue /\ s.main /\ ~s.spent
charger_fed(s) == power_stable(s) /\ pump_powered(s) /\ s.C /\ ~s.floodgate
cooling_restored(s) == s.floodgate /\ ~s.C
oxygen_stable(s) == pump_powered(s) /\ s.A /\ ~s.drained /\ ~s.tripped
MutNoPlate(s) == power_stable(s) /\ (s.location = "charger" \/ s.override) /\ oxygen_stable(s)
door_access(s) ==
    /\ power_stable(s) /\ (s.location = "charger" \/ s.override)
    /\ oxygen_stable(s) /\ \E p \in Crew : s.at[p] = "plate"
signal_routed(s) ==
    s.relay = "array" /\ s.location = "signal" /\ s.charged /\ ~s.spent /\ cooling_restored(s)
ready_to_launch(s) == power_stable(s) /\ oxygen_stable(s) /\ door_access(s) /\ signal_routed(s)

-----------------------------------------------------------------------------
(* The actions. *)

Toggle == {"blue", "yellow", "main", "aux"}
Valve == {"A", "C", "floodgate"}
Action(p) ==
    [kind : {"moveStep"}, player : {p}, to : Zone]
    \cup [kind : {"toggle"}, player : {p}, gadget : Toggle]
    \cup [kind : {"setValve"}, player : {p}, gadget : Valve, open : BOOLEAN]
    \cup [kind : {"holdOverride"}, player : {p}, held : BOOLEAN]
    \cup [kind : {"chargeBattery", "moveBattery", "cycleRelay", "launchBeacon"}, player : {p}]

\* available_actions and validate_action: a step is always valid; the devices
\* are elsewhere, the beacon is in the airlock; a switch can only be set to
\* what it is not.
validate_action(s, a) ==
    CASE a.kind = "moveStep"     -> TRUE
      [] a.kind = "launchBeacon" -> s.at[a.player] = "airlock"
      [] a.kind = "setValve"     -> s.at[a.player] = "outside" /\ a.open = ~s[a.gadget]
      [] a.kind = "holdOverride" -> s.at[a.player] = "outside" /\ a.held = ~s.override
      [] OTHER                   -> s.at[a.player] = "outside"

\* apply_move_step: the plate and the airlock do not touch, and only the way
\* into the airlock is guarded.
Adjacent(y, z) == "outside" \in {y, z}
MutHatch(s, p, to) == "airlock" \in {to, s.at[p]} => door_access(s)
Hatch(s, p, to) == to = "airlock" => door_access(s)
apply_move_step(s, p, to) ==
    IF to # s.at[p] /\ Adjacent(s.at[p], to) /\ Hatch(s, p, to) THEN [s EXCEPT !.at[p] = to] ELSE s

\* toggle_fuse and toggle_breaker: AUX and the yellow fuse together trip the
\* fan; the main breaker switched off discharges a battery in the charger.
toggle(s, gadget) ==
    LET n == [s EXCEPT ![gadget] = ~@] IN
    [n EXCEPT !.tripped = @ \/ (gadget \in {"yellow", "aux"} /\ n.yellow /\ n.aux),
              !.charged = @ /\ ~(gadget = "main" /\ ~n.main /\ n.location # "signal")]

MutFanStays(s, gadget, open) ==
    LET n == [s EXCEPT ![gadget] = open] IN
    [n EXCEPT !.drained = (@ /\ ~(gadget = "A" /\ open)) \/ (gadget = "floodgate" /\ open /\ oxygen_stable(s))]
set_valve(s, gadget, open) ==
    LET n == [s EXCEPT ![gadget] = open] IN
    [n EXCEPT !.drained = (@ /\ ~(gadget = "A" /\ open)) \/ (gadget = "floodgate" /\ open /\ oxygen_stable(s)),
              !.tripped = @ /\ ~(gadget = "A" /\ open)]

charge_battery(s) ==
    IF charger_fed(s) /\ s.location = "charger" THEN [s EXCEPT !.charged = TRUE, !.spent = FALSE] ELSE s
move_battery(s) ==
    IF s.location = "signal" THEN [s EXCEPT !.location = "charger", !.spent = FALSE]
    ELSE IF s.charged THEN [s EXCEPT !.location = "signal"] ELSE s
next_relay(mode) == CASE mode = "bypass" -> "loop" [] mode = "loop" -> "array" [] OTHER -> "bypass"
launch_beacon(s) ==
    IF ready_to_launch(s) THEN [s EXCEPT !.launched = TRUE]
    ELSE [s EXCEPT !.spent = @ \/ (s.location = "signal" /\ s.charged)]

apply_action(s, a) ==
    CASE a.kind = "moveStep"      -> apply_move_step(s, a.player, a.to)
      [] a.kind = "toggle"        -> toggle(s, a.gadget)
      [] a.kind = "setValve"      -> set_valve(s, a.gadget, a.open)
      [] a.kind = "holdOverride"  -> [s EXCEPT !.override = a.held]
      [] a.kind = "chargeBattery" -> charge_battery(s)
      [] a.kind = "moveBattery"   -> move_battery(s)
      [] a.kind = "cycleRelay"    -> [s EXCEPT !.relay = next_relay(@)]
      [] a.kind = "launchBeacon"  -> launch_beacon(s)

\* A submitted action; once completion is reported the session is over.
SpaceAct ==
    /\ ~station.launched
    /\ \E p \in Crew : \E a \in Action(p) : validate_action(station, a) /\ station' = apply_action(station, a)

-----------------------------------------------------------------------------
(* Properties. *)

\* A way to finish from any state: everybody leaves the airlock and the plate,
\* the battery is brought back, the bus is powered, the charger is fed and the
\* battery charged, moved and cooled, pressure is restored, and while A stands
\* on the plate B launches.
Do(p, k) == [kind |-> k, player |-> p]
Walk(p, z) == [kind |-> "moveStep", player |-> p, to |-> z]
Set(v, open) == [kind |-> "setValve", player |-> "B", gadget |-> v, open |-> open]
Times(n, a) == [i \in 1..n |-> a]
Unless(done, a) == IF done THEN <<>> ELSE <<a>>
Switch(w) == [kind |-> "toggle", player |-> "A", gadget |-> w]
Plan(s) ==
    <<Walk("A", "outside"), Walk("B", "outside")>>
    \o Unless(s.location = "charger", Do("A", "moveBattery"))
    \o Unless(s.blue, Switch("blue")) \o Unless(s.main, Switch("main")) \o Unless(s.yellow, Switch("yellow"))
    \o <<Set("A", FALSE), Set("A", TRUE), Set("floodgate", FALSE), Set("C", TRUE), Do("A", "chargeBattery")>>
    \o Unless(s.override, [kind |-> "holdOverride", player |-> "A", held |-> TRUE])
    \o <<Do("A", "moveBattery"), Set("C", FALSE), Set("floodgate", TRUE), Set("A", FALSE), Set("A", TRUE)>>
    \o Times(CASE s.relay = "array" -> 0 [] s.relay = "loop" -> 1 [] OTHER -> 2, Do("B", "cycleRelay"))
    \o <<Walk("A", "plate"), Walk("B", "airlock"), Do("B", "launchBeacon")>>
\* A step of the plan that is refused changes nothing.
Tried(s, a) == IF validate_action(s, a) THEN apply_action(s, a) ELSE s

\* Whatever the players did so far, in whatever order, they can still launch:
\* no tripped fan, drained pressure, spent battery, closed hatch or switched-off
\* breaker is a dead end (the resets in set_valve, move_battery and
\* charge_battery, and the hatch that opens from inside).
CanStillLaunch == FoldLeft(Tried, station, Plan(station)).launched

\* The beacon cannot be launched single-handed: when it is, one player is in the
\* airlock and the other on the plate, although the hatch was passed earlier
\* (door_access is part of ready_to_launch).
LaunchTakesTwo ==
    station.launched => \E p \in Crew : station.at[p] = "airlock" /\ \E q \in Crew \ {p} : station.at[q] = "plate"
=============================================================================

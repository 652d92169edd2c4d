---------------------------- MODULE RemoteValues ----------------------------
(***************************************************************************)
(* How values cross to a remote agent and back (remote_agent.rs            *)
(* json_to_prost, prost_to_json): JSON has 64-bit integers and doubles, a  *)
(* protobuf Struct has doubles only.  The ranges are parameters: integers  *)
(* run from -IntLimit to IntLimit - 1 and doubles are exact up to Exact,   *)
(* beyond which they are the multiples of 2.  A number counts halves, so   *)
(* odd ones have a fraction.                                               *)
(***************************************************************************)
EXTENDS Integers, Sequences, FiniteSets

CONSTANTS Exact,     \* 2^53
          IntLimit   \* 2^63
ASSUME ValuesAssumption == {Exact, IntLimit} \subseteq Nat \ {0} /\ Exact < IntLimit

VARIABLE json    \* the value that crosses
valueVars == <<json>>

IntMax == IntLimit - 1
IntMin == -IntLimit

int(n) == [is |-> "int", halves |-> 2 * n]
double(h) == [is |-> "double", halves |-> h]
Refused == [is |-> "refused", halves |-> 0]

\* The doubles: with a fraction below Exact, even integers above it.
Doubles == {h \in (2 * IntMin - 4)..(2 * IntMax + 4) :
              \/ h \in -(2 * Exact)..(2 * Exact)
              \/ h % 4 = 0}
\* as_f64 of an integer: to the nearest double, ties to the even one.
round(n) == IF 2 * n \in Doubles THEN n ELSE IF (n + 1) % 4 = 0 THEN n + 1 ELSE n - 1

\* json_to_prost of a number.  MAX_EXACT_INTEGER is 2^53 - 1.
MutUnchecked(v) == IF v.is = "double" THEN v ELSE double(2 * round(v.halves \div 2))
json_to_prost(v) ==
    IF v.is = "double" THEN v
    ELSE LET n == v.halves \div 2 IN
         IF n > Exact - 1 \/ -n > Exact - 1 THEN Refused ELSE double(v.halves)

\* prost_to_json of a number: an integral double in the integers' range becomes
\* an integer.  i64::MAX as f64 is 2^63, and the cast saturates there.
MutAlwaysInteger(p) == int(p.halves \div 2)
prost_to_json(p) ==
    IF p.halves % 2 = 0 /\ p.halves >= 2 * IntMin /\ p.halves <= 2 * (IntMax + 1)
    THEN int(IF p.halves \div 2 > IntMax THEN IntMax ELSE p.halves \div 2)
    ELSE p

ValueInit ==
    json \in {int(n) : n \in IntMin..IntMax} \cup {double(h) : h \in Doubles}

\* The value crosses, and what came back crosses again.
Cross ==
    /\ json_to_prost(json) # Refused
    /\ json' = prost_to_json(json_to_prost(json))

ValueSpec == ValueInit /\ [][Cross]_valueVars

-----------------------------------------------------------------------------
(* Properties. *)

Value(v) == v.halves

\* An integer or a double that crosses arrives as the same number, fractions
\* included, and one that would not is refused (json_to_prost).  The one
\* exception is the double 2^63, which comes back as the largest integer: the
\* range check of prost_to_json compares with i64::MAX rounded up.
CrossingKeepsValue ==
    LET p == json_to_prost(json) IN
    p = Refused \/ Value(prost_to_json(p)) = Value(json) \/ Value(json) = 2 * (IntMax + 1)
=============================================================================

----------------------------- MODULE GreatTree -----------------------------
(***************************************************************************)
(* The mechanics of the Great Tree example game (mechanics.rs, adapter.rs, *)
(* types.rs, bijection.rs): Crown lights limbs, Root opens roots, a hidden *)
(* bijection pairs them.  The operators are pure, as the code's are; the   *)
(* session that plays the game is HeadlessSession.                         *)
(***************************************************************************)
EXTENDS Integers, Sequences, SequencesExt

CONSTANTS
    Limb,        \* LimbId::ALL
    Root,        \* RootId::ALL
    Pairing,     \* the bijections a seed may generate: functions Limb -> Root
    HoldLimit,   \* limbs, and roots, that may be held at a time
    Bloom        \* flowering limbs that complete the game

ASSUME PairingAssumption ==
    \A b \in Pairing : b \in [Limb -> Root] /\ \A r \in Root : \E l \in Limb : b[l] = r
ASSUME TreeLimitsAssumption == HoldLimit \in Nat \ {0} /\ Bloom \in Nat

TreeRole == {"A", "B"}

\* generate and initial_state: one limb already flowers, its root already runs.
TreeInitial ==
    {[crown |-> c, sun |-> <<l>>, flow |-> <<b[l]>>,
      water |-> [x \in Limb |-> x = l], pair |-> b] :
         c \in TreeRole, l \in Limb, b \in Pairing}

\* GreatTreeAction: either gate may be set either way.
TreeActions ==
    [type : {"setSun"}, limb : Limb, lit : BOOLEAN]
        \cup [type : {"setFlow"}, root : Root, open : BOOLEAN]

Holds(seq, x) == \E i \in DOMAIN seq : seq[i] = x
Without(seq, x) == SelectSeq(seq, LAMBDA y : y # x)

limb_for_root(t, root) == CHOOSE l \in Limb : t.pair[l] = root
thawed(t, root) == Holds(t.sun, limb_for_root(t, root))
flowered(t, limb) == Holds(t.sun, limb) /\ t.water[limb]

\* Mutants: the limb dries but its root keeps running; the newest hold goes.
MutDryOnly(t, limb) == [t EXCEPT !.water[limb] = FALSE]

\* A limb that loses the sun closes its root and dries out.
force_close_paired_root(t, limb) ==
    [t EXCEPT !.flow = Without(t.flow, t.pair[limb]), !.water[limb] = FALSE]

apply_set_sun(t, limb, lit) ==
    IF lit = Holds(t.sun, limb) THEN t
    ELSE IF lit
         THEN LET full == Len(t.sun) = HoldLimit
                  u == IF full
                       THEN force_close_paired_root([t EXCEPT !.sun = Tail(t.sun)], Head(t.sun))
                       ELSE t
              IN  [u EXCEPT !.sun = Append(u.sun, limb)]
         ELSE force_close_paired_root([t EXCEPT !.sun = Without(t.sun, limb)], limb)

apply_set_flow(t, root, open) ==
    IF open = Holds(t.flow, root) THEN t
    ELSE IF open
         THEN LET full == Len(t.flow) = HoldLimit
                  u == IF full
                       THEN [t EXCEPT !.flow = Tail(t.flow),
                                      !.water[limb_for_root(t, Head(t.flow))] = FALSE]
                       ELSE t
              IN  [u EXCEPT !.flow = Append(u.flow, root),
                            !.water[limb_for_root(u, root)] = TRUE]
         ELSE [t EXCEPT !.flow = Without(t.flow, root),
                        !.water[limb_for_root(t, root)] = FALSE]

\* role_for_action: Crown sets the sun, the other seat the flow.
Owns(t, action, actor) == (action.type = "setSun") = (actor = t.crown)

\* Game::apply_action accepts; otherwise wrong_role or root_frozen.
TreeAccepts(t, action, actor) ==
    /\ Owns(t, action, actor)
    /\ action.type = "setFlow" /\ action.open =>
          Holds(t.flow, action.root) \/ thawed(t, action.root)

TreeApply(t, action) ==
    IF action.type = "setSun"
    THEN apply_set_sun(t, action.limb, action.lit)
    ELSE apply_set_flow(t, action.root, action.open)

\* observation: Crown sees limbs, Root sees roots, nobody the bijection.
TreeObservation(t, role) ==
    IF role = t.crown
    THEN [l \in Limb |-> [sun |-> Holds(t.sun, l), water |-> t.water[l]]]
    ELSE [r \in Root |-> [thawed |-> thawed(t, r), running |-> Holds(t.flow, r)]]

Flowers(t) == {l \in Limb : flowered(t, l)}
TreeComplete(t) == \E S \in SUBSET Flowers(t) : Cardinality(S) = Bloom
=============================================================================

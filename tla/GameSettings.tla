---------------------------- MODULE GameSettings ----------------------------
(***************************************************************************)
(* The settings shared by every experiment of a game: a row with a         *)
(* revision, and a copy in memory that every request reads.  An update     *)
(* (admin_update_game_settings) fills the fields left out of the request   *)
(* from the copy, one read at a time, commits against the revision its     *)
(* sender knew, and only then, under no common lock, writes the copy.      *)
(***************************************************************************)
EXTENDS Integers, FiniteSets

CONSTANTS Manager,       \* administrators who change settings at the same time
          Field,         \* the provider endpoints of the settings
          MaxUpdates,    \* bound: revisions
          MaxStops       \* bound: restarts of the process
ASSUME SettingsAssumption == MaxUpdates \in Nat \ {0} /\ MaxStops \in Nat /\ IsFiniteSet(Field)

VARIABLES inStore,    \* game_settings: revision, fields, provider secrets
          inMemory,   \* AppState::game_settings
          page,       \* the revision each administrator's page shows, 0 if none
          update,     \* an update by administrator
          stops
settingsVars == <<inStore, inMemory, page, update, stops>>

NoUpdate == [step |-> "idle", expected |-> 0, given |-> {}, values |-> [f \in Field |-> 0], read |-> {}, secret |-> FALSE]
Copy(row) == [revision |-> row.revision, values |-> row.values]

SettingsInit ==
    /\ inStore = [revision |-> 1, values |-> [f \in Field |-> 1], secret |-> 1]
    /\ inMemory = Copy(inStore) /\ page = [a \in Manager |-> 0]
    /\ update = [a \in Manager |-> NoUpdate] /\ stops = 0

\* admin_game_settings (and admin_experiment): answered from memory.
ShowSettings(a) ==
    /\ update[a].step = "idle" /\ page' = [page EXCEPT ![a] = inMemory.revision]
    /\ UNCHANGED <<inStore, inMemory, update, stops>>

\* The request: some fields, perhaps a provider secret, and the page's revision.
SendUpdate(a, fields) ==
    /\ update[a].step = "idle" /\ page[a] # 0 /\ inStore.revision < MaxUpdates
    /\ \E s \in BOOLEAN :
          update' = [update EXCEPT ![a] = [step |-> "filling", expected |-> page[a], given |-> fields,
                                           values |-> [f \in Field |-> page[a] + 1], read |-> fields, secret |-> s]]
    /\ UNCHANGED <<inStore, inMemory, page, stops>>

\* A field that is left out takes its present value; each read is an await.
MutStartValue(f) == 1
Present(f) == inMemory.values[f]
FillField(a, f) ==
    /\ update[a].step = "filling" /\ f \notin update[a].read
    /\ update' = [update EXCEPT ![a].values[f] = Present(f), ![a].read = @ \cup {f}]
    /\ UNCHANGED <<inStore, inMemory, page, stops>>

\* A value or a credential that does not validate: answered 400.
RefuseUpdate(a) ==
    /\ update[a].step = "filling" /\ update' = [update EXCEPT ![a] = NoUpdate]
    /\ UNCHANGED <<inStore, inMemory, page, stops>>

\* update_game_settings: one transaction, refused on another revision.
MutLastWins(a) == TRUE
Current(a) == inStore.revision = update[a].expected
CommitUpdate(a) ==
    /\ update[a].step = "filling" /\ update[a].read = Field
    /\ IF Current(a)
       THEN /\ inStore' = [revision |-> update[a].expected + 1, values |-> update[a].values,
                           secret |-> IF update[a].secret THEN update[a].expected + 1 ELSE inStore.secret]
            /\ update' = [update EXCEPT ![a].step = "committed"]
       ELSE inStore' = inStore /\ update' = [update EXCEPT ![a] = NoUpdate]
    /\ UNCHANGED <<inMemory, page, stops>>

\* The copy, then the answer with the new revision.  The eviction of inactive
\* runtimes in between is in ExperimentRuntime.
NewCopy(a) == [revision |-> update[a].expected + 1, values |-> update[a].values]
PublishUpdate(a) ==
    /\ update[a].step = "committed" /\ inMemory' = NewCopy(a)
    /\ page' = [page EXCEPT ![a] = update[a].expected + 1] /\ update' = [update EXCEPT ![a] = NoUpdate]
    /\ UNCHANGED <<inStore, stops>>

\* The process stops and starts again; the pages stay open.
StopAndStart ==
    /\ stops < MaxStops /\ stops' = stops + 1
    /\ inMemory' = Copy(inStore) /\ update' = [a \in Manager |-> NoUpdate]
    /\ UNCHANGED <<inStore, page>>

SettingsNext ==
    \/ StopAndStart
    \/ \E a \in Manager : ShowSettings(a) \/ RefuseUpdate(a) \/ CommitUpdate(a) \/ PublishUpdate(a)
    \/ \E a \in Manager, fields \in SUBSET Field : SendUpdate(a, fields)
    \/ \E a \in Manager, f \in Field : FillField(a, f)

SettingsSpec == SettingsInit /\ [][SettingsNext]_settingsVars

-----------------------------------------------------------------------------
(* Properties. *)

\* The copy is the row, or one update behind it while that one update is about
\* to write it: no two updates are ever between their commit and their write,
\* for a client learns a revision only after the copy shows it
\* (admin_update_game_settings writes the copy under no common lock).  So the
\* settings that requests see never go back to an earlier revision.
CopyFollowsRow ==
    LET late == {a \in Manager : update[a].step = "committed"} IN
    \/ late = {} /\ inMemory = Copy(inStore)
    \/ \E a \in Manager : late = {a} /\ NewCopy(a) = Copy(inStore) /\ inMemory.revision = inStore.revision - 1

\* A field left out of a request keeps its stored value, although it is filled
\* from memory before the commit and other updates may be committed meanwhile.
LeftOutIsKept ==
    [][\A a \in Manager, f \in Field :
          update[a].step = "filling" /\ update'[a].step = "committed" /\ f \notin update[a].given =>
              inStore'.values[f] = inStore.values[f]]_settingsVars
=============================================================================

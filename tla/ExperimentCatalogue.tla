------------------------ MODULE ExperimentCatalogue -------------------------
(***************************************************************************)
(* The catalogue of experiments: configuration documents with their        *)
(* immutable revisions, the secrets kept beside them, and the requests of  *)
(* several administrators that create, clone, edit and archive, against    *)
(* status changes that take no lock and a runtime that is built from three *)
(* separate reads.  What a runtime does with a revision is the subject of  *)
(* ExperimentRuntime.                                                      *)
(***************************************************************************)
EXTENDS Integers, Sequences, FiniteSets

CONSTANTS Admin,         \* administrators at work at the same time
          Experiment,    \* experiment ids
          Endpoint,      \* provider endpoints of the game settings
          MaxTexts       \* bound: documents ever written
ASSUME CatalogueAssumption ==
    MaxTexts \in Nat \ {0} /\ Endpoint # {} /\ IsFiniteSet(Experiment) /\ "build" \notin Admin

VARIABLES
    catalogue,  \* experiments by id: a set of at most one row
    revisions,  \* experiment_config_revisions, with the secrets of that time
    secretsOf,  \* experiment_secrets: the document their last change came with
    held,       \* who holds the experiment's build lock
    desk,       \* what an administrator has on the screen and has asked for
    build,      \* construction of a runtime: hydrated_experiment_config
    texts       \* documents written so far
catalogueVars == <<catalogue, revisions, secretsOf, held, desk, build, texts>>

\* A document: its text and the provider endpoint in it, {} when left out.
Document(t, u) == [text |-> t, url |-> u]
NoDocument == Document(0, {})
EmptyDesk == [step |-> "idle", on |-> {}, revision |-> 0, seen |-> NoDocument,
              draft |-> NoDocument, secret |-> FALSE]
NoBuild == [step |-> "idle", on |-> {}, revision |-> 0, secret |-> 0]

\* One experiment is there at the start: of the compiled game version, or of an
\* earlier one, which can be read and cloned but not edited.
CatalogueInit ==
    /\ \E e \in Experiment, u \in Endpoint, version \in {"current", "earlier"} :
          /\ catalogue = [x \in Experiment |-> IF x # e THEN {} ELSE
                             {[revision |-> 1, doc |-> Document(1, {u}), status |-> "inactive", version |-> version]}]
          /\ revisions = [x \in Experiment |-> IF x # e THEN << >> ELSE
                             << [doc |-> Document(1, {u}), secret |-> 0] >>]
    /\ secretsOf = [x \in Experiment |-> 0] /\ held = [x \in Experiment |-> {}]
    /\ desk = [a \in Admin |-> EmptyDesk] /\ build = NoBuild /\ texts = 1

\* apply_provider_endpoint_defaults: the game's endpoint where none is chosen.
WithDefaults(d, endpoint) == [d EXCEPT !.url = IF @ = {} THEN {endpoint} ELSE @]

-----------------------------------------------------------------------------
(* Creating and cloning.  The row and its first revision are one insert,    *)
(* which fails when the id is taken.                                       *)

\* admin_create_experiment up to the store: the document as sent or as started.
PrepareNew(a, u, endpoint) ==
    /\ desk[a].step = "idle" /\ texts < MaxTexts /\ texts' = texts + 1
    /\ desk' = [desk EXCEPT ![a] = [EmptyDesk EXCEPT !.step = "creating",
                                    !.draft = WithDefaults(Document(texts', u), endpoint)]]
    /\ UNCHANGED <<catalogue, revisions, secretsOf, held, build>>

\* admin_clone_experiment: the source's document, not its secrets.
PrepareClone(a, source) ==
    /\ desk[a].step = "idle"
    /\ \E r \in catalogue[source] :
          desk' = [desk EXCEPT ![a] = [EmptyDesk EXCEPT !.step = "creating", !.draft = r.doc]]
    /\ UNCHANGED <<catalogue, revisions, secretsOf, held, build, texts>>

\* create_experiment
MutTakesOver(e) == TRUE
IdIsFree(e) == catalogue[e] = {}
CreateExperiment(a, e) ==
    /\ desk[a].step = "creating" /\ desk' = [desk EXCEPT ![a] = EmptyDesk]
    /\ IF IdIsFree(e)
       THEN /\ catalogue' = [catalogue EXCEPT ![e] = {[revision |-> 1, doc |-> desk[a].draft, status |-> "inactive",
                                                      version |-> "current"]}]
            /\ revisions' = [revisions EXCEPT ![e] = Append(@, [doc |-> desk[a].draft, secret |-> 0])]
       ELSE UNCHANGED <<catalogue, revisions>>
    /\ UNCHANGED <<secretsOf, held, build, texts>>

-----------------------------------------------------------------------------
(* Editing.                                                                *)

\* admin_experiment_config
OpenEditor(a, e) ==
    /\ desk[a].step = "idle"
    /\ \E r \in catalogue[e] :
          desk' = [desk EXCEPT ![a] = [EmptyDesk EXCEPT !.step = "editing", !.on = {e}, !.revision = r.revision,
                                                        !.seen = r.doc]]
    /\ UNCHANGED <<catalogue, revisions, secretsOf, held, build, texts>>

\* admin_save_experiment_config under the build lock: status and game version
\* are checked, the endpoint completed, the document validated.
MutUnlocked(e) == TRUE
LockFree(e) == held[e] = {}
BeginSave(a, u, endpoint) ==
    /\ desk[a].step = "editing" /\ texts < MaxTexts
    /\ \E e \in desk[a].on : \E r \in catalogue[e] :
          /\ LockFree(e)
          /\ IF r.status = "inactive" /\ r.version = "current"
             THEN /\ held' = [held EXCEPT ![e] = {a}] /\ texts' = texts + 1
                  /\ \E s \in BOOLEAN :
                        desk' = [desk EXCEPT ![a].step = "saving", ![a].secret = s,
                                             ![a].draft = WithDefaults(Document(texts', u), endpoint)]
             ELSE desk' = [desk EXCEPT ![a] = EmptyDesk] /\ UNCHANGED <<held, texts>>
    /\ UNCHANGED <<catalogue, revisions, secretsOf, build>>

\* save_experiment_configuration: one transaction for the row, its revision and
\* the secrets, unless the revision or the status is not the expected one.  The
\* runtime is evicted and the lock released either way.
MutReadAgain(a, r) == r.revision
ExpectedRevision(a, r) == desk[a].revision
MutAnyStatus(a, r) == r.revision = ExpectedRevision(a, r)
Expected(a, r) == r.revision = ExpectedRevision(a, r) /\ r.status = "inactive"
CommitSave(a) ==
    LET d == desk[a].draft IN
    /\ desk[a].step = "saving" /\ desk' = [desk EXCEPT ![a] = EmptyDesk]
    /\ \E e \in desk[a].on : \E r \in catalogue[e] :
          /\ held' = [held EXCEPT ![e] = @ \ {a}]
          /\ IF Expected(a, r)
             THEN /\ catalogue' = [catalogue EXCEPT ![e] = {[r EXCEPT !.revision = ExpectedRevision(a, r) + 1, !.doc = d]}]
                  /\ secretsOf' = IF desk[a].secret THEN [secretsOf EXCEPT ![e] = d.text] ELSE secretsOf
                  /\ revisions' = [revisions EXCEPT ![e] = Append(@, [doc |-> d, secret |-> secretsOf'[e]])]
             ELSE UNCHANGED <<catalogue, revisions, secretsOf>>
    /\ UNCHANGED <<build, texts>>

\* A document that does not validate (game YAML, provider settings, a secret in
\* the game configuration, a malformed secret name) is refused and nothing kept.
RefuseSave(a) ==
    /\ desk[a].step = "saving" /\ desk' = [desk EXCEPT ![a] = EmptyDesk]
    /\ held' = [x \in Experiment |-> held[x] \ {a}]
    /\ UNCHANGED <<catalogue, revisions, secretsOf, build, texts>>

\* update_experiment_status takes no build lock; archive_experiment does.
ChangeStatus(e) ==
    /\ \E r \in catalogue[e], s \in {"inactive", "active"} :
          r.status # "archived" /\ r.status # s /\ catalogue' = [catalogue EXCEPT ![e] = {[r EXCEPT !.status = s]}]
    /\ UNCHANGED <<revisions, secretsOf, held, desk, build, texts>>
Archive(e) ==
    /\ held[e] = {}
    /\ \E r \in catalogue[e] :
          r.status = "inactive" /\ catalogue' = [catalogue EXCEPT ![e] = {[r EXCEPT !.status = "archived"]}]
    /\ UNCHANGED <<revisions, secretsOf, held, desk, build, texts>>

-----------------------------------------------------------------------------
(* hydrated_experiment_config under the build lock: the row first, then the *)
(* secrets.                                                                *)

BeginBuild(e) ==
    /\ build.step = "idle" /\ held[e] = {} /\ held' = [held EXCEPT ![e] = {"build"}]
    /\ \E r \in catalogue[e] : build' = [step |-> "row", on |-> {e}, revision |-> r.revision, secret |-> 0]
    /\ UNCHANGED <<catalogue, revisions, secretsOf, desk, texts>>
ReadSecrets ==
    /\ build.step = "row"
    /\ \E e \in build.on : build' = [build EXCEPT !.step = "built", !.secret = secretsOf[e]]
    /\ UNCHANGED <<catalogue, revisions, secretsOf, held, desk, texts>>
FinishBuild ==
    /\ build.step = "built" /\ build' = NoBuild
    /\ held' = [x \in Experiment |-> held[x] \ {"build"}]
    /\ UNCHANGED <<catalogue, revisions, secretsOf, desk, texts>>

CatalogueNext ==
    \/ ReadSecrets \/ FinishBuild
    \/ \E e \in Experiment : ChangeStatus(e) \/ Archive(e) \/ BeginBuild(e)
    \/ \E a \in Admin : CommitSave(a) \/ RefuseSave(a)
    \/ \E a \in Admin, e \in Experiment : PrepareClone(a, e) \/ CreateExperiment(a, e) \/ OpenEditor(a, e)
    \/ \E a \in Admin, endpoint \in Endpoint, u \in {{}} \cup {{x} : x \in Endpoint} :
          PrepareNew(a, u, endpoint) \/ BeginSave(a, u, endpoint)

CatalogueSpec == CatalogueInit /\ [][CatalogueNext]_catalogueVars

-----------------------------------------------------------------------------
(* Properties. *)

\* Nobody's edit is lost: the document a save replaces is the one its author
\* had on the screen, however many administrators edit at the same time
\* (expected_revision in save_experiment_configuration).
EditsBuildOnSeen ==
    [][\A a \in Admin, e \in Experiment :
          desk[a].step = "saving" /\ desk[a].on = {e} /\ catalogue'[e] # catalogue[e] /\ desk'[a] = EmptyDesk =>
              \A r \in catalogue[e] : r.doc = desk[a].seen]_catalogueVars

\* Between a start and the stop that follows no document changes, although a
\* start takes no lock and a save looks at the status long before it commits
\* (the status in the where clause of save_experiment_configuration).
RunningIsUnedited ==
    [][\A e \in Experiment : \A r \in catalogue[e] :
          r.status # "inactive" => \A n \in catalogue'[e] : n.doc = r.doc]_catalogueVars

\* The revisions are complete: one for every revision number up to the row's,
\* the last one the document and the secrets in force (create_experiment and
\* save_experiment_configuration).
RevisionsAreComplete ==
    \A e \in Experiment : \A r \in catalogue[e] :
        /\ Len(revisions[e]) = r.revision
        /\ revisions[e][r.revision] = [doc |-> r.doc, secret |-> secretsOf[e]]

\* A runtime is built from one revision: the secrets it read are those of the
\* document it read before them (lock_runtime_router_build around both).
BuiltFromOneRevision ==
    build.step = "built" => \A e \in build.on : revisions[e][build.revision].secret = build.secret
=============================================================================

--------------------------- MODULE ResearchProofs ---------------------------
(***************************************************************************)
(* Proofs about what surrounds the sessions: the catalogue of experiments, *)
(* the settings of games, the Prolific preflight and launch, the stored    *)
(* data with deletion and export, and the dashboard's liveness table.      *)
(* Each part has its inductive invariant; the theorems at the end are      *)
(* about the behaviours of all the parts.                                  *)
(***************************************************************************)
EXTENDS MCResearch, FiniteSetTheorems, WellFoundedInduction, TLAPS

-----------------------------------------------------------------------------
(* The catalogue *)

\* What the rows, the revisions and the screens hold.
Doc == [text : Nat, url : SUBSET Endpoint]
Revision == [doc : Doc, secret : Nat]
Row == [revision : Nat, doc : Doc, status : {"inactive", "active", "archived"}, version : {"current", "earlier"}]
Desk == [step : {"idle", "creating", "editing", "saving"}, on : SUBSET Experiment, revision : Nat, seen : Doc,
         draft : Doc, secret : BOOLEAN]
Build == [step : {"idle", "row", "built"}, on : SUBSET Experiment, revision : Nat, secret : Nat]
RowsTyped ==
    catalogue \in [Experiment -> SUBSET Row] /\ \A e \in Experiment : \A r, s \in catalogue[e] : r = s
HistoryTyped == revisions \in [Experiment -> Seq(Revision)] /\ secretsOf \in [Experiment -> Nat]
ScreensTyped ==
    /\ held \in [Experiment -> SUBSET (Admin \cup {"build"})]
    /\ desk \in [Admin -> Desk] /\ build \in Build /\ texts \in Nat
CatalogueTyped == RowsTyped /\ HistoryTyped /\ ScreensTyped

\* An id that is free has no history; the revisions are numbered without gaps.
HistoryIsWhole ==
    /\ \A e \in Experiment : catalogue[e] = {} => revisions[e] = <<>> /\ secretsOf[e] = 0
    /\ \A e \in Experiment : \A r \in catalogue[e] :
        /\ r.revision > 0 /\ Len(revisions[e]) = r.revision
        /\ revisions[e][r.revision] = [doc |-> r.doc, secret |-> secretsOf[e]]

\* An editor shows a revision that was stored.
SeenWasStored ==
    \A a \in Admin : desk[a].step \in {"editing", "saving"} =>
        \E e \in Experiment :
            /\ desk[a].on = {e} /\ desk[a].revision \in 1 .. Len(revisions[e])
            /\ revisions[e][desk[a].revision].doc = desk[a].seen

\* Who saves holds the lock, and so does a build, under which nobody saves.
LocksAreHeld ==
    /\ \A a \in Admin : desk[a].step = "saving" => \A e \in desk[a].on : held[e] = {a}
    /\ build.step # "idle" =>
        \E e \in Experiment :
            /\ build.on = {e} /\ held[e] = {"build"} /\ catalogue[e] # {}
            /\ \A r \in catalogue[e] : r.revision = build.revision
            /\ build.step = "built" => build.secret = secretsOf[e]

\* The inductive invariant of the catalogue.
CatalogueIInv == CatalogueTyped /\ HistoryIsWhole /\ SeenWasStored /\ LocksAreHeld

\* A document whose endpoint is filled in is a document.
LEMMA DefaultIsDoc ==
    ASSUME NEW t \in Nat, NEW u \in {{}} \cup {{x} : x \in Endpoint}, NEW endpoint \in Endpoint
    PROVE  WithDefaults(Document(t, u), endpoint) \in Doc
BY DEF WithDefaults, Document, Doc

\* An empty screen, and an idle build.
LEMMA EmptyIsTyped == EmptyDesk \in Desk /\ EmptyDesk.step = "idle" /\ NoBuild \in Build /\ NoBuild.step = "idle"
<1>1. NoDocument \in Doc
  BY DEF NoDocument, Document, Doc
<1>2. QED
  BY <1>1 DEF EmptyDesk, Desk, NoBuild, Build

\* What a list of revisions has after another one.
LEMMA RevisionAppended ==
    ASSUME NEW s \in Seq(Revision), NEW v \in Revision
    PROVE  /\ Append(s, v) \in Seq(Revision) /\ Len(Append(s, v)) = Len(s) + 1 /\ Len(s) \in Nat
           /\ Append(s, v)[Len(s) + 1] = v /\ \A i \in 1 .. Len(s) : Append(s, v)[i] = s[i]
<1> HIDE DEF Revision
<1>1. QED
  OBVIOUS

\* Steps of screens and documents: rows, revisions, secrets, locks and builds stay.
LEMMA ScreenStep ==
    ASSUME CatalogueIInv, UNCHANGED <<catalogue, revisions, secretsOf, held, build>>, texts' \in Nat,
           NEW a \in Admin, NEW d \in Desk, desk' = [desk EXCEPT ![a] = d], d.step # "saving",
           d.step = "editing" =>
               \E e \in Experiment : /\ d.on = {e} /\ d.revision \in 1 .. Len(revisions[e])
                                     /\ revisions[e][d.revision].doc = d.seen
    PROVE  CatalogueIInv'
<1>1. desk' \in [Admin -> Desk] /\ desk'[a] = d /\ \A b \in Admin : b # a => desk'[b] = desk[b]
  BY DEF CatalogueIInv, CatalogueTyped, ScreensTyped
<1>2. CatalogueTyped'
  BY <1>1 DEF CatalogueIInv, CatalogueTyped, RowsTyped, HistoryTyped, ScreensTyped
<1>3. HistoryIsWhole'
  BY DEF CatalogueIInv, HistoryIsWhole
<1>4. SeenWasStored'
  BY <1>1 DEF CatalogueIInv, SeenWasStored
<1>5. LocksAreHeld'
  BY <1>1 DEF CatalogueIInv, LocksAreHeld
<1>6. QED
  BY <1>2, <1>3, <1>4, <1>5 DEF CatalogueIInv

\* The catalogue, one step at a time.
LEMMA CatalogueStep ==
    ASSUME CatalogueIInv, CatalogueNext
    PROVE  CatalogueIInv'
<1>1. /\ RowsTyped /\ HistoryTyped /\ ScreensTyped /\ HistoryIsWhole /\ SeenWasStored /\ LocksAreHeld
      /\ texts \in Nat /\ "build" \notin Admin
  BY CatalogueAssumption DEF CatalogueIInv, CatalogueTyped, ScreensTyped
<1>2. \A a \in Admin : desk[a] \in Desk /\ desk[a].on \in SUBSET Experiment /\ desk[a].revision \in Nat
  BY <1>1 DEF ScreensTyped, Desk
<1>3. \A e \in Experiment : /\ catalogue[e] \in SUBSET Row /\ revisions[e] \in Seq(Revision) /\ Len(revisions[e]) \in Nat
                            /\ secretsOf[e] \in Nat /\ held[e] \in SUBSET (Admin \cup {"build"})
  <2>1. \A e \in Experiment : revisions[e] \in Seq(Revision) /\ secretsOf[e] \in Nat
    BY <1>1 DEF HistoryTyped
  <2>2. QED
    BY <1>1, <2>1 DEF RowsTyped, ScreensTyped
<1>4. UNCHANGED catalogue => RowsTyped'
  BY <1>1 DEF RowsTyped
<1>5. UNCHANGED <<revisions, secretsOf>> => HistoryTyped'
  BY <1>1 DEF HistoryTyped
<1>6. UNCHANGED <<catalogue, revisions, secretsOf>> => HistoryIsWhole'
  BY <1>1 DEF HistoryIsWhole
<1>7. ASSUME NEW a \in Admin, NEW endpoint \in Endpoint, NEW u \in {{}} \cup {{x} : x \in Endpoint},
             PrepareNew(a, u, endpoint)
      PROVE  CatalogueIInv'
  <2> DEFINE d == [EmptyDesk EXCEPT !.step = "creating", !.draft = WithDefaults(Document(texts', u), endpoint)]
  <2>1. texts' \in Nat /\ WithDefaults(Document(texts', u), endpoint) \in Doc
    BY <1>1, <1>7, DefaultIsDoc DEF PrepareNew
  <2>2. d \in Desk /\ d.step = "creating"
    BY <2>1, EmptyIsTyped DEF Desk
  <2>3. QED
    BY <1>7, <2>1, <2>2, ScreenStep DEF PrepareNew
<1>8. ASSUME NEW a \in Admin, NEW e \in Experiment, PrepareClone(a, e)
      PROVE  CatalogueIInv'
  <2>1. PICK r \in catalogue[e] : desk' = [desk EXCEPT ![a] = [EmptyDesk EXCEPT !.step = "creating", !.draft = r.doc]]
    BY <1>8 DEF PrepareClone
  <2> DEFINE d == [EmptyDesk EXCEPT !.step = "creating", !.draft = r.doc]
  <2>2. r.doc \in Doc
    BY <1>3 DEF Row
  <2>3. d \in Desk /\ d.step = "creating"
    BY <2>2, EmptyIsTyped DEF Desk
  <2>4. QED
    BY <1>1, <1>8, <2>1, <2>3, ScreenStep DEF PrepareClone
<1>9. ASSUME NEW a \in Admin, NEW e \in Experiment, OpenEditor(a, e)
      PROVE  CatalogueIInv'
  <2>1. PICK r \in catalogue[e] : desk' = [desk EXCEPT ![a] = [EmptyDesk EXCEPT !.step = "editing", !.on = {e},
                                                               !.revision = r.revision, !.seen = r.doc]]
    BY <1>9 DEF OpenEditor
  <2> DEFINE d == [EmptyDesk EXCEPT !.step = "editing", !.on = {e}, !.revision = r.revision, !.seen = r.doc]
  <2>2. r.doc \in Doc /\ r.revision \in Nat
    BY <1>3 DEF Row
  <2>3. d \in Desk /\ d.step = "editing" /\ d.on = {e} /\ d.revision = r.revision /\ d.seen = r.doc
    BY <2>2, EmptyIsTyped DEF Desk
  <2>4. d.revision \in 1 .. Len(revisions[e]) /\ revisions[e][d.revision].doc = d.seen
    <3>1. /\ r.revision > 0 /\ Len(revisions[e]) = r.revision
          /\ revisions[e][r.revision] = [doc |-> r.doc, secret |-> secretsOf[e]]
      BY <1>1 DEF HistoryIsWhole
    <3>2. QED
      BY <2>2, <2>3, <3>1
  <2> HIDE DEF d
  <2>5. QED
    BY <1>1, <1>9, <2>1, <2>3, <2>4, ScreenStep DEF OpenEditor, d
<1>10. ASSUME NEW a \in Admin, NEW e \in Experiment, CreateExperiment(a, e)
      PROVE  CatalogueIInv'
  <2>1. CASE ~IdIsFree(e)
    BY <1>1, <1>10, <2>1, EmptyIsTyped, ScreenStep DEF CreateExperiment
  <2>2. CASE IdIsFree(e)
    <3> DEFINE r == [revision |-> 1, doc |-> desk[a].draft, status |-> "inactive", version |-> "current"]
    <3> DEFINE v == [doc |-> desk[a].draft, secret |-> 0]
    <3>1. /\ catalogue' = [catalogue EXCEPT ![e] = {r}] /\ revisions' = [revisions EXCEPT ![e] = Append(@, v)]
          /\ desk' = [desk EXCEPT ![a] = EmptyDesk] /\ UNCHANGED <<secretsOf, held, build, texts>>
          /\ desk[a].step = "creating"
      BY <1>10, <2>2 DEF CreateExperiment
    <3>2. /\ desk[a].draft \in Doc /\ r \in Row /\ v \in Revision /\ r.revision = 1 /\ r.doc = v.doc
          /\ v = [doc |-> r.doc, secret |-> 0]
      BY <1>2 DEF Desk, Row, Revision
    <3> HIDE DEF r, v
    <3>3. catalogue[e] = {} /\ revisions[e] = <<>> /\ secretsOf[e] = 0 /\ Len(revisions[e]) = 0
      BY <1>1, <2>2 DEF IdIsFree, HistoryIsWhole
    <3>4. /\ catalogue' \in [Experiment -> SUBSET Row] /\ catalogue'[e] = {r}
          /\ \A x \in Experiment : x # e => catalogue'[x] = catalogue[x]
      BY <1>1, <3>1, <3>2 DEF RowsTyped
    <3>5. /\ revisions'[e] \in Seq(Revision) /\ Len(revisions'[e]) = 1 /\ revisions'[e][1] = v
          /\ \A x \in Experiment : x # e => revisions'[x] = revisions[x]
          /\ revisions' \in [Experiment -> Seq(Revision)]
      <4>1. Append(revisions[e], v) \in Seq(Revision) /\ Len(Append(revisions[e], v)) = 1 /\ Append(revisions[e], v)[1] = v
        BY <1>3, <3>2, <3>3, RevisionAppended
      <4>2. revisions'[e] = Append(revisions[e], v) /\ \A x \in Experiment : x # e => revisions'[x] = revisions[x]
        BY <1>1, <3>1 DEF HistoryTyped
      <4>3. revisions' \in [Experiment -> Seq(Revision)]
        <5> DEFINE T == Seq(Revision)
        <5>1. revisions \in [Experiment -> T] /\ Append(revisions[e], v) \in T
          BY <1>1, <4>1 DEF HistoryTyped
        <5> HIDE DEF T
        <5>2. revisions' \in [Experiment -> T]
          BY <3>1, <5>1
        <5>3. QED
          BY <5>2 DEF T
      <4>4. QED
        BY <4>1, <4>2, <4>3
    <3>6. desk' \in [Admin -> Desk] /\ desk'[a].step = "idle" /\ \A b \in Admin : b # a => desk'[b] = desk[b]
      BY <1>1, <3>1, EmptyIsTyped DEF ScreensTyped
    <3>7. CatalogueTyped'
      <4>1. RowsTyped'
        BY <1>1, <3>4 DEF RowsTyped
      <4>2. HistoryTyped'
        BY <1>1, <3>1, <3>5 DEF HistoryTyped
      <4>3. ScreensTyped'
        BY <1>1, <3>1, <3>6 DEF ScreensTyped
      <4>4. QED
        BY <4>1, <4>2, <4>3 DEF CatalogueTyped
    <3>8. HistoryIsWhole'
      <4>1. r.revision = 1 /\ revisions'[e][1] = [doc |-> r.doc, secret |-> secretsOf'[e]]
        BY <3>1, <3>2, <3>3, <3>5
      <4>2. QED
        BY <1>1, <3>1, <3>4, <3>5, <4>1 DEF HistoryIsWhole
    <3>9. SeenWasStored'
      <4>1. \A x \in Experiment : revisions[x] # <<>> => x # e
        BY <3>3
      <4>2. \A b \in Admin : desk[b].step \in {"editing", "saving"} => desk[b].on # {e}
        <5>1. SUFFICES ASSUME NEW b \in Admin, desk[b].step \in {"editing", "saving"}, desk[b].on = {e}
                       PROVE  FALSE
          OBVIOUS
        <5>2. PICK x \in Experiment : desk[b].on = {x} /\ desk[b].revision \in 1 .. Len(revisions[x])
          BY <1>1, <5>1 DEF SeenWasStored
        <5>3. x = e
          BY <5>1, <5>2
        <5>4. desk[b].revision \in 1 .. 0
          BY <3>3, <5>2, <5>3
        <5>5. QED
          BY <5>4
      <4>3. QED
        BY <1>1, <3>5, <3>6, <4>2 DEF SeenWasStored
    <3>10. LocksAreHeld'
      <4>1. \A b \in Admin : desk'[b].step = "saving" => desk'[b] = desk[b]
        BY <3>6
      <4>2. build.step # "idle" => build.on # {e}
        BY <1>1, <3>3 DEF LocksAreHeld
      <4>3. QED
        BY <1>1, <3>1, <3>4, <4>1, <4>2 DEF LocksAreHeld
    <3>11. QED
      BY <3>7, <3>8, <3>9, <3>10 DEF CatalogueIInv
  <2>3. QED
    BY <2>1, <2>2
<1>11. ASSUME NEW a \in Admin, NEW endpoint \in Endpoint, NEW u \in {{}} \cup {{x} : x \in Endpoint},
             BeginSave(a, u, endpoint)
      PROVE  CatalogueIInv'
  <2>1. PICK e \in desk[a].on : \E r \in catalogue[e] :
            /\ LockFree(e)
            /\ IF r.status = "inactive" /\ r.version = "current"
               THEN /\ held' = [held EXCEPT ![e] = {a}] /\ texts' = texts + 1
                    /\ \E s \in BOOLEAN :
                          desk' = [desk EXCEPT ![a].step = "saving", ![a].secret = s,
                                               ![a].draft = WithDefaults(Document(texts', u), endpoint)]
               ELSE desk' = [desk EXCEPT ![a] = EmptyDesk] /\ UNCHANGED <<held, texts>>
    BY <1>11 DEF BeginSave
  <2>2. PICK r \in catalogue[e] :
            /\ LockFree(e)
            /\ IF r.status = "inactive" /\ r.version = "current"
               THEN /\ held' = [held EXCEPT ![e] = {a}] /\ texts' = texts + 1
                    /\ \E s \in BOOLEAN :
                          desk' = [desk EXCEPT ![a].step = "saving", ![a].secret = s,
                                               ![a].draft = WithDefaults(Document(texts', u), endpoint)]
               ELSE desk' = [desk EXCEPT ![a] = EmptyDesk] /\ UNCHANGED <<held, texts>>
    BY <2>1
  <2>3. UNCHANGED <<catalogue, revisions, secretsOf, build>> /\ desk[a].step = "editing"
    BY <1>11 DEF BeginSave
  <2>4. CASE ~(r.status = "inactive" /\ r.version = "current")
    BY <1>1, <2>2, <2>3, <2>4, EmptyIsTyped, ScreenStep
  <2>5. CASE r.status = "inactive" /\ r.version = "current"
    <3>1. PICK s \in BOOLEAN : desk' = [desk EXCEPT ![a].step = "saving", ![a].secret = s,
                                        ![a].draft = WithDefaults(Document(texts', u), endpoint)]
      BY <2>2, <2>5
    <3>2. texts' \in Nat /\ WithDefaults(Document(texts', u), endpoint) \in Doc
      <4>1. texts' = texts + 1
        BY <2>2, <2>5
      <4>2. texts' \in Nat
        BY <1>1, <4>1
      <4>3. QED
        BY <4>2, DefaultIsDoc
    <3>3. e \in Experiment /\ desk[a].on = {e}
      BY <1>1, <2>1, <2>2, <2>3 DEF SeenWasStored
    <3>4. /\ desk' \in [Admin -> Desk] /\ desk'[a].step = "saving" /\ desk'[a].on = {e}
          /\ desk'[a].revision = desk[a].revision /\ desk'[a].seen = desk[a].seen
          /\ \A b \in Admin : b # a => desk'[b] = desk[b]
      <4> DEFINE x == WithDefaults(Document(texts', u), endpoint)
      <4>1. desk \in [Admin -> Desk] /\ x \in Doc /\ desk' = [desk EXCEPT ![a].step = "saving", ![a].secret = s, ![a].draft = x]
        BY <1>1, <3>1, <3>2 DEF ScreensTyped
      <4> HIDE DEF x
      <4>2. QED
        BY <3>3, <4>1 DEF Desk
    <3>5. held' \in [Experiment -> SUBSET (Admin \cup {"build"})] /\ held'[e] = {a} /\ held[e] = {}
          /\ \A y \in Experiment : y # e => held'[y] = held[y]
      <4>1. held' = [held EXCEPT ![e] = {a}] /\ held[e] = {}
        BY <2>2, <2>5 DEF LockFree
      <4>2. held \in [Experiment -> SUBSET (Admin \cup {"build"})]
        BY <1>1 DEF ScreensTyped
      <4>3. QED
        BY <3>3, <4>1, <4>2
    <3>6. CatalogueTyped'
      <4>1. ScreensTyped'
        BY <1>1, <2>3, <3>2, <3>4, <3>5 DEF ScreensTyped
      <4>2. QED
        BY <1>4, <1>5, <2>3, <4>1 DEF CatalogueTyped
    <3>7. HistoryIsWhole'
      BY <1>6, <2>3
    <3>8. SeenWasStored'
      BY <1>1, <2>3, <3>4 DEF SeenWasStored
    <3>9. LocksAreHeld'
      <4>1. \A b \in Admin : desk'[b].step = "saving" => \A x \in desk'[b].on : held'[x] = {b}
        <5> SUFFICES ASSUME NEW b \in Admin, desk'[b].step = "saving", NEW x \in desk'[b].on
                     PROVE  held'[x] = {b}
          OBVIOUS
        <5>1. CASE b = a
          BY <3>4, <3>5, <5>1
        <5>2. CASE b # a
          <6>1. desk'[b] = desk[b] /\ x \in Experiment /\ held[x] = {b}
            BY <1>1, <1>2, <3>4, <5>2 DEF LocksAreHeld
          <6>2. QED
            BY <3>5, <6>1
        <5>3. QED
          BY <5>1, <5>2
      <4>2. QED
        BY <1>1, <2>3, <3>5, <4>1 DEF LocksAreHeld
    <3>10. QED
      BY <3>6, <3>7, <3>8, <3>9 DEF CatalogueIInv
  <2>6. QED
    BY <2>4, <2>5
<1>12. ASSUME NEW a \in Admin, RefuseSave(a)
      PROVE  CatalogueIInv'
  <2>1. /\ desk[a].step = "saving" /\ desk' = [desk EXCEPT ![a] = EmptyDesk]
        /\ held' = [x \in Experiment |-> held[x] \ {a}] /\ UNCHANGED <<catalogue, revisions, secretsOf, build, texts>>
    BY <1>12 DEF RefuseSave
  <2>2. desk' \in [Admin -> Desk] /\ desk'[a].step = "idle" /\ \A b \in Admin : b # a => desk'[b] = desk[b]
    BY <1>1, <2>1, EmptyIsTyped DEF ScreensTyped
  <2>3. held' \in [Experiment -> SUBSET (Admin \cup {"build"})] /\ \A x \in Experiment : held'[x] = held[x] \ {a}
    BY <1>1, <2>1 DEF ScreensTyped
  <2>4. CatalogueTyped'
    <3>1. ScreensTyped'
      BY <1>1, <2>1, <2>2, <2>3 DEF ScreensTyped
    <3>2. QED
      BY <1>4, <1>5, <2>1, <3>1 DEF CatalogueTyped
  <2>5. HistoryIsWhole' /\ SeenWasStored'
    <3>1. SeenWasStored'
      BY <1>1, <2>1, <2>2 DEF SeenWasStored
    <3>2. QED
      BY <1>6, <2>1, <3>1
  <2>6. LocksAreHeld'
    <3>1. \A b \in Admin : desk'[b].step = "saving" => \A e \in desk'[b].on : held'[e] = {b}
      <4> SUFFICES ASSUME NEW b \in Admin, desk'[b].step = "saving", NEW e \in desk'[b].on
                   PROVE  held'[e] = {b}
        OBVIOUS
      <4>1. b # a /\ desk'[b] = desk[b] /\ e \in Experiment
        BY <1>2, <2>2
      <4>2. QED
        BY <1>1, <2>3, <4>1 DEF LocksAreHeld
    <3>2. QED
      BY <1>1, <2>1, <2>3, <3>1 DEF LocksAreHeld
  <2>7. QED
    BY <2>4, <2>5, <2>6 DEF CatalogueIInv
<1>13. ASSUME NEW e \in Experiment, ChangeStatus(e) \/ Archive(e)
       PROVE  CatalogueIInv'
  <2>1. PICK r \in catalogue[e], s \in {"inactive", "active", "archived"} :
            catalogue' = [catalogue EXCEPT ![e] = {[r EXCEPT !.status = s]}]
    BY <1>13 DEF ChangeStatus, Archive
  <2>2. UNCHANGED <<revisions, secretsOf, held, desk, build, texts>>
    BY <1>13 DEF ChangeStatus, Archive
  <2> DEFINE n == [r EXCEPT !.status = s]
  <2>3. n \in Row /\ n.revision = r.revision /\ n.doc = r.doc
    BY <1>3 DEF Row
  <2>4. catalogue' = [catalogue EXCEPT ![e] = {n}]
    BY <2>1
  <2> HIDE DEF n
  <2>5. /\ catalogue' \in [Experiment -> SUBSET Row] /\ catalogue'[e] = {n}
        /\ \A x \in Experiment : x # e => catalogue'[x] = catalogue[x]
    BY <1>1, <2>3, <2>4 DEF RowsTyped
  <2>6. CatalogueTyped'
    <3>1. RowsTyped'
      BY <1>1, <2>5 DEF RowsTyped
    <3>2. ScreensTyped'
      BY <1>1, <2>2 DEF ScreensTyped
    <3>3. QED
      BY <1>5, <2>2, <3>1, <3>2 DEF CatalogueTyped
  <2>7. HistoryIsWhole'
    BY <1>1, <2>2, <2>3, <2>5 DEF HistoryIsWhole
  <2>8. SeenWasStored'
    BY <1>1, <2>2 DEF SeenWasStored
  <2>9. LocksAreHeld'
    BY <1>1, <2>2, <2>3, <2>5 DEF LocksAreHeld
  <2>10. QED
    BY <2>6, <2>7, <2>8, <2>9 DEF CatalogueIInv
<1>14. ASSUME NEW e \in Experiment, BeginBuild(e)
       PROVE  CatalogueIInv'
  <2>1. PICK r \in catalogue[e] : build' = [step |-> "row", on |-> {e}, revision |-> r.revision, secret |-> 0]
    BY <1>14 DEF BeginBuild
  <2>2. /\ build.step = "idle" /\ held[e] = {} /\ held' = [held EXCEPT ![e] = {"build"}]
        /\ UNCHANGED <<catalogue, revisions, secretsOf, desk, texts>>
    BY <1>14 DEF BeginBuild
  <2>3. build' \in Build /\ build'.step = "row" /\ build'.on = {e} /\ build'.revision = r.revision
    BY <1>3, <2>1 DEF Build, Row
  <2>4. /\ held' \in [Experiment -> SUBSET (Admin \cup {"build"})] /\ held'[e] = {"build"}
        /\ \A x \in Experiment : x # e => held'[x] = held[x]
    BY <1>1, <2>2 DEF ScreensTyped
  <2>5. CatalogueTyped'
    <3>1. ScreensTyped'
      BY <1>1, <2>2, <2>3, <2>4 DEF ScreensTyped
    <3>2. QED
      BY <1>4, <1>5, <2>2, <3>1 DEF CatalogueTyped
  <2>6. HistoryIsWhole' /\ SeenWasStored'
    <3>1. SeenWasStored'
      BY <1>1, <2>2 DEF SeenWasStored
    <3>2. QED
      BY <1>6, <2>2, <3>1
  <2>7. LocksAreHeld'
    <3>1. \A q \in catalogue[e] : q.revision = build'.revision
      BY <1>1, <2>3 DEF RowsTyped
    <3>2. \A b \in Admin : desk[b].step = "saving" => e \notin desk[b].on /\ desk[b].on \subseteq Experiment
      BY <1>1, <1>2, <2>2 DEF LocksAreHeld
    <3>3. QED
      BY <1>1, <2>2, <2>3, <2>4, <3>1, <3>2 DEF LocksAreHeld
  <2>8. QED
    BY <2>5, <2>6, <2>7 DEF CatalogueIInv
<1>15. CASE ReadSecrets
  <2>1. PICK e \in build.on : build' = [build EXCEPT !.step = "built", !.secret = secretsOf[e]]
    BY <1>15 DEF ReadSecrets
  <2>2. build.step = "row" /\ UNCHANGED <<catalogue, revisions, secretsOf, held, desk, texts>>
    BY <1>15 DEF ReadSecrets
  <2>3. build \in Build /\ build.on = {e} /\ e \in Experiment
    BY <1>1, <2>1, <2>2 DEF ScreensTyped, LocksAreHeld
  <2>4. /\ build' \in Build /\ build'.on = {e} /\ build'.revision = build.revision /\ build'.step = "built"
        /\ build'.secret = secretsOf[e]
    BY <1>3, <2>1, <2>3 DEF Build
  <2>5. CatalogueTyped'
    <3>1. ScreensTyped'
      BY <1>1, <2>2, <2>4 DEF ScreensTyped
    <3>2. QED
      BY <1>4, <1>5, <2>2, <3>1 DEF CatalogueTyped
  <2>6. HistoryIsWhole' /\ SeenWasStored' /\ LocksAreHeld'
    <3>1. SeenWasStored'
      BY <1>1, <2>2 DEF SeenWasStored
    <3>2. LocksAreHeld'
      BY <1>1, <2>2, <2>3, <2>4 DEF LocksAreHeld
    <3>3. QED
      BY <1>6, <2>2, <3>1, <3>2
  <2>7. QED
    BY <2>5, <2>6 DEF CatalogueIInv
<1>16. CASE FinishBuild
  <2>1. /\ build' = NoBuild /\ held' = [x \in Experiment |-> held[x] \ {"build"}]
        /\ UNCHANGED <<catalogue, revisions, secretsOf, desk, texts>>
    BY <1>16 DEF FinishBuild
  <2>2. held' \in [Experiment -> SUBSET (Admin \cup {"build"})] /\ \A x \in Experiment : held'[x] = held[x] \ {"build"}
    BY <1>1, <2>1 DEF ScreensTyped
  <2>3. CatalogueTyped'
    <3>1. ScreensTyped'
      BY <1>1, <2>1, <2>2, EmptyIsTyped DEF ScreensTyped
    <3>2. QED
      BY <1>4, <1>5, <2>1, <3>1 DEF CatalogueTyped
  <2>4. HistoryIsWhole' /\ SeenWasStored'
    <3>1. SeenWasStored'
      BY <1>1, <2>1 DEF SeenWasStored
    <3>2. QED
      BY <1>6, <2>1, <3>1
  <2>5. LocksAreHeld'
    <3>1. \A b \in Admin : desk[b].step = "saving" => \A e \in desk[b].on : e \in Experiment /\ held[e] = {b} /\ b # "build"
      BY <1>1, <1>2 DEF LocksAreHeld
    <3>2. QED
      BY <2>1, <2>2, <3>1, EmptyIsTyped DEF LocksAreHeld
  <2>6. QED
    BY <2>3, <2>4, <2>5 DEF CatalogueIInv
<1>17. ASSUME NEW a \in Admin, CommitSave(a)
       PROVE  CatalogueIInv'
  <2> DEFINE d == desk[a].draft
  <2>1. PICK e \in desk[a].on : \E r \in catalogue[e] :
            /\ held' = [held EXCEPT ![e] = @ \ {a}]
            /\ IF Expected(a, r)
               THEN /\ catalogue' = [catalogue EXCEPT ![e] = {[r EXCEPT !.revision = ExpectedRevision(a, r) + 1, !.doc = d]}]
                    /\ secretsOf' = IF desk[a].secret THEN [secretsOf EXCEPT ![e] = d.text] ELSE secretsOf
                    /\ revisions' = [revisions EXCEPT ![e] = Append(@, [doc |-> d, secret |-> secretsOf'[e]])]
               ELSE UNCHANGED <<catalogue, revisions, secretsOf>>
    BY <1>17 DEF CommitSave
  <2>2. PICK r \in catalogue[e] :
            /\ held' = [held EXCEPT ![e] = @ \ {a}]
            /\ IF Expected(a, r)
               THEN /\ catalogue' = [catalogue EXCEPT ![e] = {[r EXCEPT !.revision = ExpectedRevision(a, r) + 1, !.doc = d]}]
                    /\ secretsOf' = IF desk[a].secret THEN [secretsOf EXCEPT ![e] = d.text] ELSE secretsOf
                    /\ revisions' = [revisions EXCEPT ![e] = Append(@, [doc |-> d, secret |-> secretsOf'[e]])]
               ELSE UNCHANGED <<catalogue, revisions, secretsOf>>
    BY <2>1
  <2>3. desk[a].step = "saving" /\ desk' = [desk EXCEPT ![a] = EmptyDesk] /\ UNCHANGED <<build, texts>>
    BY <1>17 DEF CommitSave
  <2>4. e \in Experiment /\ desk[a].on = {e} /\ held[e] = {a} /\ a # "build"
    BY <1>1, <2>1, <2>2, <2>3 DEF SeenWasStored, LocksAreHeld
  <2>5. desk' \in [Admin -> Desk] /\ desk'[a].step = "idle" /\ \A b \in Admin : b # a => desk'[b] = desk[b]
    BY <1>1, <2>3, EmptyIsTyped DEF ScreensTyped
  <2>6. /\ held' \in [Experiment -> SUBSET (Admin \cup {"build"})]
        /\ \A x \in Experiment : x # e => held'[x] = held[x]
    BY <1>1, <2>2, <2>4 DEF ScreensTyped
  <2>7. \A b \in Admin : desk'[b].step = "saving" => b # a /\ desk'[b] = desk[b] /\ e \notin desk[b].on
    <3>1. \A b \in Admin : desk[b].step = "saving" /\ e \in desk[b].on => b = a
      BY <1>1, <2>4 DEF LocksAreHeld
    <3>2. QED
      BY <2>5, <3>1
  <2>8. build.step # "idle" => build.on # {e}
    BY <1>1, <2>4 DEF LocksAreHeld
  <2>9. CASE ~Expected(a, r)
    <3>1. UNCHANGED <<catalogue, revisions, secretsOf>>
      BY <2>2, <2>9
    <3>2. ScreensTyped'
      BY <1>1, <2>3, <2>5, <2>6 DEF ScreensTyped
    <3>3. SeenWasStored'
      BY <1>1, <2>5, <3>1 DEF SeenWasStored
    <3>4. LocksAreHeld'
      BY <1>1, <1>2, <2>3, <2>5, <2>6, <2>7, <2>8, <3>1 DEF LocksAreHeld
    <3>5. QED
      BY <1>4, <1>5, <1>6, <3>1, <3>2, <3>3, <3>4 DEF CatalogueIInv, CatalogueTyped
  <2>10. CASE Expected(a, r)
    <3> DEFINE n == [r EXCEPT !.revision = ExpectedRevision(a, r) + 1, !.doc = d]
    <3> DEFINE v == [doc |-> d, secret |-> secretsOf'[e]]
    <3>1. d \in Doc /\ d.text \in Nat /\ r \in Row /\ desk[a].revision = r.revision /\ r.revision \in Nat
      <4>1. d \in Doc /\ d.text \in Nat
        BY <1>2 DEF Desk, Doc
      <4>2. r \in Row /\ r.revision \in Nat
        BY <1>3, <2>4, <2>2 DEF Row
      <4>3. QED
        BY <2>10, <4>1, <4>2 DEF Expected, ExpectedRevision
    <3>2. /\ secretsOf' \in [Experiment -> Nat] /\ \A x \in Experiment : x # e => secretsOf'[x] = secretsOf[x]
      BY <1>1, <2>2, <2>4, <2>10, <3>1 DEF HistoryTyped
    <3>3. catalogue' = [catalogue EXCEPT ![e] = {n}] /\ revisions' = [revisions EXCEPT ![e] = Append(@, v)]
      BY <2>2, <2>10
    <3>4. n \in Row /\ n.revision = r.revision + 1 /\ n.doc = d
      <4>1. n = [r EXCEPT !.revision = r.revision + 1, !.doc = d] /\ r.revision + 1 \in Nat
        BY <3>1 DEF ExpectedRevision
      <4> HIDE DEF n, d
      <4>2. QED
        BY <3>1, <4>1 DEF Row
    <3>5. v \in Revision /\ v = [doc |-> n.doc, secret |-> secretsOf'[e]]
      BY <2>4, <3>1, <3>2, <3>4 DEF Revision
    <3> HIDE DEF n, v, d
    <3>6. /\ catalogue' \in [Experiment -> SUBSET Row] /\ catalogue'[e] = {n}
          /\ \A x \in Experiment : x # e => catalogue'[x] = catalogue[x]
      BY <1>1, <2>4, <3>3, <3>4 DEF RowsTyped
    <3>7. Len(revisions[e]) = r.revision /\ r.revision > 0
      BY <1>1, <2>4 DEF HistoryIsWhole
    <3>8. /\ revisions'[e] \in Seq(Revision) /\ Len(revisions'[e]) = r.revision + 1 /\ revisions'[e][r.revision + 1] = v
          /\ \A i \in 1 .. r.revision : revisions'[e][i] = revisions[e][i]
          /\ \A x \in Experiment : x # e => revisions'[x] = revisions[x]
          /\ revisions' \in [Experiment -> Seq(Revision)]
      <4> DEFINE q == Append(revisions[e], v)
      <4>1. /\ q \in Seq(Revision) /\ Len(q) = r.revision + 1 /\ q[r.revision + 1] = v
            /\ \A i \in 1 .. r.revision : q[i] = revisions[e][i]
        BY <1>3, <2>4, <3>5, <3>7, RevisionAppended
      <4>2. revisions' = [revisions EXCEPT ![e] = q]
        BY <3>3
      <4> DEFINE T == Seq(Revision)
      <4>3. revisions \in [Experiment -> T] /\ q \in T
        BY <1>1, <4>1 DEF HistoryTyped
      <4> HIDE DEF q, T
      <4>4. revisions' \in [Experiment -> T] /\ revisions'[e] = q /\ \A x \in Experiment : x # e => revisions'[x] = revisions[x]
        BY <2>4, <4>2, <4>3
      <4>5. QED
        BY <4>1, <4>4 DEF T
    <3>9. CatalogueTyped'
      <4>1. RowsTyped'
        BY <1>1, <3>6 DEF RowsTyped
      <4>2. HistoryTyped'
        BY <3>2, <3>8 DEF HistoryTyped
      <4>3. ScreensTyped'
        BY <1>1, <2>3, <2>5, <2>6 DEF ScreensTyped
      <4>4. QED
        BY <4>1, <4>2, <4>3 DEF CatalogueTyped
    <3>10. HistoryIsWhole'
      <4>1. \A x \in Experiment : catalogue'[x] = {} => x # e
        BY <3>6
      <4>2. /\ n.revision > 0 /\ Len(revisions'[e]) = n.revision
            /\ revisions'[e][n.revision] = [doc |-> n.doc, secret |-> secretsOf'[e]]
        BY <3>1, <3>4, <3>5, <3>8
      <4>3. \A x \in Experiment : x # e => UNCHANGED <<catalogue[x], revisions[x], secretsOf[x]>>
        BY <3>2, <3>6, <3>8
      <4>4. \A x \in Experiment : catalogue'[x] = {} => revisions'[x] = <<>> /\ secretsOf'[x] = 0
        BY <1>1, <4>1, <4>3 DEF HistoryIsWhole
      <4>5. \A x \in Experiment : \A y \in catalogue'[x] :
              /\ y.revision > 0 /\ Len(revisions'[x]) = y.revision
              /\ revisions'[x][y.revision] = [doc |-> y.doc, secret |-> secretsOf'[x]]
        <5> SUFFICES ASSUME NEW x \in Experiment, NEW y \in catalogue'[x]
                     PROVE  /\ y.revision > 0 /\ Len(revisions'[x]) = y.revision
                            /\ revisions'[x][y.revision] = [doc |-> y.doc, secret |-> secretsOf'[x]]
          OBVIOUS
        <5>1. CASE x = e
          BY <3>6, <4>2, <5>1
        <5>2. CASE x # e
          BY <1>1, <4>3, <5>2 DEF HistoryIsWhole
        <5>3. QED
          BY <5>1, <5>2
      <4>6. QED
        BY <4>4, <4>5 DEF HistoryIsWhole
    <3>11. SeenWasStored'
      <4> SUFFICES ASSUME NEW b \in Admin, desk'[b].step \in {"editing", "saving"}
                   PROVE  \E x \in Experiment : /\ desk'[b].on = {x} /\ desk'[b].revision \in 1 .. Len(revisions'[x])
                                                /\ revisions'[x][desk'[b].revision].doc = desk'[b].seen
        BY DEF SeenWasStored
      <4>1. desk'[b] = desk[b]
        BY <2>5
      <4>2. PICK x \in Experiment : /\ desk[b].on = {x} /\ desk[b].revision \in 1 .. Len(revisions[x])
                                    /\ revisions[x][desk[b].revision].doc = desk[b].seen
        BY <1>1, <4>1 DEF SeenWasStored
      <4>3. desk[b].revision \in 1 .. Len(revisions'[x]) /\ revisions'[x][desk[b].revision] = revisions[x][desk[b].revision]
        BY <1>2, <3>1, <3>7, <3>8, <4>2
      <4>4. QED
        BY <4>1, <4>2, <4>3
    <3>12. LocksAreHeld'
      <4>1. \A b \in Admin : desk'[b].step = "saving" => \A x \in desk'[b].on : held'[x] = {b}
        BY <1>1, <1>2, <2>6, <2>7 DEF LocksAreHeld
      <4>2. QED
        BY <1>1, <2>3, <2>6, <2>8, <3>2, <3>6, <4>1 DEF LocksAreHeld
    <3>13. QED
      BY <3>9, <3>10, <3>11, <3>12 DEF CatalogueIInv
  <2>11. QED
    BY <2>9, <2>10
<1>18. QED
  BY <1>7, <1>8, <1>9, <1>10, <1>11, <1>12, <1>13, <1>14, <1>15, <1>16, <1>17 DEF CatalogueNext

\* It holds at first, and while nothing of the catalogue changes.
LEMMA CatalogueIsKept == CatalogueSpec => []CatalogueIInv
<1>1. CatalogueInit => CatalogueIInv
  <2> SUFFICES ASSUME CatalogueInit
               PROVE  CatalogueIInv
    OBVIOUS
  <2>1. PICK e \in Experiment, u \in Endpoint, version \in {"current", "earlier"} :
          /\ catalogue = [x \in Experiment |-> IF x # e THEN {} ELSE
                             {[revision |-> 1, doc |-> Document(1, {u}), status |-> "inactive", version |-> version]}]
          /\ revisions = [x \in Experiment |-> IF x # e THEN << >> ELSE
                             << [doc |-> Document(1, {u}), secret |-> 0] >>]
    BY DEF CatalogueInit
  <2>2. /\ secretsOf = [x \in Experiment |-> 0] /\ held = [x \in Experiment |-> {}]
        /\ desk = [a \in Admin |-> EmptyDesk] /\ build = NoBuild /\ texts = 1
    BY DEF CatalogueInit
  <2> DEFINE d == Document(1, {u})
  <2> DEFINE r == [revision |-> 1, doc |-> d, status |-> "inactive", version |-> version]
  <2> DEFINE v == [doc |-> d, secret |-> 0]
  <2>3. d \in Doc
    BY DEF Document, Doc
  <2>4. r \in Row /\ v \in Revision /\ r.revision = 1 /\ v = [doc |-> r.doc, secret |-> 0]
    BY <2>3 DEF Row, Revision
  <2>5. catalogue = [x \in Experiment |-> IF x # e THEN {} ELSE {r}] /\ revisions = [x \in Experiment |-> IF x # e THEN <<>> ELSE <<v>>]
    BY <2>1
  <2> HIDE DEF d, r, v
  <2>6. <<>> \in Seq(Revision) /\ <<v>> \in Seq(Revision) /\ Len(<<v>>) = 1 /\ <<v>>[1] = v
    BY <2>4
  <2>7. revisions \in [Experiment -> Seq(Revision)]
    BY <2>5, <2>6
  <2>8. CatalogueTyped
    <3>1. RowsTyped
      BY <2>4, <2>5 DEF RowsTyped
    <3>2. HistoryTyped
      BY <2>2, <2>7 DEF HistoryTyped
    <3>3. ScreensTyped
      BY <2>2, EmptyIsTyped DEF ScreensTyped
    <3>4. QED
      BY <3>1, <3>2, <3>3 DEF CatalogueTyped
  <2>9. HistoryIsWhole
    BY <2>2, <2>4, <2>5, <2>6 DEF HistoryIsWhole
  <2>10. SeenWasStored /\ LocksAreHeld
    BY <2>2, EmptyIsTyped DEF SeenWasStored, LocksAreHeld
  <2>11. QED
    BY <2>8, <2>9, <2>10 DEF CatalogueIInv
<1>2. CatalogueIInv /\ [CatalogueNext]_catalogueVars => CatalogueIInv'
  <2>1. ASSUME CatalogueIInv, UNCHANGED catalogueVars
        PROVE  CatalogueIInv'
    BY <2>1 DEF catalogueVars, CatalogueIInv, CatalogueTyped, RowsTyped, HistoryTyped, ScreensTyped,
                HistoryIsWhole, SeenWasStored, LocksAreHeld
  <2>2. QED
    BY <2>1, CatalogueStep
<1>3. QED
  BY <1>1, <1>2, PTL DEF CatalogueSpec

\* Documents, revisions and secrets agree, in the store and in a runtime built
\* from three reads of it (create_experiment, save_experiment_configuration,
\* lock_runtime_router_build).
LEMMA CatalogueHolds == CatalogueSpec => [](RevisionsAreComplete /\ BuiltFromOneRevision)
<1>1. ASSUME CatalogueIInv
      PROVE  RevisionsAreComplete /\ BuiltFromOneRevision
  <2>1. RevisionsAreComplete
    BY <1>1 DEF CatalogueIInv, HistoryIsWhole, RevisionsAreComplete
  <2>2. BuiltFromOneRevision
    <3> SUFFICES ASSUME build.step = "built", NEW e \in build.on
                 PROVE  revisions[e][build.revision].secret = build.secret
      BY DEF BuiltFromOneRevision
    <3>1. /\ e \in Experiment /\ catalogue[e] # {} /\ build.secret = secretsOf[e]
          /\ \A r \in catalogue[e] : r.revision = build.revision
      BY <1>1 DEF CatalogueIInv, LocksAreHeld
    <3>2. PICK r \in catalogue[e] : r.revision = build.revision
      BY <3>1
    <3>3. revisions[e][r.revision] = [doc |-> r.doc, secret |-> secretsOf[e]]
      BY <1>1, <3>1 DEF CatalogueIInv, HistoryIsWhole
    <3>4. QED
      BY <3>1, <3>2, <3>3
  <2>3. QED
    BY <2>1, <2>2
<1>2. QED
  BY <1>1, CatalogueIsKept, PTL

\* What a step does to the rows: a save replaces the row its author had on the
\* screen, of an experiment nobody runs; any other step keeps the documents.
LEMMA RowsStep ==
    ASSUME CatalogueIInv, CatalogueNext, NEW e \in Experiment, NEW r \in catalogue[e]
    PROVE  \/ catalogue'[e] = catalogue[e]
           \/ \E s \in {"inactive", "active", "archived"} : catalogue'[e] = {[r EXCEPT !.status = s]} /\ UNCHANGED desk
           \/ \E a \in Admin : /\ CommitSave(a) /\ r.status = "inactive" /\ r.revision = desk[a].revision
                               /\ desk[a].on = {e} /\ r.doc = desk[a].seen
                               /\ desk[a].step = "saving" /\ \A b \in Admin : b # a => desk'[b] = desk[b]
<1>1. RowsTyped /\ ScreensTyped /\ HistoryIsWhole /\ SeenWasStored
  BY DEF CatalogueIInv, CatalogueTyped
<1>2. \A q \in catalogue[e] : q = r
  BY <1>1 DEF RowsTyped
<1>3. ASSUME \/ ReadSecrets \/ FinishBuild \/ \E x \in Experiment : BeginBuild(x) \/ \E a \in Admin : RefuseSave(a)
             \/ \E a \in Admin, x \in Experiment : PrepareClone(a, x) \/ OpenEditor(a, x)
      PROVE  catalogue'[e] = catalogue[e]
  BY <1>3 DEF RefuseSave, PrepareClone, OpenEditor, BeginBuild, ReadSecrets, FinishBuild
<1>4. ASSUME NEW a \in Admin, NEW x \in Experiment, CreateExperiment(a, x)
      PROVE  catalogue'[e] = catalogue[e]
  <2>1. CASE x = e
    BY <1>4, <2>1 DEF CreateExperiment, IdIsFree
  <2>2. CASE x # e
    BY <1>1, <1>4, <2>2 DEF CreateExperiment, RowsTyped
  <2>3. QED
    BY <2>1, <2>2
<1>5. ASSUME NEW x \in Experiment, ChangeStatus(x) \/ Archive(x)
      PROVE  \/ catalogue'[e] = catalogue[e]
             \/ \E s \in {"inactive", "active", "archived"} : catalogue'[e] = {[r EXCEPT !.status = s]} /\ UNCHANGED desk
  <2>1. PICK q \in catalogue[x] : \E s \in {"inactive", "active", "archived"} :
            catalogue' = [catalogue EXCEPT ![x] = {[q EXCEPT !.status = s]}] /\ UNCHANGED desk
    BY <1>5 DEF ChangeStatus, Archive
  <2>2. CASE x = e
    BY <1>1, <1>2, <2>1, <2>2 DEF RowsTyped
  <2>3. CASE x # e
    BY <1>1, <2>1, <2>3 DEF RowsTyped
  <2>4. QED
    BY <2>2, <2>3
<1>6. ASSUME NEW a \in Admin, NEW endpoint \in Endpoint, NEW u \in {{}} \cup {{x} : x \in Endpoint},
             PrepareNew(a, u, endpoint) \/ BeginSave(a, u, endpoint)
      PROVE  catalogue'[e] = catalogue[e]
  BY <1>6 DEF PrepareNew, BeginSave
<1>7. ASSUME NEW a \in Admin, CommitSave(a)
      PROVE  \/ catalogue'[e] = catalogue[e]
             \/ /\ r.status = "inactive" /\ r.revision = desk[a].revision
                /\ desk[a].on = {e} /\ r.doc = desk[a].seen
                /\ desk[a].step = "saving" /\ \A b \in Admin : b # a => desk'[b] = desk[b]
  <2>1. desk[a].step = "saving" /\ desk' = [desk EXCEPT ![a] = EmptyDesk]
    BY <1>7 DEF CommitSave
  <2>2. PICK x \in Experiment : /\ desk[a].on = {x} /\ desk[a].revision \in 1 .. Len(revisions[x])
                                /\ revisions[x][desk[a].revision].doc = desk[a].seen
    BY <1>1, <2>1 DEF SeenWasStored
  <2>3. PICK q \in catalogue[x] :
            IF Expected(a, q)
            THEN catalogue' = [catalogue EXCEPT ![x] = {[q EXCEPT !.revision = ExpectedRevision(a, q) + 1, !.doc = desk[a].draft]}]
            ELSE UNCHANGED catalogue
    BY <1>7, <2>2 DEF CommitSave
  <2>4. CASE ~Expected(a, q)
    BY <2>3, <2>4
  <2>5. CASE Expected(a, q) /\ x # e
    BY <1>1, <2>3, <2>5 DEF RowsTyped
  <2>6. CASE Expected(a, q) /\ x = e
    <3>1. q = r /\ r.status = "inactive" /\ r.revision = desk[a].revision
      BY <1>2, <2>6 DEF Expected, ExpectedRevision
    <3>2. revisions[e][r.revision] = [doc |-> r.doc, secret |-> secretsOf[e]]
      BY <1>1 DEF HistoryIsWhole
    <3>3. r.doc = desk[a].seen
      BY <2>2, <2>6, <3>1, <3>2
    <3>4. \A b \in Admin : b # a => desk'[b] = desk[b]
      BY <1>1, <2>1 DEF ScreensTyped
    <3>5. QED
      BY <2>1, <2>2, <2>6, <3>1, <3>3, <3>4
  <2>7. QED
    BY <2>4, <2>5, <2>6
<1>8. QED
  BY <1>3, <1>4, <1>5, <1>6, <1>7 DEF CatalogueNext

\* Nobody's edit is lost, and a running experiment keeps its document.
LEMMA EditsAreKept == CatalogueSpec => EditsBuildOnSeen /\ RunningIsUnedited
<1> DEFINE Seen == \A a \in Admin, e \in Experiment :
          desk[a].step = "saving" /\ desk[a].on = {e} /\ catalogue'[e] # catalogue[e] /\ desk'[a] = EmptyDesk =>
              \A r \in catalogue[e] : r.doc = desk[a].seen
<1> DEFINE Unedited == \A e \in Experiment : \A r \in catalogue[e] :
          r.status # "inactive" => \A n \in catalogue'[e] : n.doc = r.doc
<1>1. ASSUME CatalogueIInv, CatalogueNext
      PROVE  Seen /\ Unedited
  <2>1. RowsTyped /\ HistoryIsWhole
    BY <1>1 DEF CatalogueIInv, CatalogueTyped
  <2>2. Seen
    <3> SUFFICES ASSUME NEW a \in Admin, NEW e \in Experiment, desk[a].step = "saving", desk[a].on = {e},
                        catalogue'[e] # catalogue[e], desk'[a] = EmptyDesk, NEW r \in catalogue[e]
                 PROVE  r.doc = desk[a].seen
      OBVIOUS
    <3>1. desk'[a] # desk[a]
      BY EmptyIsTyped
    <3>2. QED
      BY <1>1, <3>1, RowsStep
  <2>3. Unedited
    <3> SUFFICES ASSUME NEW e \in Experiment, NEW r \in catalogue[e], r.status # "inactive", NEW n \in catalogue'[e]
                 PROVE  n.doc = r.doc
      OBVIOUS
    <3>1. CASE catalogue'[e] = catalogue[e]
      BY <2>1, <3>1 DEF RowsTyped
    <3>2. ASSUME NEW s \in {"inactive", "active", "archived"}, catalogue'[e] = {[r EXCEPT !.status = s]}
          PROVE  n.doc = r.doc
      BY <2>1, <3>2 DEF RowsTyped, Row
    <3>3. QED
      BY <1>1, <3>1, <3>2, RowsStep
  <2>4. QED
    BY <2>2, <2>3
<1>2. ASSUME CatalogueIInv, UNCHANGED catalogueVars
      PROVE  Seen /\ Unedited
  <2>1. UNCHANGED <<catalogue, desk>> /\ RowsTyped
    BY <1>2 DEF catalogueVars, CatalogueIInv, CatalogueTyped
  <2>2. QED
    BY <2>1 DEF RowsTyped
<1>3. CatalogueIInv /\ [CatalogueNext]_catalogueVars => [Seen]_catalogueVars /\ [Unedited]_catalogueVars
  BY <1>1, <1>2
<1>4. QED
  BY <1>3, CatalogueIsKept, PTL DEF EditsBuildOnSeen, RunningIsUnedited, CatalogueSpec

-----------------------------------------------------------------------------
(* The settings of a game *)

\* The row, its copy in memory and a request.
Stored == [revision : Nat, values : [Field -> Nat], secret : Nat]
Copied == [revision : Nat, values : [Field -> Nat]]
Update == [step : {"idle", "filling", "committed"}, expected : Nat, given : SUBSET Field, values : [Field -> Nat],
           read : SUBSET Field, secret : BOOLEAN]
SettingsTyped ==
    /\ inStore \in Stored /\ inMemory \in Copied /\ page \in [Manager -> Nat] /\ update \in [Manager -> Update]

\* Nobody knows a revision the copy does not show, and a copy that shows the
\* expected revision gave the fields that were left out.
RequestsAreBehind ==
    /\ \A a \in Manager : page[a] <= inMemory.revision
    /\ \A a \in Manager : update[a].step = "filling" =>
          /\ update[a].expected <= inMemory.revision
          /\ update[a].expected = inStore.revision =>
                \A f \in update[a].read \ update[a].given : update[a].values[f] = inStore.values[f]

\* The inductive invariant of the settings.
SettingsIInv == SettingsTyped /\ RequestsAreBehind /\ CopyFollowsRow

\* The copy is never ahead of the row.
LEMMA CopyIsBehind ==
    ASSUME SettingsIInv
    PROVE  /\ inMemory.revision \in Nat /\ inStore.revision \in Nat /\ inMemory.revision <= inStore.revision
           /\ inMemory.revision = inStore.revision =>
                inMemory.values = inStore.values /\ \A a \in Manager : update[a].step # "committed"
           /\ \A a \in Manager : update[a].step = "committed" =>
                 /\ inStore.revision = update[a].expected + 1 /\ inStore.values = update[a].values
                 /\ inMemory.revision = update[a].expected /\ \A b \in Manager : update[b].step = "committed" => b = a
<1> DEFINE late == {a \in Manager : update[a].step = "committed"}
<1>1. inMemory.revision \in Nat /\ inStore.revision \in Nat /\ \A a \in Manager : update[a].expected \in Nat
  BY DEF SettingsIInv, SettingsTyped, Stored, Copied, Update
<1>2. CASE late = {} /\ inMemory = Copy(inStore)
  BY <1>1, <1>2 DEF Copy
<1>3. CASE \E a \in Manager : late = {a} /\ NewCopy(a) = Copy(inStore) /\ inMemory.revision = inStore.revision - 1
  <2>1. PICK a \in Manager : late = {a} /\ NewCopy(a) = Copy(inStore) /\ inMemory.revision = inStore.revision - 1
    BY <1>3
  <2>2. inStore.revision = update[a].expected + 1 /\ inStore.values = update[a].values
    BY <2>1 DEF NewCopy, Copy
  <2>3. \A b \in Manager : update[b].step = "committed" => b = a
    BY <2>1
  <2>4. QED
    BY <1>1, <2>1, <2>2, <2>3
<1>4. QED
  BY <1>2, <1>3 DEF SettingsIInv, CopyFollowsRow

\* The copy agrees when nobody is about to write it, or the one who is knows the row.
LEMMA CopyAgrees ==
    /\ (\A a \in Manager : update[a].step # "committed") /\ inMemory = Copy(inStore) => CopyFollowsRow
    /\ \A a \in Manager :
          /\ update[a].step = "committed" /\ \A b \in Manager : update[b].step = "committed" => b = a
          /\ NewCopy(a) = Copy(inStore) /\ inMemory.revision = inStore.revision - 1
          => CopyFollowsRow
<1>1. (\A a \in Manager : update[a].step # "committed") => {a \in Manager : update[a].step = "committed"} = {}
  OBVIOUS
<1>2. \A a \in Manager : update[a].step = "committed" /\ (\A b \in Manager : update[b].step = "committed" => b = a)
          => {b \in Manager : update[b].step = "committed"} = {a}
  OBVIOUS
<1>3. QED
  BY <1>1, <1>2 DEF CopyFollowsRow

\* The settings, one step at a time.
LEMMA SettingsStep ==
    ASSUME SettingsIInv, SettingsNext
    PROVE  SettingsIInv'
<1>1. SettingsTyped /\ RequestsAreBehind /\ CopyFollowsRow
  BY DEF SettingsIInv
<1>2. \A a \in Manager : /\ update[a] \in Update /\ page[a] \in Nat /\ update[a].expected \in Nat
                         /\ update[a].values \in [Field -> Nat]
  BY <1>1 DEF SettingsTyped, Update
<1>3. /\ inStore.revision \in Nat /\ inStore.values \in [Field -> Nat] /\ inStore.secret \in Nat
      /\ inMemory.revision \in Nat /\ inMemory.values \in [Field -> Nat] /\ inStore \in Stored /\ inMemory \in Copied
  BY <1>1 DEF SettingsTyped, Stored, Copied
<1>4. NoUpdate \in Update /\ NoUpdate.step = "idle"
  BY DEF NoUpdate, Update
<1>5. Copy(inStore) \in Copied /\ Copy(inStore).revision = inStore.revision /\ Copy(inStore).values = inStore.values
  BY <1>3 DEF Copy, Copied
<1>6. ASSUME NEW a \in Manager, ShowSettings(a)
      PROVE  SettingsIInv'
  <2>1. page' = [page EXCEPT ![a] = inMemory.revision] /\ UNCHANGED <<inStore, inMemory, update>>
    BY <1>6 DEF ShowSettings
  <2>2. page' \in [Manager -> Nat] /\ \A b \in Manager : page'[b] <= inMemory.revision
    BY <1>1, <1>3, <2>1 DEF SettingsTyped, RequestsAreBehind
  <2>3. QED
    BY <1>1, <2>1, <2>2 DEF SettingsIInv, SettingsTyped, RequestsAreBehind, CopyFollowsRow, NewCopy
<1>7. ASSUME NEW a \in Manager, NEW fields \in SUBSET Field, SendUpdate(a, fields)
      PROVE  SettingsIInv'
  <2>1. PICK s \in BOOLEAN :
          update' = [update EXCEPT ![a] = [step |-> "filling", expected |-> page[a], given |-> fields,
                                           values |-> [f \in Field |-> page[a] + 1], read |-> fields, secret |-> s]]
    BY <1>7 DEF SendUpdate
  <2> DEFINE x == [step |-> "filling", expected |-> page[a], given |-> fields,
                   values |-> [f \in Field |-> page[a] + 1], read |-> fields, secret |-> s]
  <2>2. x \in Update /\ x.step = "filling" /\ x.expected = page[a] /\ x.read \ x.given = {}
    <3>1. [f \in Field |-> page[a] + 1] \in [Field -> Nat]
      BY <1>2
    <3>2. QED
      BY <1>2, <3>1 DEF Update
  <2>3. update' = [update EXCEPT ![a] = x] /\ update[a].step = "idle" /\ UNCHANGED <<inStore, inMemory, page>>
    BY <1>7, <2>1 DEF SendUpdate
  <2> HIDE DEF x
  <2>4. update' \in [Manager -> Update] /\ update'[a] = x /\ \A b \in Manager : b # a => update'[b] = update[b]
    BY <1>1, <2>2, <2>3 DEF SettingsTyped
  <2>5. SettingsTyped' /\ RequestsAreBehind'
    BY <1>1, <2>2, <2>3, <2>4 DEF SettingsTyped, RequestsAreBehind
  <2>6. CopyFollowsRow'
    BY <1>1, <2>2, <2>3, <2>4 DEF CopyFollowsRow, NewCopy
  <2>7. QED
    BY <2>5, <2>6 DEF SettingsIInv
<1>8. ASSUME NEW a \in Manager, NEW f \in Field, FillField(a, f)
      PROVE  SettingsIInv'
  <2>1. /\ update[a].step = "filling" /\ UNCHANGED <<inStore, inMemory, page>>
        /\ update' = [update EXCEPT ![a].values[f] = inMemory.values[f], ![a].read = @ \cup {f}]
    BY <1>8 DEF FillField, Present
  <2>2. inMemory.values[f] \in Nat
    BY <1>3
  <2>3. /\ update' \in [Manager -> Update] /\ \A b \in Manager : b # a => update'[b] = update[b]
        /\ update'[a].step = "filling" /\ update'[a].expected = update[a].expected /\ update'[a].given = update[a].given
        /\ update'[a].read = update[a].read \cup {f} /\ update'[a].values[f] = inMemory.values[f]
        /\ \A g \in Field : g # f => update'[a].values[g] = update[a].values[g]
    <3> DEFINE v == inMemory.values[f]
    <3> DEFINE x == [update[a] EXCEPT !.values[f] = v, !.read = @ \cup {f}]
    <3>1. update' = [update EXCEPT ![a] = x]
      BY <1>1, <2>1 DEF SettingsTyped
    <3> HIDE DEF v
    <3>2. v \in Nat
      BY <2>2 DEF v
    <3>3. /\ x \in Update /\ x.step = update[a].step /\ x.expected = update[a].expected /\ x.given = update[a].given
          /\ x.read = update[a].read \cup {f} /\ x.values[f] = v
          /\ \A g \in Field : g # f => x.values[g] = update[a].values[g]
      BY <1>2, <3>2 DEF Update
    <3> HIDE DEF x
    <3>4. update' \in [Manager -> Update] /\ update'[a] = x /\ \A b \in Manager : b # a => update'[b] = update[b]
      BY <1>1, <3>1, <3>3 DEF SettingsTyped
    <3>5. QED
      BY <2>1, <3>3, <3>4 DEF v
  <2>4. SettingsTyped'
    BY <1>1, <2>1, <2>3 DEF SettingsTyped
  <2>5. \A b \in Manager : page'[b] <= inMemory'.revision
    BY <1>1, <2>1 DEF RequestsAreBehind
  <2>6. /\ update'[a].expected <= inMemory.revision
        /\ update'[a].expected = inStore.revision =>
              \A g \in update'[a].read \ update'[a].given : update'[a].values[g] = inStore.values[g]
    <3>1. /\ update[a].expected <= inMemory.revision
          /\ update[a].expected = inStore.revision =>
                \A g \in update[a].read \ update[a].given : update[a].values[g] = inStore.values[g]
      BY <1>1, <2>1 DEF RequestsAreBehind
    <3>2. update[a].expected = inStore.revision => inMemory.values = inStore.values
      BY <1>2, <1>3, <3>1, CopyIsBehind
    <3>3. update'[a].read \subseteq Field
      BY <2>3 DEF Update
    <3>4. QED
      BY <2>3, <3>1, <3>2, <3>3
  <2>7. RequestsAreBehind'
    BY <1>1, <2>1, <2>3, <2>5, <2>6 DEF RequestsAreBehind
  <2>8. CopyFollowsRow'
    <3>1. \A b \in Manager : update'[b].step = update[b].step /\ (update[b].step = "committed" => update'[b] = update[b])
      BY <2>1, <2>3
    <3>2. \A b \in Manager : update[b].step = "committed" => NewCopy(b)' = NewCopy(b)
      BY <3>1 DEF NewCopy
    <3>3. {b \in Manager : update'[b].step = "committed"} = {b \in Manager : update[b].step = "committed"}
      BY <3>1
    <3>4. QED
      BY <1>1, <2>1, <3>2, <3>3 DEF CopyFollowsRow
  <2>9. QED
    BY <2>4, <2>7, <2>8 DEF SettingsIInv
<1>9. ASSUME NEW a \in Manager, update[a].step = "filling", update' = [update EXCEPT ![a] = NoUpdate],
             UNCHANGED <<inStore, inMemory, page>>
      PROVE  SettingsIInv'
  <2>1. update' \in [Manager -> Update] /\ update'[a] = NoUpdate /\ \A b \in Manager : b # a => update'[b] = update[b]
    BY <1>1, <1>4, <1>9 DEF SettingsTyped
  <2>2. SettingsTyped' /\ RequestsAreBehind'
    BY <1>1, <1>4, <1>9, <2>1 DEF SettingsTyped, RequestsAreBehind
  <2>3. CopyFollowsRow'
    <3>1. \A b \in Manager : update[b].step = "committed" => b # a /\ update'[b] = update[b] /\ NewCopy(b)' = NewCopy(b)
      BY <1>9, <2>1 DEF NewCopy
    <3>2. {b \in Manager : update'[b].step = "committed"} = {b \in Manager : update[b].step = "committed"}
      BY <1>4, <1>9, <2>1
    <3>3. QED
      BY <1>1, <1>9, <3>1, <3>2 DEF CopyFollowsRow
  <2>4. QED
    BY <2>2, <2>3 DEF SettingsIInv
<1>10. ASSUME NEW a \in Manager, CommitUpdate(a)
       PROVE  SettingsIInv'
  <2>1. CASE ~Current(a)
    BY <1>9, <1>10, <2>1 DEF CommitUpdate
  <2>2. CASE Current(a)
    <3> DEFINE q == update[a].expected
    <3>1. /\ update[a].step = "filling" /\ inStore.revision = q /\ UNCHANGED <<inMemory, page>>
          /\ inStore' = [revision |-> q + 1, values |-> update[a].values,
                         secret |-> IF update[a].secret THEN q + 1 ELSE inStore.secret]
          /\ update' = [update EXCEPT ![a].step = "committed"]
      BY <1>10, <2>2 DEF CommitUpdate, Current
    <3>2. q \in Nat /\ q <= inMemory.revision
      BY <1>1, <1>2, <3>1 DEF RequestsAreBehind
    <3>3. inMemory.revision = q /\ \A b \in Manager : update[b].step # "committed"
      BY <3>1, <3>2, CopyIsBehind
    <3>4. /\ update' \in [Manager -> Update] /\ \A b \in Manager : b # a => update'[b] = update[b]
          /\ update'[a].step = "committed" /\ update'[a].expected = q /\ update'[a].values = update[a].values
      <4> DEFINE x == [update[a] EXCEPT !.step = "committed"]
      <4>1. update' = [update EXCEPT ![a] = x]
        BY <1>1, <3>1 DEF SettingsTyped
      <4>2. x \in Update /\ x.step = "committed" /\ x.expected = update[a].expected /\ x.values = update[a].values
        BY <1>2 DEF Update
      <4> HIDE DEF x
      <4>3. QED
        BY <1>1, <4>1, <4>2 DEF SettingsTyped
    <3>5. inStore' \in Stored /\ inStore'.revision = q + 1 /\ inStore'.values = update[a].values
      BY <1>2, <1>3, <3>1, <3>2 DEF Stored
    <3>6. SettingsTyped'
      BY <1>1, <3>1, <3>4, <3>5 DEF SettingsTyped
    <3>7. RequestsAreBehind'
      <4>1. \A b \in Manager : update'[b].step = "filling" => b # a /\ update[b].expected # q + 1 /\ update[b].expected <= inMemory.revision
        <5>1. \A b \in Manager : update[b].step = "filling" => update[b].expected <= inMemory.revision
          BY <1>1 DEF RequestsAreBehind
        <5>2. QED
          BY <1>2, <3>2, <3>3, <3>4, <5>1
      <4>2. QED
        BY <1>1, <3>1, <3>4, <3>5, <4>1 DEF RequestsAreBehind
    <3>8. CopyFollowsRow'
      <4>1. NewCopy(a)' = Copy(inStore)'
        BY <3>4, <3>5 DEF NewCopy, Copy
      <4>2. inMemory'.revision = inStore'.revision - 1
        BY <3>1, <3>2, <3>3, <3>5
      <4>3. \A b \in Manager : update'[b].step = "committed" => b = a
        BY <3>3, <3>4
      <4>4. {b \in Manager : update'[b].step = "committed"} = {a}
        BY <3>4, <4>3
      <4>5. QED
        BY <4>1, <4>2, <4>4 DEF CopyFollowsRow
    <3>9. QED
      BY <3>6, <3>7, <3>8 DEF SettingsIInv
  <2>3. QED
    BY <2>1, <2>2
<1>11. ASSUME NEW a \in Manager, PublishUpdate(a)
       PROVE  SettingsIInv'
  <2> DEFINE q == update[a].expected
  <2>1. /\ update[a].step = "committed" /\ inMemory' = NewCopy(a) /\ page' = [page EXCEPT ![a] = q + 1]
        /\ update' = [update EXCEPT ![a] = NoUpdate] /\ UNCHANGED inStore
    BY <1>11 DEF PublishUpdate
  <2>2. /\ inStore.revision = q + 1 /\ inMemory.revision = q /\ q \in Nat /\ NewCopy(a) = Copy(inStore)
        /\ \A b \in Manager : update[b].step = "committed" => b = a
    BY <1>2, <2>1, CopyIsBehind DEF NewCopy, Copy
  <2>3. update' \in [Manager -> Update] /\ update'[a] = NoUpdate /\ \A b \in Manager : b # a => update'[b] = update[b]
    BY <1>1, <1>4, <2>1 DEF SettingsTyped
  <2>4. page' \in [Manager -> Nat] /\ \A b \in Manager : page'[b] <= q + 1
    <3>1. \A b \in Manager : page[b] \in Nat /\ page[b] <= q
      BY <1>1, <1>2, <2>2 DEF RequestsAreBehind
    <3>2. page' \in [Manager -> Nat] /\ page'[a] = q + 1 /\ \A b \in Manager : b # a => page'[b] = page[b]
      BY <1>1, <2>1, <2>2 DEF SettingsTyped
    <3>3. QED
      BY <2>2, <3>1, <3>2
  <2>5. inMemory' \in Copied /\ inMemory'.revision = q + 1
    BY <1>5, <2>1, <2>2
  <2>6. SettingsTyped'
    BY <1>1, <2>1, <2>3, <2>4, <2>5 DEF SettingsTyped
  <2>7. RequestsAreBehind'
    <3>1. \A b \in Manager : update'[b].step = "filling" => update'[b] = update[b] /\ update[b].expected <= q + 1
      <4>1. \A b \in Manager : update[b].step = "filling" => update[b].expected <= q
        BY <1>1, <2>2 DEF RequestsAreBehind
      <4>2. QED
        BY <1>2, <1>4, <2>2, <2>3, <4>1
    <3>2. QED
      BY <1>1, <2>1, <2>4, <2>5, <3>1 DEF RequestsAreBehind
  <2>8. CopyFollowsRow'
    <3>1. {b \in Manager : update'[b].step = "committed"} = {}
      BY <1>4, <2>2, <2>3
    <3>2. QED
      BY <2>1, <2>2, <3>1 DEF CopyFollowsRow, Copy
  <2>9. QED
    BY <2>6, <2>7, <2>8 DEF SettingsIInv
<1>12. CASE StopAndStart
  <2>1. inMemory' = Copy(inStore) /\ update' = [a \in Manager |-> NoUpdate] /\ UNCHANGED <<inStore, page>>
    BY <1>12 DEF StopAndStart
  <2>2. \A a \in Manager : update'[a] = NoUpdate
    BY <2>1
  <2>3. inMemory' \in Copied /\ inMemory'.revision = inStore.revision
    BY <1>5, <2>1
  <2>4. SettingsTyped'
    BY <1>1, <1>4, <2>1, <2>3 DEF SettingsTyped
  <2>5. \A a \in Manager : page[a] <= inStore.revision
    <3>1. \A a \in Manager : page[a] <= inMemory.revision
      BY <1>1 DEF RequestsAreBehind
    <3>2. QED
      BY <1>2, <3>1, CopyIsBehind
  <2>6. RequestsAreBehind'
    BY <1>4, <2>1, <2>2, <2>3, <2>5 DEF RequestsAreBehind
  <2>7. CopyFollowsRow'
    <3>1. {a \in Manager : update'[a].step = "committed"} = {}
      BY <1>4, <2>2
    <3>2. QED
      BY <2>1, <3>1 DEF CopyFollowsRow, Copy
  <2>8. QED
    BY <2>4, <2>6, <2>7 DEF SettingsIInv
<1>13. ASSUME NEW a \in Manager, RefuseUpdate(a)
       PROVE  SettingsIInv'
  BY <1>9, <1>13 DEF RefuseUpdate
<1>14. QED
  BY <1>6, <1>7, <1>8, <1>10, <1>11, <1>12, <1>13 DEF SettingsNext

\* It holds at first, and while nothing of the settings changes.
LEMMA SettingsAreKept == SettingsSpec => []SettingsIInv
<1>1. SettingsInit => SettingsIInv
  <2> SUFFICES ASSUME SettingsInit
               PROVE  SettingsIInv
    OBVIOUS
  <2> DEFINE v == [f \in Field |-> 1]
  <2>1. v \in [Field -> Nat] /\ inStore = [revision |-> 1, values |-> v, secret |-> 1]
    BY DEF SettingsInit
  <2> HIDE DEF v
  <2>2. inStore \in Stored /\ inStore.revision = 1 /\ inStore.values = v
    BY <2>1 DEF Stored
  <2>3. inMemory = Copy(inStore) /\ inMemory \in Copied /\ inMemory.revision = 1
    BY <2>1, <2>2 DEF SettingsInit, Copy, Copied
  <2>4. NoUpdate \in Update /\ NoUpdate.step = "idle"
    BY DEF NoUpdate, Update
  <2>5. page = [a \in Manager |-> 0] /\ update = [a \in Manager |-> NoUpdate]
    BY DEF SettingsInit
  <2>6. {a \in Manager : update[a].step = "committed"} = {}
    BY <2>4, <2>5
  <2>7. QED
    BY <2>2, <2>3, <2>4, <2>5, <2>6 DEF SettingsIInv, SettingsTyped, RequestsAreBehind, CopyFollowsRow
<1>2. SettingsIInv /\ [SettingsNext]_settingsVars => SettingsIInv'
  <2>1. ASSUME SettingsIInv, UNCHANGED settingsVars
        PROVE  SettingsIInv'
    BY <2>1 DEF settingsVars, SettingsIInv, SettingsTyped, RequestsAreBehind, CopyFollowsRow, NewCopy, Copy
  <2>2. QED
    BY <2>1, SettingsStep
<1>3. QED
  BY <1>1, <1>2, PTL DEF SettingsSpec

\* A field that is left out keeps its stored value (admin_update_game_settings).
LEMMA LeftOutStays == SettingsSpec => []CopyFollowsRow /\ LeftOutIsKept
<1> DEFINE Left == \A a \in Manager, f \in Field :
          update[a].step = "filling" /\ update'[a].step = "committed" /\ f \notin update[a].given =>
              inStore'.values[f] = inStore.values[f]
<1>1. ASSUME SettingsIInv, [SettingsNext]_settingsVars
      PROVE  Left
  <2> SUFFICES ASSUME NEW a \in Manager, NEW f \in Field, update[a].step = "filling", update'[a].step = "committed",
                      f \notin update[a].given
               PROVE  inStore'.values[f] = inStore.values[f]
    OBVIOUS
  <2>1. SettingsTyped
    BY <1>1 DEF SettingsIInv
  <2>2. CASE UNCHANGED <<update>> \/ UNCHANGED <<inStore>>
    BY <2>2
  <2>3. ASSUME NEW b \in Manager, CommitUpdate(b), ~UNCHANGED inStore
        PROVE  inStore'.values[f] = inStore.values[f]
    <3>1. /\ inStore.revision = update[b].expected /\ inStore'.values = update[b].values /\ update[b].read = Field
          /\ update' = [update EXCEPT ![b].step = "committed"] /\ update[b].step = "filling"
      BY <2>3 DEF CommitUpdate, Current
    <3>2. b = a
      BY <2>1, <3>1 DEF SettingsTyped
    <3>3. QED
      BY <1>1, <3>1, <3>2 DEF SettingsIInv, RequestsAreBehind
  <2>4. CASE ~\E b \in Manager : CommitUpdate(b)
    <3>1. UNCHANGED inStore
      BY <1>1, <2>4 DEF SettingsNext, settingsVars, StopAndStart, ShowSettings, RefuseUpdate, PublishUpdate, SendUpdate, FillField
    <3>2. QED
      BY <3>1
  <2>5. QED
    BY <2>2, <2>3, <2>4
<1>2. SettingsIInv => CopyFollowsRow
  BY DEF SettingsIInv
<1>3. SettingsIInv /\ [SettingsNext]_settingsVars => [Left]_settingsVars
  BY <1>1
<1>4. QED
  BY <1>2, <1>3, SettingsAreKept, PTL DEF LeftOutIsKept, SettingsSpec

-----------------------------------------------------------------------------
(* The preflight *)

\* A check under way is answered on its own inputs and in time; what a start has
\* been told is on the inputs it read; a verdict is as old as the request that
\* brought it.
CheckIsTrue(a) ==
    /\ asking[a] = [step |-> asking[a].step, link |-> asking[a].link, since |-> asking[a].since, answer |-> asking[a].answer]
    /\ asking[a].since \in Nat /\ asking[a].since <= tick
    /\ asking[a].step = "asked" =>
          /\ tick <= asking[a].since + FetchLimit
          /\ \A v \in asking[a].answer : /\ v.asOf \in Nat /\ v.link = asking[a].link
                                         /\ asking[a].since <= v.asOf /\ v.asOf <= tick
    /\ asking[a].step = "told" =>
          \A v \in asking[a].answer : /\ v.asOf \in Nat /\ v.link = asking[a].link
                                      /\ asking[a].since <= v.asOf + CacheLife + FetchLimit
ChecksAreTrue ==
    /\ tick \in Nat /\ asking = [a \in Asker |-> asking[a]]
    /\ \A a \in Asker : CheckIsTrue(a)
    /\ \A v \in verdicts : v.asOf \in Nat /\ v.at \in Nat /\ v.at <= v.asOf + FetchLimit

\* One check changes, the others and the verdicts stay.
LEMMA CheckChanges ==
    ASSUME ChecksAreTrue, NEW a \in Asker, NEW c, asking' = [asking EXCEPT ![a] = c],
           UNCHANGED tick, CheckIsTrue(a)',
           \A v \in verdicts' : v.asOf \in Nat /\ v.at \in Nat /\ v.at <= v.asOf + FetchLimit
    PROVE  ChecksAreTrue'
<1>1. \A b \in Asker : b # a => asking'[b] = asking[b]
  BY DEF ChecksAreTrue
<1>2. asking' = [b \in Asker |-> asking'[b]]
  BY DEF ChecksAreTrue
<1>3. \A b \in Asker : b # a => CheckIsTrue(b)'
  BY <1>1 DEF ChecksAreTrue, CheckIsTrue
<1>4. QED
  BY <1>2, <1>3 DEF ChecksAreTrue

\* The preflight, one step at a time.
LEMMA PreflightStep ==
    ASSUME ChecksAreTrue, PreflightNext
    PROVE  ChecksAreTrue'
<1>1. CacheLife \in Nat /\ FetchLimit \in Nat /\ tick \in Nat
  BY PreflightAssumption DEF ChecksAreTrue
<1>2. \A v \in verdicts : v.asOf \in Nat /\ v.at \in Nat /\ v.at <= v.asOf + FetchLimit
  BY DEF ChecksAreTrue
<1>3. CASE Tick
  <2>1. tick' = tick + 1 /\ UNCHANGED <<verdicts, asking>> /\ InTime
    BY <1>3 DEF Tick
  <2>2. ASSUME NEW a \in Asker
        PROVE  CheckIsTrue(a)'
    <3>1. CheckIsTrue(a) /\ (asking[a].step = "asked" => tick < asking[a].since + FetchLimit)
      BY <2>1 DEF ChecksAreTrue, InTime
    <3>2. asking[a].since \in Nat
      BY <3>1 DEF CheckIsTrue
    <3>3. asking[a].step = "asked" => tick + 1 <= asking[a].since + FetchLimit
      BY <1>1, <3>1, <3>2
    <3>4. \A n \in Nat : n <= tick => n <= tick + 1
      BY <1>1
    <3>5. QED
      BY <2>1, <3>1, <3>3, <3>4 DEF CheckIsTrue
  <2>3. QED
    BY <1>1, <2>1, <2>2 DEF ChecksAreTrue
<1>4. CASE EditStudy \/ Stop
  BY <1>4 DEF EditStudy, Stop, ChecksAreTrue, CheckIsTrue
<1>5. ASSUME NEW a \in Asker, NEW l, asking' = Ask(a, l), UNCHANGED <<tick, verdicts>>
      PROVE  ChecksAreTrue'
  <2>1. asking' = [asking EXCEPT ![a] = [step |-> "asked", link |-> l, since |-> tick, answer |-> {}]]
    BY <1>5 DEF Ask
  <2>2. asking'[a] = [step |-> "asked", link |-> l, since |-> tick, answer |-> {}]
    BY <2>1 DEF ChecksAreTrue
  <2>3. CheckIsTrue(a)'
    BY <1>1, <1>5, <2>2 DEF CheckIsTrue
  <2>4. QED
    BY <1>2, <1>5, <2>1, <2>3, CheckChanges
<1>6. CASE BeginStart
  <2>1. UNCHANGED <<tick, verdicts>> /\ "start" \in Asker
    BY <1>6 DEF BeginStart, Asker
  <2>2. CASE Reusable(link) = {}
    BY <1>5, <1>6, <2>1, <2>2 DEF BeginStart
  <2>3. CASE Reusable(link) # {}
    <3>1. asking' = [asking EXCEPT !["start"] = [step |-> "told", link |-> link, since |-> tick, answer |-> Reusable(link)]]
      BY <1>6, <2>3 DEF BeginStart
    <3>2. asking'["start"] = [step |-> "told", link |-> link, since |-> tick, answer |-> Reusable(link)]
      BY <2>1, <3>1 DEF ChecksAreTrue
    <3>3. \A v \in Reusable(link) : v.asOf \in Nat /\ v.link = link /\ tick <= v.asOf + CacheLife + FetchLimit
      <4> SUFFICES ASSUME NEW v \in Reusable(link)
                   PROVE  v.asOf \in Nat /\ v.link = link /\ tick <= v.asOf + CacheLife + FetchLimit
        OBVIOUS
      <4>1. v \in verdicts /\ v.link = link /\ tick < v.at + CacheLife
        BY DEF Reusable
      <4>2. v.asOf \in Nat /\ v.at \in Nat /\ v.at <= v.asOf + FetchLimit
        BY <1>2, <4>1
      <4>3. QED
        BY <1>1, <4>1, <4>2
    <3>4. CheckIsTrue("start")'
      BY <1>1, <2>1, <3>2, <3>3 DEF CheckIsTrue
    <3>5. QED
      BY <1>2, <2>1, <3>1, <3>4, CheckChanges
  <2>4. QED
    BY <2>2, <2>3
<1>7. CASE BeginRefresh \/ \E l \in Links : SaveLink(l)
  BY <1>5, <1>7 DEF BeginRefresh, SaveLink, Asker
<1>8. ASSUME NEW a \in Asker, Answer(a)
      PROVE  ChecksAreTrue'
  <2>1. PICK v \in {Verdict(asking[a].link), Failed(asking[a].link)} : asking' = [asking EXCEPT ![a].answer = {v}]
    BY <1>8 DEF Answer
  <2>2. asking[a].step = "asked" /\ UNCHANGED <<tick, verdicts>> /\ v.link = asking[a].link /\ v.asOf = tick
    BY <1>8 DEF Answer, Verdict, Failed
  <2>3. CheckIsTrue(a)
    BY DEF ChecksAreTrue
  <2>4. asking'[a] = [asking[a] EXCEPT !.answer = {v}]
    BY <2>1 DEF ChecksAreTrue
  <2>5. asking'[a] = [step |-> asking[a].step, link |-> asking[a].link, since |-> asking[a].since, answer |-> {v}]
    BY <2>3, <2>4 DEF CheckIsTrue
  <2>6. CheckIsTrue(a)'
    BY <1>1, <2>2, <2>3, <2>5 DEF CheckIsTrue
  <2>7. asking' = [asking EXCEPT ![a] = [asking[a] EXCEPT !.answer = {v}]]
    BY <2>1 DEF ChecksAreTrue
  <2>8. QED
    BY <1>2, <2>2, <2>6, <2>7, CheckChanges
<1>9. ASSUME NEW a \in Asker, Deliver(a)
      PROVE  ChecksAreTrue'
  <2>1. /\ asking[a].step = "asked" /\ UNCHANGED tick
        /\ verdicts' = {[link |-> v.link, flaws |-> v.flaws, asOf |-> v.asOf, at |-> tick] : v \in asking[a].answer}
        /\ asking' = [asking EXCEPT ![a] = IF a = "start" THEN [asking[a] EXCEPT !.step = "told"] ELSE NoCheck]
    BY <1>9 DEF Deliver
  <2>2. CheckIsTrue(a)
    BY DEF ChecksAreTrue
  <2>3. /\ asking[a].since \in Nat /\ asking[a].since <= tick /\ tick <= asking[a].since + FetchLimit
        /\ \A v \in asking[a].answer : v.asOf \in Nat /\ v.link = asking[a].link /\ asking[a].since <= v.asOf
    BY <2>1, <2>2 DEF CheckIsTrue
  <2>4. \A w \in verdicts' : w.asOf \in Nat /\ w.at \in Nat /\ w.at <= w.asOf + FetchLimit
    <3>1. \A v \in asking[a].answer : tick <= v.asOf + FetchLimit
      BY <1>1, <2>3
    <3>2. QED
      BY <1>1, <2>1, <2>3, <3>1
  <2>5. CheckIsTrue(a)'
    <3>1. CASE a = "start"
      <4>1. asking'[a] = [asking[a] EXCEPT !.step = "told"]
        BY <2>1, <3>1 DEF ChecksAreTrue
      <4>2. asking'[a] = [step |-> "told", link |-> asking[a].link, since |-> asking[a].since, answer |-> asking[a].answer]
        BY <2>2, <4>1 DEF CheckIsTrue
      <4>3. \A v \in asking[a].answer : asking[a].since <= v.asOf + CacheLife + FetchLimit
        BY <1>1, <2>3
      <4>4. QED
        BY <2>1, <2>3, <4>2, <4>3 DEF CheckIsTrue
    <3>2. CASE a # "start"
      <4>1. asking'[a] = NoCheck
        BY <2>1, <3>2 DEF ChecksAreTrue
      <4>2. QED
        BY <1>1, <2>1, <4>1 DEF CheckIsTrue, NoCheck
    <3>3. QED
      BY <3>1, <3>2
  <2>6. QED
    BY <2>1, <2>4, <2>5, CheckChanges
<1>10. CASE FinishStart
  <2>1. asking' = [asking EXCEPT !["start"] = NoCheck] /\ UNCHANGED <<tick, verdicts>> /\ "start" \in Asker
    BY <1>10 DEF FinishStart, Asker
  <2>2. asking'["start"] = NoCheck
    BY <2>1 DEF ChecksAreTrue
  <2>3. asking'["start"] = [step |-> "idle", link |-> 0, since |-> 0, answer |-> {}] /\ tick' \in Nat /\ 0 <= tick'
    BY <1>1, <2>1, <2>2 DEF NoCheck
  <2>4. CheckIsTrue("start")'
    BY <2>3 DEF CheckIsTrue
  <2>5. QED
    BY <1>2, <2>1, <2>4, CheckChanges
<1>11. QED
  BY <1>3, <1>4, <1>6, <1>7, <1>8, <1>9, <1>10 DEF PreflightNext

\* A start is on a recent verdict about its own inputs
\* (cached_prolific_activation_preflight, experiment_activation_issues).
LEMMA StartsAreVerified == PreflightSpec => StartIsVerified
<1> DEFINE Verified == intake = "inactive" /\ intake' = "active" =>
          \A v \in asking["start"].answer :
              /\ v.flaws = {} /\ v.link = asking["start"].link
              /\ asking["start"].since <= v.asOf + CacheLife + FetchLimit
<1>1. PreflightInit => ChecksAreTrue
  BY DEF PreflightInit, ChecksAreTrue, CheckIsTrue, NoCheck
<1>2. ChecksAreTrue /\ [PreflightNext]_preflightVars => ChecksAreTrue'
  <2>1. ASSUME ChecksAreTrue, UNCHANGED preflightVars
        PROVE  ChecksAreTrue'
    BY <2>1 DEF preflightVars, ChecksAreTrue, CheckIsTrue
  <2>2. QED
    BY <2>1, PreflightStep
<1>3. ChecksAreTrue /\ [PreflightNext]_preflightVars => [Verified]_preflightVars
  <2> SUFFICES ASSUME ChecksAreTrue, PreflightNext, intake = "inactive", intake' = "active"
               PROVE  Verified
    BY DEF preflightVars
  <2>1. FinishStart
    BY DEF PreflightNext, Tick, EditStudy, BeginStart, BeginRefresh, Stop, SaveLink, Answer, Deliver
  <2>2. asking["start"].step = "told" /\ \A v \in asking["start"].answer : v.flaws = {}
    BY <2>1 DEF FinishStart, Startable, Clean
  <2>3. QED
    BY <2>2 DEF ChecksAreTrue, CheckIsTrue, Asker
<1>4. QED
  BY <1>1, <1>2, <1>3, PTL DEF PreflightSpec, StartIsVerified

-----------------------------------------------------------------------------
(* The launch *)

\* Keys in the cache were fetched no later than they were replaced; a launch is
\* of one submission.
KeysAreDated ==
    /\ hour \in Nat /\ hour <= MaxHour /\ signing \in 1..MaxKey
    /\ withdrawn \in [1..MaxKey -> Nat] /\ \A k \in 1..MaxKey : k >= signing => withdrawn[k] = MaxHour
    /\ \A c \in keyCache : c.at \in Nat /\ c.at <= hour /\ c.key \in 1..MaxKey /\ c.at <= withdrawn[c.key]
LaunchesAreSingle ==
    /\ launch = [t \in LaunchTab |-> launch[t]]
    /\ \A t \in LaunchTab : launch[t] = [step |-> launch[t].step, who |-> launch[t].who, key |-> launch[t].key]
    /\ \A t \in LaunchTab : \A p, q \in launch[t].who : p = q
LaunchIInv == KeysAreDated /\ LaunchesAreSingle /\ OneRowPerSubmission

\* One launch changes.
LEMMA LaunchChanges ==
    ASSUME LaunchesAreSingle, NEW t \in LaunchTab, NEW x, launch' = [launch EXCEPT ![t] = x],
           x = [step |-> x.step, who |-> x.who, key |-> x.key], \A p, q \in x.who : p = q
    PROVE  LaunchesAreSingle' /\ launch'[t] = x /\ \A s \in LaunchTab : s # t => launch'[s] = launch[s]
<1>1. launch'[t] = x /\ \A s \in LaunchTab : s # t => launch'[s] = launch[s]
  BY DEF LaunchesAreSingle
<1>2. launch' = [s \in LaunchTab |-> launch'[s]]
  BY DEF LaunchesAreSingle
<1>3. QED
  BY <1>1, <1>2 DEF LaunchesAreSingle

\* Its step changes.
LEMMA LaunchAdvances ==
    ASSUME LaunchesAreSingle, NEW t \in LaunchTab, NEW step, launch' = [launch EXCEPT ![t].step = step]
    PROVE  /\ LaunchesAreSingle' /\ launch'[t].step = step /\ launch'[t].key = launch[t].key
           /\ \A s \in LaunchTab : s # t => launch'[s] = launch[s]
<1> DEFINE x == [launch[t] EXCEPT !.step = step]
<1>1. launch' = [launch EXCEPT ![t] = x]
  BY DEF LaunchesAreSingle
<1>2. x = [step |-> step, who |-> launch[t].who, key |-> launch[t].key]
  BY DEF LaunchesAreSingle
<1> HIDE DEF x
<1>3. /\ x = [step |-> x.step, who |-> x.who, key |-> x.key]
      /\ x.step = step /\ x.who = launch[t].who /\ x.key = launch[t].key
  BY <1>2
<1>4. \A p, q \in x.who : p = q
  BY <1>3 DEF LaunchesAreSingle
<1>5. LaunchesAreSingle' /\ launch'[t] = x /\ \A s \in LaunchTab : s # t => launch'[s] = launch[s]
  BY <1>1, <1>3, <1>4, LaunchChanges
<1>6. QED
  BY <1>3, <1>5

\* Launches, one step at a time.
LEMMA LaunchStep ==
    ASSUME LaunchIInv, LaunchNext
    PROVE  LaunchIInv'
<1>1. KeysAreDated /\ LaunchesAreSingle /\ OneRowPerSubmission
  BY DEF LaunchIInv
<1>2. MaxHour \in Nat /\ MaxKey \in Nat /\ MaxKey > 0
  BY LaunchAssumption
<1>3. CASE HourPasses \/ StudyChanges
  BY <1>1, <1>2, <1>3 DEF HourPasses, StudyChanges, LaunchIInv, KeysAreDated, LaunchesAreSingle, OneRowPerSubmission
<1>4. CASE ReplaceKey
  <2>1. /\ signing < MaxKey /\ signing' = signing + 1 /\ withdrawn' = [withdrawn EXCEPT ![signing] = hour]
        /\ UNCHANGED <<hour, keyCache, launch, admitted>>
    BY <1>4 DEF ReplaceKey
  <2>2. signing \in 1..MaxKey /\ hour \in Nat /\ hour <= MaxHour /\ withdrawn \in [1..MaxKey -> Nat]
    BY <1>1 DEF KeysAreDated
  <2>3. withdrawn' \in [1..MaxKey -> Nat] /\ withdrawn'[signing] = hour
        /\ \A k \in 1..MaxKey : k # signing => withdrawn'[k] = withdrawn[k]
    BY <2>1, <2>2
  <2>4. \A k \in 1..MaxKey : k >= signing + 1 => withdrawn'[k] = MaxHour
    BY <1>1, <1>2, <2>2, <2>3 DEF KeysAreDated
  <2>5. \A c \in keyCache : c.at <= withdrawn'[c.key]
    BY <1>1, <2>3 DEF KeysAreDated
  <2>6. KeysAreDated'
    BY <1>1, <1>2, <2>1, <2>2, <2>3, <2>4, <2>5 DEF KeysAreDated
  <2>7. QED
    BY <1>1, <2>1, <2>6 DEF LaunchIInv, LaunchesAreSingle, OneRowPerSubmission
<1>5. ASSUME NEW t \in LaunchTab, NEW p \in Submission, Launch(t, p)
      PROVE  LaunchIInv'
  <2>1. PICK k \in {signing, signing - 1} \ {0} :
            launch' = [launch EXCEPT ![t] = [step |-> IF secure THEN "signed" ELSE "submission", who |-> {p}, key |-> k]]
    BY <1>5 DEF Launch
  <2> DEFINE x == [step |-> IF secure THEN "signed" ELSE "submission", who |-> {p}, key |-> k]
  <2>2. x = [step |-> x.step, who |-> x.who, key |-> x.key] /\ \A a, b \in x.who : a = b
    OBVIOUS
  <2>3. launch' = [launch EXCEPT ![t] = x]
    BY <2>1
  <2> HIDE DEF x
  <2>4. LaunchesAreSingle'
    BY <1>1, <2>2, <2>3, LaunchChanges
  <2>5. QED
    BY <1>1, <1>5, <2>4 DEF Launch, LaunchIInv, KeysAreDated, OneRowPerSubmission
<1>6. ASSUME NEW t \in LaunchTab, VerifySigned(t)
      PROVE  LaunchIInv'
  <2>1. PICK step : launch' = [launch EXCEPT ![t].step = step]
    BY <1>6 DEF VerifySigned
  <2>2. LaunchesAreSingle'
    BY <1>1, <2>1, LaunchAdvances
  <2>3. UNCHANGED <<hour, signing, withdrawn, admitted>> /\ (keyCache' = keyCache \/ keyCache' = FetchKeys)
    BY <1>6 DEF VerifySigned
  <2>4. \A c \in FetchKeys : c.at \in Nat /\ c.at <= hour /\ c.key \in 1..MaxKey /\ c.at <= withdrawn[c.key]
    BY <1>1, <1>2 DEF FetchKeys, KeysAreDated
  <2>5. KeysAreDated'
    BY <1>1, <2>3, <2>4 DEF KeysAreDated
  <2>6. QED
    BY <1>1, <2>2, <2>3, <2>5 DEF LaunchIInv, OneRowPerSubmission
<1>7. ASSUME NEW t \in LaunchTab, VerifySubmission(t)
      PROVE  LaunchIInv'
  <2>1. PICK step : launch' = [launch EXCEPT ![t].step = step]
    BY <1>7 DEF VerifySubmission
  <2>2. LaunchesAreSingle'
    BY <1>1, <2>1, LaunchAdvances
  <2>3. QED
    BY <1>1, <1>7, <2>2 DEF VerifySubmission, LaunchIInv, KeysAreDated, OneRowPerSubmission
<1>8. ASSUME NEW t \in LaunchTab, launch' = [launch EXCEPT ![t] = NoLaunch]
      PROVE  LaunchesAreSingle'
  <2>1. NoLaunch = [step |-> NoLaunch.step, who |-> NoLaunch.who, key |-> NoLaunch.key] /\ \A p, q \in NoLaunch.who : p = q
    BY DEF NoLaunch
  <2>2. QED
    BY <1>1, <1>8, <2>1, LaunchChanges
<1>9. ASSUME NEW t \in LaunchTab, AdmitSubmission(t)
      PROVE  LaunchIInv'
  <2>1. /\ admitted' = admitted \cup UNION {AdmittedAs(t, p) : p \in launch[t].who}
        /\ launch' = [launch EXCEPT ![t] = NoLaunch] /\ UNCHANGED <<hour, signing, withdrawn, keyCache>>
    BY <1>9 DEF AdmitSubmission
  <2>2. OneRowPerSubmission'
    <3> SUFFICES ASSUME NEW r \in admitted', NEW s \in admitted', r.who = s.who
                 PROVE  r = s
      BY DEF OneRowPerSubmission
    <3>1. ASSUME NEW x \in admitted', x \notin admitted
          PROVE  \E p \in launch[t].who : x = [who |-> p, row |-> t] /\ \A y \in admitted : y.who # p
      BY <2>1, <3>1 DEF AdmittedAs
    <3>2. CASE r \in admitted /\ s \in admitted
      BY <1>1, <3>2 DEF OneRowPerSubmission
    <3>3. CASE r \notin admitted /\ s \in admitted
      <4>1. PICK p \in launch[t].who : r = [who |-> p, row |-> t] /\ \A y \in admitted : y.who # p
        BY <3>1, <3>3
      <4>2. QED
        BY <3>3, <4>1
    <3>4. CASE r \in admitted /\ s \notin admitted
      <4>1. PICK p \in launch[t].who : s = [who |-> p, row |-> t] /\ \A y \in admitted : y.who # p
        BY <3>1, <3>4
      <4>2. QED
        BY <3>4, <4>1
    <3>5. CASE r \notin admitted /\ s \notin admitted
      <4>1. (\E p \in launch[t].who : r = [who |-> p, row |-> t]) /\ (\E p \in launch[t].who : s = [who |-> p, row |-> t])
        BY <3>1, <3>5
      <4>2. \A p, q \in launch[t].who : p = q
        BY <1>1 DEF LaunchesAreSingle
      <4>3. QED
        BY <4>1, <4>2
    <3>6. QED
      BY <3>2, <3>3, <3>4, <3>5
  <2>3. QED
    BY <1>1, <1>8, <2>1, <2>2 DEF LaunchIInv, KeysAreDated
<1>10. ASSUME NEW t \in LaunchTab, RefuseLaunch(t)
       PROVE  LaunchIInv'
  <2>1. launch' = [launch EXCEPT ![t] = NoLaunch] /\ UNCHANGED <<hour, signing, withdrawn, keyCache, admitted>>
    BY <1>10 DEF RefuseLaunch
  <2>2. QED
    BY <1>1, <1>8, <2>1 DEF LaunchIInv, KeysAreDated, OneRowPerSubmission
<1>11. QED
  BY <1>3, <1>4, <1>5, <1>6, <1>7, <1>9, <1>10 DEF LaunchNext

\* The keys keep up with the provider, and a submission is one participant
\* (verify_signed_launch, cached_jwks, admit_prolific_submission).
LEMMA LaunchesAreTrue == LaunchSpec => []OneRowPerSubmission /\ KeysKeepUp
<1> DEFINE Keeps == \A t \in LaunchTab : launch[t].step = "signed" =>
          /\ launch'[t].step = "verified" => hour <= withdrawn[launch[t].key] + KeyLife
          /\ launch'[t].step = "refused" => launch[t].key # signing
<1>1. LaunchInit => LaunchIInv
  <2> SUFFICES ASSUME LaunchInit
               PROVE  LaunchIInv
    OBVIOUS
  <2>1. KeysAreDated
    BY LaunchAssumption DEF LaunchInit, KeysAreDated
  <2>2. LaunchesAreSingle /\ OneRowPerSubmission
    BY DEF LaunchInit, NoLaunch, LaunchesAreSingle, OneRowPerSubmission
  <2>3. QED
    BY <2>1, <2>2 DEF LaunchIInv
<1>2. LaunchIInv /\ [LaunchNext]_launchVars => LaunchIInv'
  <2>1. ASSUME LaunchIInv, UNCHANGED launchVars
        PROVE  LaunchIInv'
    BY <2>1 DEF launchVars, LaunchIInv, KeysAreDated, LaunchesAreSingle, OneRowPerSubmission
  <2>2. QED
    BY <2>1, LaunchStep
<1>3. ASSUME LaunchIInv, LaunchNext
      PROVE  Keeps
  <2> SUFFICES ASSUME NEW t \in LaunchTab, launch[t].step = "signed"
               PROVE  /\ launch'[t].step = "verified" => hour <= withdrawn[launch[t].key] + KeyLife
                      /\ launch'[t].step = "refused" => launch[t].key # signing
    OBVIOUS
  <2>1. KeysAreDated /\ LaunchesAreSingle /\ KeyLife \in Nat /\ MaxHour \in Nat
    BY <1>3, LaunchAssumption DEF LaunchIInv
  <2> DEFINE k == launch[t].key
  <2>2. CASE VerifySigned(t)
    <3>1. CASE KnownFromCache(k)
      <4>1. launch' = [launch EXCEPT ![t].step = "verified"]
        BY <2>2, <3>1 DEF VerifySigned, KnownFromCache
      <4>2. launch'[t].step = "verified"
        BY <2>1, <4>1, LaunchAdvances
      <4>3. PICK c \in keyCache : hour < c.at + KeyLife /\ c.key = k
        BY <3>1 DEF KnownFromCache, FreshKeys
      <4>4. c.at \in Nat /\ c.key \in 1..MaxKey /\ c.at <= withdrawn[c.key] /\ hour \in Nat /\ withdrawn[c.key] \in Nat
        BY <2>1 DEF KeysAreDated
      <4>5. QED
        BY <2>1, <4>2, <4>3, <4>4
    <3>2. CASE ~KnownFromCache(k)
      <4>1. PICK step \in {"verified", "refused", "failed"} :
                /\ launch' = [launch EXCEPT ![t].step = step]
                /\ step = "verified" => signing = k
                /\ step = "refused" => signing # k
        BY <2>2, <3>2 DEF VerifySigned
      <4>2. launch'[t].step = step
        BY <2>1, <4>1, LaunchAdvances
      <4>3. signing = k => hour <= withdrawn[k] + KeyLife
        <5>1. signing \in 1..MaxKey /\ withdrawn[signing] = MaxHour /\ hour \in Nat /\ hour <= MaxHour
          BY <2>1 DEF KeysAreDated
        <5>2. QED
          BY <2>1, <5>1
      <4>4. QED
        BY <4>1, <4>2, <4>3
    <3>3. QED
      BY <3>1, <3>2
  <2>3. ASSUME NEW s \in LaunchTab, s # t, NEW x, launch' = [launch EXCEPT ![s] = x] \/ launch' = [launch EXCEPT ![s].step = x]
        PROVE  launch'[t] = launch[t]
    BY <2>1, <2>3 DEF LaunchesAreSingle
  <2>4. ASSUME NEW s \in LaunchTab, VerifySigned(s) \/ VerifySubmission(s) \/ AdmitSubmission(s) \/ RefuseLaunch(s)
               \/ \E p \in Submission : Launch(s, p), s # t
        PROVE  launch'[t] = launch[t]
    BY <2>3, <2>4 DEF VerifySigned, VerifySubmission, AdmitSubmission, RefuseLaunch, Launch
  <2>5. CASE VerifySubmission(t) \/ AdmitSubmission(t) \/ RefuseLaunch(t) \/ \E p \in Submission : Launch(t, p)
    BY <2>5 DEF VerifySubmission, AdmitSubmission, RefuseLaunch, Launch
  <2>6. CASE HourPasses \/ ReplaceKey \/ StudyChanges
    BY <2>6 DEF HourPasses, ReplaceKey, StudyChanges
  <2>7. QED
    BY <1>3, <2>2, <2>4, <2>5, <2>6 DEF LaunchNext
<1>4. LaunchIInv /\ [LaunchNext]_launchVars => [Keeps]_launchVars
  BY <1>3
<1>5. LaunchIInv => OneRowPerSubmission
  BY DEF LaunchIInv
<1>6. QED
  BY <1>1, <1>2, <1>4, <1>5, PTL DEF LaunchSpec, KeysKeepUp

-----------------------------------------------------------------------------
(* The stored data *)

\* A set of numbers that is not empty has a least one.
LEMMA LeastNumber ==
    ASSUME NEW S \in SUBSET Nat, S # {}
    PROVE  \E n \in S : \A m \in S : n <= m
<1>1. PICK n \in S : \A m \in S : ~(<<m, n>> \in OpToRel(<, Nat))
  BY NatLessThanWellFounded, WFMin
<1>2. \A m \in S : ~(m < n)
  BY <1>1 DEF OpToRel
<1>3. QED
  BY <1>2

\* Min is it.
LEMMA MinOf ==
    ASSUME NEW S \in SUBSET Nat, S # {}
    PROVE  Min(S) \in S /\ \A m \in S : Min(S) <= m
BY LeastNumber DEF Min

\* Max is the largest of those that have a bound.
LEMMA MaxOf ==
    ASSUME NEW S \in SUBSET Nat, S # {}, NEW b \in Nat, \A m \in S : m <= b
    PROVE  Max(S) \in S /\ \A m \in S : m <= Max(S)
<1> DEFINE U == {n \in Nat : \A m \in S : m <= n}
<1>1. PICK u \in U : \A n \in U : u <= n
  BY LeastNumber
<1>2. u \in S
  <2> SUFFICES ASSUME u \notin S
               PROVE  FALSE
    OBVIOUS
  <2>1. \A m \in S : m <= u - 1 /\ m \in Nat
    BY <1>1
  <2>2. PICK m \in S : m \in Nat
    OBVIOUS
  <2>3. u - 1 \in U
    BY <1>1, <2>1, <2>2
  <2>4. QED
    BY <1>1, <2>3
<1>3. QED
  BY <1>1, <1>2 DEF Max

\* The rows of two tables, and a session in memory.
SessionRow == [key : Nat, dialogue : Dialogue, lifecycle : {"forming", "running", "ended"}, started : BOOLEAN,
               purpose : {"testing", "research"}]
MemberRow == [key : Nat, who : Person, result : BOOLEAN]
Seating == [key : Nat, seats : SUBSET Person, phase : {"none", "forming", "running", "ended", "gone"}]

\* A session's row, an event and a membership are of a session that was in
\* memory, and of people who sat in it.
Begun(d) == d \in Dialogue /\ live[d].phase # "none"
Hosted(s) ==
    /\ s \in SessionRow /\ Begun(s.dialogue) /\ s.key = live[s.dialogue].key
    /\ \A q \in live[s.dialogue].seats : Purpose(q) = s.purpose
    /\ s.started /\ ~keyReused => Cardinality(live[s.dialogue].seats) = 2
Written(e) == Begun(e.dialogue) /\ e.key = live[e.dialogue].key /\ e.who \in live[e.dialogue].seats
Seated(m) == m \in MemberRow /\ \E d \in Dialogue : Begun(d) /\ m.key = live[d].key /\ m.who \in live[d].seats

MemoryIsSound ==
    /\ live \in [Dialogue -> Seating]
    /\ \A d \in Dialogue : live[d].seats \subseteq arrived /\ IsFiniteSet(live[d].seats)
    /\ \A d \in Dialogue, p \in Person : <<d, p>> \in joining => Begun(d) /\ p \in live[d].seats
    /\ keyReused \/ \A c, d \in Dialogue : Begun(c) /\ Begun(d) /\ live[c].key = live[d].key => c = d
TablesAreSound ==
    /\ people \subseteq arrived
    /\ \A s \in sessions : Hosted(s)
    /\ \E b \in Nat : \A s \in sessions : s.key <= b
    /\ \A e \in events : Written(e)
    /\ IsFiniteSet(members) /\ \A m \in members : Seated(m)
    /\ \A m, n \in members : m.who = n.who => m = n

\* What a deletion is about to take belongs to the person; what it has taken
\* does not come back.
DeletionIsSound ==
    /\ deletion = [step |-> deletion.step, who |-> deletion.who, dialogues |-> deletion.dialogues]
    /\ deletion.who \subseteq arrived /\ deletion.dialogues \subseteq Dialogue
    /\ \A d \in deletion.dialogues : Begun(d)
    /\ deletion.step \in {"idle", "preview", "blocked"} => deletion.dialogues = {}
    /\ deletion.step = "commit" => \A d \in deletion.dialogues, p \in deletion.who : live[d].key \in KeysOf(p)
    /\ DeletedIsGone

\* What an export has read was once in the tables.
ExportIsSound ==
    /\ export = [step |-> export.step, sessions |-> export.sessions, events |-> export.events,
                 people |-> export.people, members |-> export.members]
    /\ \A s \in export.sessions : Hosted(s)
    /\ \A e \in export.events : Written(e)
    /\ CorpusIsFaithful

\* The inductive invariant of the stored data.
DataIInv == MemoryIsSound /\ TablesAreSound /\ DeletionIsSound /\ ExportIsSound

\* A session that has begun keeps its key and its seats; two seats are all.
SeatsGrow ==
    /\ testers' = testers /\ (keyReused => keyReused') /\ arrived \subseteq arrived'
    /\ \A d \in Dialogue : Begun(d) =>
          /\ Begun(d)' /\ live'[d].key = live[d].key /\ live[d].seats \subseteq live'[d].seats
          /\ Cardinality(live[d].seats) = 2 => live'[d].seats = live[d].seats
          /\ \A q \in live'[d].seats : q \in live[d].seats \/ \E r \in live[d].seats : Purpose(q) = Purpose(r)

\* So what was true of rows stays true of them.
LEMMA RowsStayTrue ==
    ASSUME SeatsGrow, NEW x
    PROVE  (Hosted(x) => Hosted(x)') /\ (Written(x) => Written(x)') /\ (Seated(x) => Seated(x)')
<1>1. \A q : Purpose(q)' = Purpose(q)
  BY DEF SeatsGrow, Purpose
<1>2. ASSUME Hosted(x)
      PROVE  Hosted(x)'
  <2>1. x \in SessionRow /\ Begun(x.dialogue) /\ x.dialogue \in Dialogue
    BY <1>2 DEF Hosted, Begun
  <2>2. /\ Begun(x.dialogue)' /\ live'[x.dialogue].key = live[x.dialogue].key
        /\ Cardinality(live[x.dialogue].seats) = 2 => live'[x.dialogue].seats = live[x.dialogue].seats
        /\ \A q \in live'[x.dialogue].seats : q \in live[x.dialogue].seats \/ \E r \in live[x.dialogue].seats : Purpose(q) = Purpose(r)
    BY <2>1 DEF SeatsGrow
  <2>3. \A q \in live'[x.dialogue].seats : Purpose(q)' = x.purpose
    BY <1>1, <1>2, <2>2 DEF Hosted
  <2>4. x.started /\ ~keyReused' => Cardinality(live'[x.dialogue].seats) = 2
    BY <1>2, <2>2 DEF Hosted, SeatsGrow
  <2>5. x \in SessionRow'
    BY <2>1 DEF SessionRow, Dialogue
  <2>6. QED
    BY <1>2, <2>2, <2>3, <2>4, <2>5 DEF Hosted
<1>3. ASSUME Written(x)
      PROVE  Written(x)'
  BY <1>3 DEF Written, SeatsGrow, Begun
<1>4. ASSUME Seated(x)
      PROVE  Seated(x)'
  BY <1>4 DEF Seated, SeatsGrow, Begun, MemberRow
<1>5. QED
  BY <1>2, <1>3, <1>4

\* The memory, one step at a time.
LEMMA MemoryStep ==
    ASSUME DataIInv, DataNext
    PROVE  SeatsGrow /\ MemoryIsSound'
<1>1. MemoryIsSound /\ TablesAreSound
  BY DEF DataIInv
<1>2. /\ live \in [Dialogue -> Seating]
      /\ \A d \in Dialogue : live[d].seats \subseteq arrived /\ IsFiniteSet(live[d].seats)
      /\ \A d \in Dialogue, p \in Person : <<d, p>> \in joining => Begun(d) /\ p \in live[d].seats
  BY <1>1 DEF MemoryIsSound
<1>3. ASSUME UNCHANGED <<live, testers, keyReused>>, arrived \subseteq arrived', joining' \subseteq joining
      PROVE  SeatsGrow /\ MemoryIsSound'
  <2>1. \A d : Begun(d)' = Begun(d)
    BY <1>3 DEF Begun
  <2>2. SeatsGrow
    BY <1>3, <2>1 DEF SeatsGrow
  <2>3. QED
    BY <1>1, <1>3, <2>1, <2>2 DEF MemoryIsSound, Seating
<1>4. ASSUME NEW d \in Dialogue, NEW l \in Seating, live' = [live EXCEPT ![d] = l], UNCHANGED <<testers, arrived>>,
             keyReused => keyReused', l.seats \subseteq arrived, IsFiniteSet(l.seats), l.phase # "none",
             Begun(d) => /\ l.key = live[d].key /\ live[d].seats \subseteq l.seats
                         /\ Cardinality(live[d].seats) = 2 => l.seats = live[d].seats
                         /\ \A q \in l.seats : q \in live[d].seats \/ \E r \in live[d].seats : Purpose(q) = Purpose(r),
             keyReused' \/ Begun(d) \/ \A c \in Dialogue : live[c].key # l.key,
             \A c \in Dialogue, p \in Person : <<c, p>> \in joining' => <<c, p>> \in joining \/ (c = d /\ p \in l.seats)
      PROVE  SeatsGrow /\ MemoryIsSound'
  <2>1. live' \in [Dialogue -> Seating] /\ live'[d] = l /\ \A c \in Dialogue : c # d => live'[c] = live[c]
    BY <1>2, <1>4
  <2>2. Begun(d)' /\ \A c \in Dialogue : c # d => Begun(c)' = Begun(c)
    BY <1>4, <2>1 DEF Begun
  <2>3. SeatsGrow
    BY <1>4, <2>1, <2>2 DEF SeatsGrow
  <2>4. \A c \in Dialogue : live'[c].seats \subseteq arrived' /\ IsFiniteSet(live'[c].seats)
    BY <1>2, <1>4, <2>1
  <2>5. \A c \in Dialogue, p \in Person : <<c, p>> \in joining' => Begun(c)' /\ p \in live'[c].seats
    <3> SUFFICES ASSUME NEW c \in Dialogue, NEW p \in Person, <<c, p>> \in joining'
                 PROVE  Begun(c)' /\ p \in live'[c].seats
      OBVIOUS
    <3>1. CASE c = d /\ p \in l.seats
      BY <2>1, <2>2, <3>1
    <3>2. CASE <<c, p>> \in joining
      <4>1. Begun(c) /\ p \in live[c].seats
        BY <1>2, <3>2
      <4>2. QED
        BY <2>3, <4>1 DEF SeatsGrow
    <3>3. QED
      BY <1>4, <3>1, <3>2
  <2>6. ASSUME ~keyReused', NEW b \in Dialogue, NEW c \in Dialogue, Begun(b)', Begun(c)', live'[b].key = live'[c].key
        PROVE  b = c
    <3>1. \A a, e \in Dialogue : Begun(a) /\ Begun(e) /\ live[a].key = live[e].key => a = e
      BY <1>1, <1>4, <2>6 DEF MemoryIsSound
    <3>2. CASE Begun(d)
      BY <1>4, <2>1, <2>2, <2>6, <3>1, <3>2
    <3>3. CASE ~Begun(d)
      BY <1>4, <2>1, <2>2, <2>6, <3>1, <3>3
    <3>4. QED
      BY <3>2, <3>3
  <2>7. live' \in [Dialogue -> Seating]'
    BY <2>1 DEF Seating, Dialogue
  <2>8. QED
    BY <2>3, <2>4, <2>5, <2>6, <2>7 DEF MemoryIsSound
<1>5. ASSUME NEW p \in Person, CreateSession(p)
      PROVE  SeatsGrow /\ MemoryIsSound'
  <2> DEFINE key == Max({0} \cup Keys) + 1
             fresh == {d \in Dialogue : live[d].phase = "none" /\ (d <= MaxEarly \/ deletion.step = "deleted")}
             l == [key |-> key, seats |-> {p}, phase |-> "forming"]
  <2>1. /\ MayEnter(p) /\ fresh # {} /\ live' = [live EXCEPT ![Min(fresh)] = l]
        /\ joining' = joining \cup {<<Min(fresh), p>>}
        /\ keyReused' = (keyReused \/ \E d \in Dialogue : live[d].key = key) /\ UNCHANGED <<testers, arrived>>
    BY <1>5 DEF CreateSession
  <2>2. key \in Nat
    <3>1. PICK b \in Nat : \A s \in sessions : s.key <= b
      BY <1>1 DEF TablesAreSound
    <3>2. \A s \in sessions : s.key \in Nat
      BY <1>1 DEF TablesAreSound, Hosted, SessionRow
    <3>3. {0} \cup Keys \in SUBSET Nat /\ \A n \in {0} \cup Keys : n <= b
      BY <3>1, <3>2 DEF Keys
    <3>4. Max({0} \cup Keys) \in {0} \cup Keys
      BY <3>3, MaxOf
    <3>5. QED
      BY <3>3, <3>4
  <2>3. Min(fresh) \in fresh
    <3>1. fresh \in SUBSET Nat
      BY DEF Dialogue
    <3>2. QED
      BY <2>1, <3>1, MinOf
  <2> HIDE DEF key
  <2>4. l \in Seating /\ l.seats = {p} /\ l.phase = "forming" /\ l.key = key
    BY <2>2 DEF Seating
  <2>5. {p} \subseteq arrived /\ IsFiniteSet({p})
    BY <2>1, FS_Singleton DEF MayEnter
  <2> HIDE DEF l
  <2>6. ~Begun(Min(fresh)) /\ Min(fresh) \in Dialogue
    BY <2>3 DEF Begun
  <2> HIDE DEF fresh
  <2>7. keyReused' \/ \A c \in Dialogue : live[c].key # l.key
    BY <2>1, <2>4
  <2>8. \A c \in Dialogue, q \in Person : <<c, q>> \in joining' => <<c, q>> \in joining \/ (c = Min(fresh) /\ q \in l.seats)
    BY <2>1, <2>4
  <2>9. keyReused => keyReused'
    BY <2>1
  <2> DEFINE m == Min(fresh)
  <2>10. /\ m \in Dialogue /\ ~Begun(m) /\ live' = [live EXCEPT ![m] = l] /\ l.seats \subseteq arrived /\ IsFiniteSet(l.seats)
         /\ \A c \in Dialogue, q \in Person : <<c, q>> \in joining' => <<c, q>> \in joining \/ (c = m /\ q \in l.seats)
    BY <2>1, <2>4, <2>5, <2>6, <2>8
  <2> HIDE DEF m
  <2>11. QED
    BY <1>4, <2>1, <2>4, <2>7, <2>9, <2>10
<1>6. ASSUME NEW d \in Dialogue, NEW p \in Person, Pair(d, p)
      PROVE  SeatsGrow /\ MemoryIsSound'
  <2> DEFINE l == [live[d] EXCEPT !.seats = @ \cup {p}]
  <2>1. /\ MayEnter(p) /\ Open(d, p) /\ live' = [live EXCEPT ![d] = l] /\ joining' = joining \cup {<<d, p>>}
        /\ UNCHANGED <<testers, arrived, keyReused>>
    BY <1>2, <1>6 DEF Pair, memory
  <2>2. live[d] \in Seating /\ live[d].seats \subseteq arrived /\ IsFiniteSet(live[d].seats)
    BY <1>2
  <2>3. l \in Seating /\ l.seats = live[d].seats \cup {p} /\ l.key = live[d].key /\ l.phase = "forming"
    BY <2>1, <2>2 DEF Seating, Open
  <2> HIDE DEF l
  <2>4. /\ Cardinality(live[d].seats) = 1 /\ Cardinality(live[d].seats) # 2
        /\ \A q \in live[d].seats : Purpose(q) = Purpose(p)
    BY <2>1 DEF Open
  <2>5. PICK r : live[d].seats = {r}
    BY <2>2, <2>4, FS_Singleton
  <2>6. \A q \in l.seats : q \in live[d].seats \/ \E x \in live[d].seats : Purpose(q) = Purpose(x)
    BY <2>3, <2>4, <2>5
  <2>7. l.seats \subseteq arrived /\ IsFiniteSet(l.seats)
    <3>1. IsFiniteSet(live[d].seats \cup {p})
      BY <2>2, FS_AddElement
    <3>2. QED
      BY <2>1, <2>2, <2>3, <3>1 DEF MayEnter
  <2>8. Begun(d)
    BY <2>1 DEF Open, Begun
  <2>9. \A c \in Dialogue, q \in Person : <<c, q>> \in joining' => <<c, q>> \in joining \/ (c = d /\ q \in l.seats)
    BY <2>1, <2>3
  <2>10. QED
    BY <1>4, <2>1, <2>3, <2>4, <2>6, <2>7, <2>8, <2>9
<1>7. ASSUME NEW d \in Dialogue, NEW ph \in {"running", "ended", "gone"}, live' = [live EXCEPT ![d].phase = ph],
             Begun(d), UNCHANGED <<testers, arrived, keyReused, joining>>
      PROVE  SeatsGrow /\ MemoryIsSound'
  <2> DEFINE l == [live[d] EXCEPT !.phase = ph]
  <2>1. live' = [live EXCEPT ![d] = l]
    BY <1>2, <1>7
  <2>2. live[d] \in Seating /\ live[d].seats \subseteq arrived /\ IsFiniteSet(live[d].seats)
    BY <1>2
  <2>3. l \in Seating /\ l.seats = live[d].seats /\ l.key = live[d].key /\ l.phase = ph
    BY <2>2 DEF Seating
  <2> HIDE DEF l
  <2>4. QED
    BY <1>4, <1>7, <2>1, <2>2, <2>3
<1>8. CASE \E d \in Dialogue : Start(d) \/ EndInMemory(d) \/ Forget(d)
  BY <1>7, <1>8 DEF Start, EndInMemory, Forget, Begun, memory, tables
<1>9. CASE \E d \in Dialogue, p \in Person : PersistMember(d, p)
  BY <1>3, <1>9 DEF PersistMember
<1>10. CASE \E p \in Person : Arrive(p)
  BY <1>3, <1>10 DEF Arrive
<1>11. CASE \/ \E p \in Person : RequestDeletion(p) \/ PreviewDeletion(p) \/ CommitDeletion(p)
            \/ \E d \in Dialogue : EndInStore(d) \/ \E p \in Person, kind \in {"message", "diagnostic"} : WriteRow(d, p, kind)
            \/ \E p \in Person, d \in Dialogue \cup {0} : Consent(p, d)
            \/ ReadSessions \/ ReadEvents \/ ReadPeople \/ ReadMembers
  BY <1>3, <1>11 DEF RequestDeletion, PreviewDeletion, CommitDeletion, EndInStore, WriteRow, Consent,
                     ReadSessions, ReadEvents, ReadPeople, ReadMembers, memory, tables
<1>12. QED
  BY <1>5, <1>6, <1>8, <1>9, <1>10, <1>11 DEF DataNext

\* Which operations write which table, and the session's memory.
LEMMA WhoWrites ==
    ASSUME DataNext
    PROVE  /\ UNCHANGED people \/ \E p \in Person : Arrive(p) \/ CommitDeletion(p)
           /\ \/ UNCHANGED sessions \/ \E p \in Person : CreateSession(p) \/ CommitDeletion(p)
              \/ \E d \in Dialogue : Start(d) \/ EndInStore(d)
           /\ \/ UNCHANGED members \/ \E p \in Person : CommitDeletion(p)
              \/ \E d \in Dialogue : EndInStore(d) \/ \E p \in Person : PersistMember(d, p)
           /\ \/ UNCHANGED consents \/ \E p \in Person : CommitDeletion(p)
              \/ \E p \in Person, d \in Dialogue \cup {0} : Consent(p, d)
           /\ \/ UNCHANGED events \/ \E p \in Person : CommitDeletion(p)
              \/ \E d \in Dialogue, p \in Person, kind \in {"message", "diagnostic"} : WriteRow(d, p, kind)
           /\ UNCHANGED deletion \/ \E p \in Person : RequestDeletion(p) \/ PreviewDeletion(p) \/ CommitDeletion(p)
           /\ UNCHANGED export \/ ReadSessions \/ ReadEvents \/ ReadPeople \/ ReadMembers
BY DEF DataNext, Arrive, CreateSession, RequestDeletion, PreviewDeletion, CommitDeletion, Start, EndInStore, EndInMemory, Forget,
       Pair, PersistMember, WriteRow, Consent, ReadSessions, ReadEvents, ReadPeople, ReadMembers, memory, tables

\* A deletion that commits removes rows, one that fails leaves them.
LEMMA CommitRemoves ==
    ASSUME NEW p \in Person, CommitDeletion(p)
    PROVE  /\ people' \subseteq people /\ sessions' \subseteq sessions /\ members' \subseteq members
           /\ consents' \subseteq consents /\ events' \subseteq events
BY DEF CommitDeletion, tables

\* A session that is created: a dialogue that is new, a key above all others.
LEMMA SessionCreated ==
    ASSUME DataIInv, NEW p \in Person, CreateSession(p)
    PROVE  \E d \in Dialogue, key \in Nat :
              /\ ~Begun(d) /\ p \in arrived /\ \A k \in Keys : k < key
              /\ live' = [live EXCEPT ![d] = [key |-> key, seats |-> {p}, phase |-> "forming"]]
              /\ sessions' = sessions \cup {[key |-> key, dialogue |-> d, lifecycle |-> "forming",
                                             started |-> FALSE, purpose |-> Purpose(p)]}
<1> DEFINE key == Max({0} \cup Keys) + 1
           fresh == {d \in Dialogue : live[d].phase = "none" /\ (d <= MaxEarly \/ deletion.step = "deleted")}
<1>1. PICK b \in Nat : \A s \in sessions : s.key <= b
  BY DEF DataIInv, TablesAreSound
<1>2. \A s \in sessions : s.key \in Nat
  BY DEF DataIInv, TablesAreSound, Hosted, SessionRow
<1>3. {0} \cup Keys \in SUBSET Nat /\ \A n \in {0} \cup Keys : n <= b
  BY <1>1, <1>2 DEF Keys
<1>4. Max({0} \cup Keys) \in {0} \cup Keys /\ \A n \in {0} \cup Keys : n <= Max({0} \cup Keys)
  BY <1>3, MaxOf
<1>5. key \in Nat /\ \A k \in Keys : k < key
  BY <1>3, <1>4
<1>6. Min(fresh) \in fresh
  <2>1. fresh \in SUBSET Nat /\ fresh # {}
    BY DEF Dialogue, CreateSession
  <2>2. QED
    BY <2>1, MinOf
<1>7. /\ p \in arrived
      /\ live' = [live EXCEPT ![Min(fresh)] = [key |-> key, seats |-> {p}, phase |-> "forming"]]
      /\ sessions' = sessions \cup {[key |-> key, dialogue |-> Min(fresh), lifecycle |-> "forming",
                                     started |-> FALSE, purpose |-> Purpose(p)]}
  BY DEF CreateSession, MayEnter
<1>8. ~Begun(Min(fresh)) /\ Min(fresh) \in Dialogue
  BY <1>6 DEF Begun
<1> HIDE DEF key, fresh
<1>9. QED
  BY <1>5, <1>7, <1>8

\* The row with a stored key, and the one written in its place.
LEMMA RowOfKey ==
    ASSUME NEW key \in Keys
    PROVE  RowOf(key) \in sessions /\ RowOf(key).key = key
<1>1. \E s \in sessions : s.key = key
  BY DEF Keys
<1>2. QED
  BY <1>1 DEF RowOf

\* The rows of sessions.
LEMMA SessionsStep ==
    ASSUME DataIInv, DataNext, SeatsGrow, MemoryIsSound'
    PROVE  (\A s \in sessions' : Hosted(s)') /\ \E b \in Nat : \A s \in sessions' : s.key <= b
<1>1. MemoryIsSound /\ TablesAreSound
  BY DEF DataIInv
<1>2. /\ \A s \in sessions : Hosted(s) /\ Hosted(s)' /\ s \in SessionRow /\ s.key \in Nat
      /\ \E b \in Nat : \A s \in sessions : s.key <= b
  BY <1>1, RowsStayTrue DEF TablesAreSound, Hosted, SessionRow
<1>3. ASSUME sessions' \subseteq sessions
      PROVE  (\A s \in sessions' : Hosted(s)') /\ \E b \in Nat : \A s \in sessions' : s.key <= b
  BY <1>2, <1>3
<1>4. ASSUME NEW key \in Keys, NEW t, sessions' = Rewritten(key, t), Hosted(t)', t.key = key
      PROVE  (\A s \in sessions' : Hosted(s)') /\ \E b \in Nat : \A s \in sessions' : s.key <= b
  BY <1>2, <1>4, RowOfKey DEF Rewritten
<1>5. ASSUME NEW p \in Person, CreateSession(p)
      PROVE  (\A s \in sessions' : Hosted(s)') /\ \E b \in Nat : \A s \in sessions' : s.key <= b
  <2>1. PICK d \in Dialogue, key \in Nat :
              /\ live' = [live EXCEPT ![d] = [key |-> key, seats |-> {p}, phase |-> "forming"]]
              /\ sessions' = sessions \cup {[key |-> key, dialogue |-> d, lifecycle |-> "forming",
                                             started |-> FALSE, purpose |-> Purpose(p)]}
    BY <1>5, SessionCreated
  <2>2. PICK t : t = [key |-> key, dialogue |-> d, lifecycle |-> "forming", started |-> FALSE, purpose |-> Purpose(p)]
    OBVIOUS
  <2>3. /\ t \in SessionRow /\ t.dialogue = d /\ t.key = key /\ t.started = FALSE /\ t.purpose = Purpose(p)
        /\ sessions' = sessions \cup {t}
    BY <2>1, <2>2 DEF SessionRow, Purpose
  <2>4. live'[d] = [key |-> key, seats |-> {p}, phase |-> "forming"]
    BY <1>1, <2>1 DEF MemoryIsSound
  <2>5. Purpose(p)' = Purpose(p) /\ SessionRow' = SessionRow
    BY DEF SeatsGrow, Purpose, SessionRow, Dialogue
  <2>6. Hosted(t)'
    BY <2>3, <2>4, <2>5 DEF Hosted, Begun
  <2>7. PICK b \in Nat : \A s \in sessions : s.key <= b
    BY <1>2
  <2>8. b + key \in Nat /\ \A s \in sessions' : s.key <= b + key
    BY <1>2, <2>3, <2>7
  <2>9. QED
    BY <1>2, <2>3, <2>6, <2>8
<1>6. ASSUME NEW d \in Dialogue, Start(d)
      PROVE  (\A s \in sessions' : Hosted(s)') /\ \E b \in Nat : \A s \in sessions' : s.key <= b
  <2>1. PICK key, r, t : /\ key = live[d].key /\ r = RowOf(key) /\ sessions' = Rewritten(key, t)
                         /\ t = [r EXCEPT !.lifecycle = "running", !.started = TRUE]
                         /\ key \in Keys /\ Begun(d) /\ Cardinality(live[d].seats) = 2
    BY <1>6 DEF Start, Begun
  <2>2. r \in sessions /\ r.key = key
    BY <2>1, RowOfKey
  <2>3. Hosted(r) /\ Hosted(r)' /\ r \in SessionRow
    BY <1>2, <2>2
  <2>4. t \in SessionRow /\ t.key = r.key /\ t.dialogue = r.dialogue /\ t.purpose = r.purpose
    BY <2>1, <2>3 DEF SessionRow
  <2>5. ~keyReused' => Cardinality(live'[r.dialogue].seats) = 2
    <3> SUFFICES ASSUME ~keyReused'
                 PROVE  Cardinality(live'[r.dialogue].seats) = 2
      OBVIOUS
    <3>1. ~keyReused
      BY DEF SeatsGrow
    <3>2. Begun(r.dialogue) /\ r.dialogue \in Dialogue /\ live[r.dialogue].key = live[d].key
      BY <2>1, <2>2, <2>3 DEF Hosted, Begun
    <3>3. r.dialogue = d
      BY <1>1, <2>1, <3>1, <3>2 DEF MemoryIsSound
    <3>4. QED
      BY <2>1, <3>3 DEF SeatsGrow
  <2>6. SessionRow' = SessionRow
    BY DEF SessionRow, Dialogue
  <2>7. Hosted(t)'
    BY <2>3, <2>4, <2>5, <2>6 DEF Hosted
  <2>8. QED
    BY <1>4, <2>1, <2>2, <2>4, <2>7
<1>7. ASSUME NEW d \in Dialogue, EndInStore(d)
      PROVE  (\A s \in sessions' : Hosted(s)') /\ \E b \in Nat : \A s \in sessions' : s.key <= b
  <2>1. PICK key, r, t : /\ key = live[d].key /\ r = RowOf(key) /\ sessions' = Rewritten(key, t)
                         /\ t = [r EXCEPT !.lifecycle = "ended"] /\ key \in Keys
    BY <1>7 DEF EndInStore
  <2>2. r \in sessions /\ r.key = key
    BY <2>1, RowOfKey
  <2>3. Hosted(r) /\ Hosted(r)' /\ r \in SessionRow
    BY <1>2, <2>2
  <2>4. /\ t \in SessionRow /\ t.key = r.key /\ t.dialogue = r.dialogue /\ t.purpose = r.purpose
        /\ t.started = r.started
    BY <2>1, <2>3 DEF SessionRow
  <2>5. SessionRow' = SessionRow
    BY DEF SessionRow, Dialogue
  <2>6. Hosted(t)'
    BY <2>3, <2>4, <2>5 DEF Hosted
  <2>7. QED
    BY <1>4, <2>1, <2>2, <2>4, <2>6
<1>8. CASE UNCHANGED sessions \/ \E p \in Person : CommitDeletion(p)
  BY <1>3, <1>8, CommitRemoves
<1>9. QED
  BY <1>5, <1>6, <1>7, <1>8, WhoWrites

\* The result is entered in the rows of one session's members.
Entered(key) == {IF m.key = key THEN [m EXCEPT !.result = TRUE] ELSE m : m \in members}
LEMMA ResultsEntered ==
    ASSUME IsFiniteSet(members), \A m \in members : m \in MemberRow, \A m, n \in members : m.who = n.who => m = n,
           NEW key, members' = Entered(key)
    PROVE  /\ IsFiniteSet(members') /\ \A m \in members' : m \in MemberRow
           /\ \A m \in members' : \E n \in members : m.key = n.key /\ m.who = n.who
           /\ \A n \in members : \E m \in members' : m.key = n.key /\ m.who = n.who
           /\ \A m, n \in members' : m.who = n.who => m = n
           /\ \A k : Cardinality(Of(k, members')) = Cardinality(Of(k, members))
<1> DEFINE g(m) == IF m.key = key THEN [m EXCEPT !.result = TRUE] ELSE m
<1>1. \A m \in members : g(m) \in MemberRow /\ g(m).key = m.key /\ g(m).who = m.who
  BY DEF MemberRow
<1>2. members' = {g(m) : m \in members}
  BY DEF Entered
<1> HIDE DEF g
<1>3. \A k : IsFiniteSet(Of(k, members')) /\ Cardinality(Of(k, members')) = Cardinality(Of(k, members))
  <2> TAKE k
  <2> DEFINE f == [m \in Of(k, members) |-> g(m)]
  <2>1. IsFiniteSet(Of(k, members))
    BY FS_Subset DEF Of
  <2>2. f \in [Of(k, members) -> Of(k, members')]
    BY <1>1, <1>2 DEF Of
  <2>3. \A m, n \in Of(k, members) : f[m] = f[n] => m = n
    BY <1>1 DEF Of
  <2>4. \A y \in Of(k, members') : \E m \in Of(k, members) : f[m] = y
    BY <1>1, <1>2 DEF Of
  <2>5. f \in Bijection(Of(k, members), Of(k, members'))
    BY <2>2, <2>3, <2>4 DEF Bijection, Injection, Surjection, IsInjective
  <2>6. QED
    BY <2>1, <2>5, FS_Bijection DEF ExistsBijection
<1>4. IsFiniteSet(members')
  <2> DEFINE f == [m \in members |-> g(m)]
  <2>1. f \in Surjection(members, members')
    BY <1>2 DEF Surjection
  <2>2. QED
    BY <2>1, FS_Surjection
<1>5. \A m \in members' : m \in MemberRow /\ \E n \in members : m.key = n.key /\ m.who = n.who
  BY <1>1, <1>2
<1>6. \A n \in members : \E m \in members' : m.key = n.key /\ m.who = n.who
  BY <1>1, <1>2
<1>7. \A m, n \in members' : m.who = n.who => m = n
  BY <1>1, <1>2
<1>8. QED
  BY <1>3, <1>4, <1>5, <1>6, <1>7

\* The other rows.
LEMMA TablesStep ==
    ASSUME DataIInv, DataNext, SeatsGrow, MemoryIsSound'
    PROVE  TablesAreSound'
<1>1. MemoryIsSound /\ TablesAreSound
  BY DEF DataIInv
<1>2. people' \subseteq arrived'
  <2>1. UNCHANGED people \/ people' \subseteq people \/ \E p \in Person : people' = people \cup {p} /\ p \in arrived'
    BY WhoWrites, CommitRemoves DEF Arrive
  <2>2. QED
    BY <1>1, <2>1 DEF TablesAreSound, SeatsGrow
<1>3. \A e \in events' : Written(e)'
  <2>1. ASSUME NEW d \in Dialogue, NEW p \in Person, NEW kind \in {"message", "diagnostic"}, WriteRow(d, p, kind)
        PROVE  \A e \in events' : Written(e)'
    <3> DEFINE e == [key |-> live[d].key, n |-> 1 + Max({0} \cup {x.n : x \in Of(live[d].key, events)}),
                     who |-> p, kind |-> kind, dialogue |-> d]
    <3>1. events' = events \cup {e} /\ p \in live[d].seats /\ Begun(d)
      BY <2>1 DEF WriteRow, Begun
    <3>2. e.key = live[d].key /\ e.who = p /\ e.dialogue = d
      OBVIOUS
    <3> HIDE DEF e
    <3>3. Written(e)
      BY <3>1, <3>2 DEF Written
    <3>4. QED
      BY <1>1, <3>1, <3>3, RowsStayTrue DEF TablesAreSound
  <2>2. CASE events' \subseteq events
    BY <1>1, <2>2, RowsStayTrue DEF TablesAreSound
  <2>3. events' \subseteq events \/ \E d \in Dialogue, p \in Person, kind \in {"message", "diagnostic"} : WriteRow(d, p, kind)
    BY WhoWrites, CommitRemoves
  <2>4. QED
    BY <2>1, <2>2, <2>3
<1>4. IsFiniteSet(members') /\ (\A m \in members' : Seated(m)') /\ \A m, n \in members' : m.who = n.who => m = n
  <2>1. /\ IsFiniteSet(members) /\ (\A m \in members : Seated(m) /\ Seated(m)' /\ m \in MemberRow)
        /\ \A m, n \in members : m.who = n.who => m = n
    BY <1>1, RowsStayTrue DEF TablesAreSound, Seated
  <2>2. ASSUME members' \subseteq members
        PROVE  IsFiniteSet(members') /\ (\A m \in members' : Seated(m)') /\ \A m, n \in members' : m.who = n.who => m = n
    BY <2>1, <2>2, FS_Subset
  <2>3. ASSUME NEW d \in Dialogue, NEW p \in Person, PersistMember(d, p)
        PROVE  IsFiniteSet(members') /\ (\A m \in members' : Seated(m)') /\ \A m, n \in members' : m.who = n.who => m = n
    <3>1. PICK m : m = [key |-> live[d].key, who |-> p, result |-> FALSE]
      OBVIOUS
    <3>2. CASE UNCHANGED members
      BY <2>2, <3>2
    <3>3. CASE members' = members \cup {m} /\ MemberFits(live[d].key, p) /\ Of(live[d].key, {x \in members : x.who = p}) = {}
      <4>1. Begun(d) /\ p \in live[d].seats /\ live[d].key \in Nat
        BY <1>1, <2>3 DEF PersistMember, MemoryIsSound, Seating
      <4>2. m \in MemberRow /\ m.key = live[d].key /\ m.who = p
        BY <3>1, <4>1 DEF MemberRow
      <4>3. Seated(m)'
        BY <1>1, <4>1, <4>2, RowsStayTrue DEF Seated, Begun
      <4>4. \A x \in members : x.who # p
        BY <3>3 DEF MemberFits, Of
      <4>5. IsFiniteSet(members')
        BY <2>1, <3>3, FS_AddElement
      <4>6. QED
        BY <2>1, <3>3, <4>2, <4>3, <4>4, <4>5
    <3>4. QED
      BY <2>3, <3>1, <3>2, <3>3 DEF PersistMember
  <2>4. ASSUME NEW d \in Dialogue, EndInStore(d)
        PROVE  IsFiniteSet(members') /\ (\A m \in members' : Seated(m)') /\ \A m, n \in members' : m.who = n.who => m = n
    <3>1. PICK key : members' = Entered(key)
      BY <2>4 DEF EndInStore, Entered
    <3>2. /\ IsFiniteSet(members') /\ \A m \in members' : m \in MemberRow
          /\ \A m \in members' : \E n \in members : m.key = n.key /\ m.who = n.who
          /\ \A m, n \in members' : m.who = n.who => m = n
      BY <2>1, <3>1, ResultsEntered
    <3>3. MemberRow' = MemberRow
      BY DEF MemberRow
    <3>4. QED
      BY <2>1, <3>2, <3>3 DEF Seated
  <2>5. \/ members' \subseteq members \/ \E d \in Dialogue : EndInStore(d)
        \/ \E d \in Dialogue, p \in Person : PersistMember(d, p)
    BY WhoWrites, CommitRemoves
  <2>6. QED
    BY <2>2, <2>3, <2>4, <2>5
<1>5. QED
  BY <1>2, <1>3, <1>4, SessionsStep DEF TablesAreSound

\* What is new in a table: people who have just arrived, rows of people who are
\* there, events of a session whose row is there, rows of new sessions.
LEMMA NewRows ==
    ASSUME DataIInv, DataNext
    PROVE  /\ \A p \in people' : p \in people \/ p \notin arrived
           /\ \A m \in members' : m.who \in people \/ \E n \in members : m.key = n.key /\ m.who = n.who
           /\ \A c \in consents' : c \in consents \/ c.who \in people
           /\ \A e \in events' : \/ e \in events
                                 \/ e.who \in people /\ Begun(e.dialogue) /\ live[e.dialogue].key \in Keys
           /\ \A s \in sessions' : \/ \E r \in sessions : r.dialogue = s.dialogue
                                   \/ ~Begun(s.dialogue)
<1>1. \A p \in people' : p \in people \/ p \notin arrived
  <2>1. people' \subseteq people \/ \E p \in Person : people' = people \cup {p} /\ p \notin arrived
    BY WhoWrites, CommitRemoves DEF Arrive
  <2>2. QED
    BY <2>1
<1>2. \A m \in members' : m.who \in people \/ \E n \in members : m.key = n.key /\ m.who = n.who
  <2>1. ASSUME NEW d \in Dialogue, NEW p \in Person, PersistMember(d, p)
        PROVE  \A m \in members' : m.who \in people \/ m \in members
    BY <2>1 DEF PersistMember, MemberFits
  <2>2. ASSUME NEW d \in Dialogue, EndInStore(d)
        PROVE  \A m \in members' : \E n \in members : m.key = n.key /\ m.who = n.who
    <3>1. PICK key : members' = Entered(key)
      BY <2>2 DEF EndInStore, Entered
    <3>2. IsFiniteSet(members) /\ (\A m \in members : m \in MemberRow) /\ \A m, n \in members : m.who = n.who => m = n
      BY DEF DataIInv, TablesAreSound, Seated
    <3>3. QED
      BY <3>1, <3>2, ResultsEntered
  <2>3. \/ members' \subseteq members \/ \E d \in Dialogue : EndInStore(d)
        \/ \E d \in Dialogue, p \in Person : PersistMember(d, p)
    BY WhoWrites, CommitRemoves
  <2>4. QED
    BY <2>1, <2>2, <2>3
<1>3. \A c \in consents' : c \in consents \/ c.who \in people
  <2>1. ASSUME NEW p \in Person, NEW d \in Dialogue \cup {0}, Consent(p, d)
        PROVE  \A c \in consents' : c \in consents \/ c.who \in people
    BY <2>1 DEF Consent, ConsentFits
  <2>2. consents' \subseteq consents \/ \E p \in Person, d \in Dialogue \cup {0} : Consent(p, d)
    BY WhoWrites, CommitRemoves
  <2>3. QED
    BY <2>1, <2>2
<1>4. \A e \in events' : \/ e \in events
                         \/ e.who \in people /\ Begun(e.dialogue) /\ live[e.dialogue].key \in Keys
  <2>1. ASSUME NEW d \in Dialogue, NEW p \in Person, NEW kind \in {"message", "diagnostic"}, WriteRow(d, p, kind)
        PROVE  \A e \in events' : e \in events \/ (e.who \in people /\ Begun(e.dialogue) /\ live[e.dialogue].key \in Keys)
    <3>1. p \in people /\ Begun(d) /\ live[d].key \in Keys
      BY <2>1 DEF WriteRow, Begun, EventFits
    <3>2. \A e \in events' : e \in events \/ (e.who = p /\ e.dialogue = d)
      BY <2>1 DEF WriteRow
    <3>3. QED
      BY <3>1, <3>2
  <2>2. events' \subseteq events \/ \E d \in Dialogue, p \in Person, kind \in {"message", "diagnostic"} : WriteRow(d, p, kind)
    BY WhoWrites, CommitRemoves
  <2>3. QED
    BY <2>1, <2>2
<1>5. \A s \in sessions' : (\E r \in sessions : r.dialogue = s.dialogue) \/ ~Begun(s.dialogue)
  <2>1. ASSUME NEW p \in Person, CreateSession(p)
        PROVE  \A s \in sessions' : s \in sessions \/ ~Begun(s.dialogue)
    <3>1. PICK d \in Dialogue, key \in Nat :
              /\ ~Begun(d)
              /\ sessions' = sessions \cup {[key |-> key, dialogue |-> d, lifecycle |-> "forming",
                                             started |-> FALSE, purpose |-> Purpose(p)]}
      BY <2>1, SessionCreated
    <3>2. QED
      BY <3>1
  <2>2. ASSUME NEW key \in Keys, NEW t, sessions' = Rewritten(key, t), t.dialogue = RowOf(key).dialogue
        PROVE  \A s \in sessions' : \E r \in sessions : r.dialogue = s.dialogue
    BY <2>2, RowOfKey DEF Rewritten
  <2>3. \A s \in sessions : s \in SessionRow
    BY DEF DataIInv, TablesAreSound, Hosted
  <2>4. ASSUME NEW d \in Dialogue, Start(d) \/ EndInStore(d)
        PROVE  \A s \in sessions' : \E r \in sessions : r.dialogue = s.dialogue
    <3>1. PICK key, t : /\ key \in Keys /\ sessions' = Rewritten(key, t)
                      /\ \/ t = [RowOf(key) EXCEPT !.lifecycle = "running", !.started = TRUE]
                         \/ t = [RowOf(key) EXCEPT !.lifecycle = "ended"]
      BY <2>4 DEF Start, EndInStore
    <3>2. RowOf(key) \in SessionRow
      BY <2>3, <3>1, RowOfKey
    <3>3. t.dialogue = RowOf(key).dialogue
      BY <3>1, <3>2 DEF SessionRow
    <3>4. QED
      BY <2>2, <3>1, <3>3
  <2>5. sessions' \subseteq sessions \/ (\E d \in Dialogue : Start(d) \/ EndInStore(d)) \/ \E p \in Person : CreateSession(p)
    BY WhoWrites, CommitRemoves
  <2>6. QED
    BY <2>1, <2>4, <2>5
<1>6. QED
  BY <1>1, <1>2, <1>3, <1>4, <1>5

\* Only a deletion takes anybody out of a session.
LEMMA KeysStay ==
    ASSUME DataIInv, DataNext, ~\E p \in Person : CommitDeletion(p), NEW q
    PROVE  KeysOf(q) \subseteq KeysOf(q)'
<1>1. ASSUME NEW d \in Dialogue, EndInStore(d)
      PROVE  \A n \in members : \E m \in members' : m.key = n.key /\ m.who = n.who
  <2>1. PICK key : members' = Entered(key)
    BY <1>1 DEF EndInStore, Entered
  <2>2. IsFiniteSet(members) /\ (\A m \in members : m \in MemberRow) /\ \A m, n \in members : m.who = n.who => m = n
    BY DEF DataIInv, TablesAreSound, Seated
  <2>3. QED
    BY <2>1, <2>2, ResultsEntered
<1>2. members \subseteq members' \/ \E d \in Dialogue : EndInStore(d)
  BY WhoWrites DEF PersistMember
<1>3. QED
  BY <1>1, <1>2 DEF KeysOf

\* The deletion, one step at a time.
LEMMA DeletionStep ==
    ASSUME DataIInv, DataNext, SeatsGrow, MemoryIsSound'
    PROVE  DeletionIsSound'
<1>1. MemoryIsSound /\ TablesAreSound /\ DeletionIsSound
  BY DEF DataIInv
<1>2. \A d \in Dialogue : Begun(d) => Begun(d)' /\ live'[d].key = live[d].key
  BY DEF SeatsGrow
<1>3. /\ deletion.who \subseteq arrived' /\ \A d \in deletion.dialogues : d \in Dialogue /\ Begun(d) /\ Begun(d)' /\ live'[d].key = live[d].key
      /\ Dialogue' = Dialogue
  BY <1>1, <1>2 DEF DeletionIsSound, SeatsGrow, Dialogue
<1>4. CASE UNCHANGED deletion /\ ~\E p \in Person : CommitDeletion(p)
  <2>1. deletion.step = "commit" => \A d \in deletion.dialogues, p \in deletion.who : live'[d].key \in KeysOf(p)'
    BY <1>1, <1>3, <1>4, KeysStay DEF DeletionIsSound
  <2>2. ASSUME deletion.step = "deleted"
        PROVE  DeletedIsGone'
    <3>1. /\ \A p \in deletion.who : p \in arrived /\ p \notin people /\ \A x \in members \cup consents \cup events : x.who # p
          /\ \A s \in sessions : s.dialogue \notin deletion.dialogues
          /\ keyReused \/ \A e \in events : e.dialogue \notin deletion.dialogues
      BY <1>1, <2>2 DEF DeletionIsSound, DeletedIsGone
    <3>2. /\ \A p \in people' : p \in people \/ p \notin arrived
          /\ \A m \in members' : m.who \in people \/ \E n \in members : m.key = n.key /\ m.who = n.who
          /\ \A c \in consents' : c \in consents \/ c.who \in people
          /\ \A e \in events' : \/ e \in events
                                \/ e.who \in people /\ Begun(e.dialogue) /\ live[e.dialogue].key \in Keys
          /\ \A s \in sessions' : \/ \E r \in sessions : r.dialogue = s.dialogue
                                  \/ ~Begun(s.dialogue)
      BY NewRows
    <3>3. \A p \in deletion.who : p \notin people' /\ \A x \in members' \cup consents' \cup events' : x.who # p
      BY <3>1, <3>2
    <3>4. \A s \in sessions' : s.dialogue \notin deletion.dialogues
      BY <1>3, <3>1, <3>2
    <3>5. ASSUME ~keyReused', NEW e \in events', e.dialogue \in deletion.dialogues
          PROVE  FALSE
      <4>1. ~keyReused
        BY <3>5 DEF SeatsGrow
      <4>2. Begun(e.dialogue) /\ e.dialogue \in Dialogue /\ live[e.dialogue].key \in Keys
        BY <1>3, <3>1, <3>2, <3>5, <4>1
      <4>3. PICK s \in sessions : s.key = live[e.dialogue].key
        BY <4>2 DEF Keys
      <4>4. s.dialogue \in Dialogue /\ Begun(s.dialogue) /\ live[s.dialogue].key = live[e.dialogue].key
        BY <1>1, <4>3 DEF TablesAreSound, Hosted, Begun
      <4>5. s.dialogue = e.dialogue
        BY <1>1, <4>1, <4>2, <4>4 DEF MemoryIsSound
      <4>6. QED
        BY <3>1, <3>5, <4>5
    <3>6. QED
      BY <1>4, <3>3, <3>4, <3>5 DEF DeletedIsGone
  <2>3. DeletedIsGone'
    BY <1>4, <2>2 DEF DeletedIsGone
  <2>4. QED
    BY <1>1, <1>3, <1>4, <2>1, <2>3 DEF DeletionIsSound
<1>5. ASSUME NEW p \in Person, RequestDeletion(p)
      PROVE  DeletionIsSound'
  <2>1. deletion' = [step |-> "preview", who |-> {p}, dialogues |-> {}]
    BY <1>5 DEF RequestDeletion, NoDeletion
  <2>2. p \in arrived'
    <3>1. PICK m \in members : m.who = p
      BY <1>5 DEF RequestDeletion, KeysOf
    <3>2. PICK d \in Dialogue : p \in live[d].seats
      BY <1>1, <3>1 DEF TablesAreSound, Seated
    <3>3. QED
      BY <1>1, <3>2 DEF MemoryIsSound, SeatsGrow
  <2>3. QED
    BY <2>1, <2>2 DEF DeletionIsSound, DeletedIsGone
<1>6. ASSUME NEW p \in Person, PreviewDeletion(p)
      PROVE  DeletionIsSound'
  <2>1. /\ deletion.step = "preview" /\ deletion.who = {p} /\ UNCHANGED <<tables, memory, keyReused>>
        /\ deletion.dialogues = {}
        /\ deletion = [step |-> deletion.step, who |-> deletion.who, dialogues |-> deletion.dialogues]
    BY <1>1, <1>6 DEF PreviewDeletion, DeletionIsSound
  <2> DEFINE ds == {s.dialogue : s \in {x \in sessions : x.key \in KeysOf(p)}}
  <2>2. CASE deletion' = [step |-> "blocked", who |-> {p}, dialogues |-> {}]
    BY <1>3, <2>1, <2>2 DEF DeletionIsSound, DeletedIsGone
  <2>3. CASE deletion' = [step |-> "commit", who |-> {p}, dialogues |-> ds]
    <3>1. \A d \in ds : d \in Dialogue /\ Begun(d)' /\ live'[d].key \in KeysOf(p)
      BY <1>1, <1>2 DEF TablesAreSound, Hosted, Begun
    <3>2. KeysOf(p)' = KeysOf(p)
      BY <2>1 DEF KeysOf, tables
    <3> HIDE DEF ds
    <3>3. deletion'.step = "commit" /\ deletion'.who = {p} /\ deletion'.dialogues = ds
      BY <2>3
    <3>4. QED
      BY <1>3, <2>1, <2>3, <3>1, <3>2, <3>3 DEF DeletionIsSound, DeletedIsGone
  <2>4. \/ deletion' = [deletion EXCEPT !.step = "blocked"]
        \/ deletion' = [deletion EXCEPT !.step = "commit", !.dialogues = ds]
    BY <1>6 DEF PreviewDeletion
  <2> HIDE DEF ds
  <2>5. QED
    BY <2>1, <2>2, <2>3, <2>4
<1>7. ASSUME NEW p \in Person, CommitDeletion(p)
      PROVE  DeletionIsSound'
  <2>1. /\ deletion.step = "commit" /\ deletion.who = {p} /\ UNCHANGED <<memory, keyReused>>
        /\ deletion = [step |-> deletion.step, who |-> deletion.who, dialogues |-> deletion.dialogues]
    BY <1>1, <1>7 DEF CommitDeletion, DeletionIsSound
  <2>2. CASE deletion' = [deletion EXCEPT !.step = "failed"]
    <3>1. deletion' = [step |-> "failed", who |-> deletion.who, dialogues |-> deletion.dialogues]
      BY <2>1, <2>2
    <3>2. QED
      BY <1>3, <3>1 DEF DeletionIsSound, DeletedIsGone
  <2>3. CASE /\ ~Unfinished(p) /\ ~StillReferenced(p)
             /\ consents' = {c \in consents : c.who # p /\ c.key \notin KeysOf(p)}
             /\ events' = {e \in events : e.key \notin KeysOf(p)}
             /\ members' = {m \in members : m.key \notin KeysOf(p)}
             /\ sessions' = {s \in sessions : s.dialogue \notin deletion.dialogues}
             /\ people' = people \ {p}
             /\ deletion' = [deletion EXCEPT !.step = "deleted"]
    <3>1. deletion' = [step |-> "deleted", who |-> {p}, dialogues |-> deletion.dialogues]
      BY <2>1, <2>3
    <3>2. \A x \in members' \cup consents' \cup events' : x.who # p
      <4>1. \A m \in members : m.who = p => m.key \in KeysOf(p)
        BY DEF KeysOf
      <4>2. \A e \in events : e.who = p => e.key \in KeysOf(p)
        BY <2>3 DEF StillReferenced
      <4>3. QED
        BY <2>3, <4>1, <4>2
    <3>3. \A e \in events' : e.dialogue \notin deletion.dialogues
      <4>1. \A d \in deletion.dialogues : live[d].key \in KeysOf(p)
        BY <1>1, <2>1 DEF DeletionIsSound
      <4>2. \A e \in events : e.key = live[e.dialogue].key
        BY <1>1 DEF TablesAreSound, Written
      <4>3. QED
        BY <2>3, <4>1, <4>2
    <3>4. deletion'.step = "deleted" /\ deletion'.who = {p} /\ deletion'.dialogues = deletion.dialogues
      BY <3>1
    <3>5. DeletedIsGone'
      BY <2>3, <3>2, <3>3, <3>4 DEF DeletedIsGone
    <3>6. QED
      BY <1>3, <2>1, <3>1, <3>4, <3>5 DEF DeletionIsSound
  <2>4. QED
    BY <1>7, <2>2, <2>3 DEF CommitDeletion
<1>8. \/ UNCHANGED deletion /\ ~\E p \in Person : CommitDeletion(p)
      \/ \E p \in Person : RequestDeletion(p) \/ PreviewDeletion(p) \/ CommitDeletion(p)
  BY WhoWrites
<1>9. QED
  BY <1>4, <1>5, <1>6, <1>7, <1>8

\* Two members of a session with two seats sat in them.
LEMMA BothSeats ==
    ASSUME NEW M, NEW S, IsFiniteSet(S), Cardinality(S) = 2, IsFiniteSet(M), Cardinality(M) = 2,
           \A m \in M : m.who \in S, \A m, n \in M : m.who = n.who => m = n
    PROVE  {m.who : m \in M} = S
<1> DEFINE W == {m.who : m \in M}
           f == [m \in M |-> m.who]
<1>1. f \in Bijection(M, W)
  BY DEF Bijection, Injection, Surjection, IsInjective
<1>2. Cardinality(W) = 2
  BY <1>1, FS_Bijection DEF ExistsBijection
<1>3. W \in SUBSET S
  OBVIOUS
<1> HIDE DEF W
<1>4. W = S
  BY <1>2, <1>3, FS_Subset
<1>5. QED
  BY <1>4 DEF W

\* What is handed out, if it is: of the sessions that were read, those that are
\* published, with the messages and the members that have their keys.
LEMMA CorpusHandedOut ==
    ASSUME ExportIsSound, TablesAreSound, MemoryIsSound, NEW x, x = Filtered([export EXCEPT !.members = members]), Sound(x), ~keyReused,
           NEW s \in x.sessions
    PROVE  LET seats == live[s.dialogue].seats IN
            /\ s.started /\ seats \cap testers = {} /\ Cardinality(seats) = 2
            /\ {m.who : m \in Of(s.key, x.members)} = seats
            /\ \A e \in Of(s.key, x.events) : e.dialogue = s.dialogue /\ e.who \in seats
<1> DEFINE seats == live[s.dialogue].seats
<1>1. /\ s \in export.sessions /\ Published(s)
      /\ x.members \subseteq members /\ x.events \subseteq export.events
  BY DEF Filtered, ExportIsSound
<1>2. Hosted(s) /\ s.dialogue \in Dialogue /\ Begun(s.dialogue) /\ s.key = live[s.dialogue].key
  BY <1>1 DEF ExportIsSound, Hosted, Begun
<1>3. s.started /\ Cardinality(seats) = 2 /\ IsFiniteSet(seats)
  BY <1>1, <1>2 DEF Published, Hosted, MemoryIsSound
<1>4. seats \cap testers = {}
  BY <1>1, <1>2 DEF Published, Hosted, Purpose
<1>5. \A d \in Dialogue : Begun(d) /\ live[d].key = s.key => d = s.dialogue
  BY <1>2 DEF MemoryIsSound
<1>6. {m.who : m \in Of(s.key, x.members)} = seats
  <2> DEFINE M == Of(s.key, x.members)
  <2>1. Cardinality(M) = 2
    BY DEF Sound
  <2>2. M \in SUBSET members
    BY <1>1 DEF Of
  <2>3. IsFiniteSet(M)
    BY <2>2, FS_Subset DEF TablesAreSound
  <2>4. \A m \in M : m.who \in seats
    <3> SUFFICES ASSUME NEW m \in M
                 PROVE  m.who \in seats
      OBVIOUS
    <3>1. m \in members /\ m.key = s.key
      BY <2>2 DEF Of
    <3>2. PICK d \in Dialogue : Begun(d) /\ m.key = live[d].key /\ m.who \in live[d].seats
      BY <3>1 DEF TablesAreSound, Seated
    <3>3. QED
      BY <1>5, <3>1, <3>2
  <2>5. \A m, n \in M : m.who = n.who => m = n
    BY <2>2 DEF TablesAreSound
  <2> HIDE DEF M, seats
  <2>6. {m.who : m \in M} = seats
    BY <1>3, <2>1, <2>3, <2>4, <2>5, BothSeats
  <2>7. QED
    BY <2>6 DEF M
<1>7. \A e \in Of(s.key, x.events) : e.dialogue = s.dialogue /\ e.who \in seats
  <2> SUFFICES ASSUME NEW e \in Of(s.key, x.events)
               PROVE  e.dialogue = s.dialogue /\ e.who \in seats
    OBVIOUS
  <2>1. e \in export.events /\ e.key = s.key
    BY <1>1 DEF Of
  <2>2. Begun(e.dialogue) /\ e.dialogue \in Dialogue /\ e.key = live[e.dialogue].key /\ e.who \in live[e.dialogue].seats
    BY <2>1 DEF ExportIsSound, Written, Begun
  <2>3. QED
    BY <1>5, <2>1, <2>2
<1>8. QED
  BY <1>3, <1>4, <1>6, <1>7

\* The export, one step at a time.
LEMMA ExportStep ==
    ASSUME DataIInv, DataNext, SeatsGrow
    PROVE  ExportIsSound'
<1>1. MemoryIsSound /\ TablesAreSound /\ ExportIsSound
  BY DEF DataIInv
<1>2. /\ export = [step |-> export.step, sessions |-> export.sessions, events |-> export.events,
                   people |-> export.people, members |-> export.members]
      /\ \A s \in export.sessions : Hosted(s) /\ Hosted(s)'
      /\ \A e \in export.events : Written(e)'
  BY <1>1, RowsStayTrue DEF ExportIsSound
<1>3. (\A s \in sessions : Hosted(s)') /\ (\A e \in events : Written(e)')
  BY <1>1, RowsStayTrue DEF TablesAreSound
<1>4. CASE UNCHANGED export
  <2>1. ASSUME export.step = "done", ~keyReused', NEW s \in export.sessions
        PROVE  live'[s.dialogue].seats = live[s.dialogue].seats /\ testers' = testers /\ ~keyReused
    <3>1. ~keyReused
      BY <2>1 DEF SeatsGrow
    <3>2. Cardinality(live[s.dialogue].seats) = 2 /\ s.dialogue \in Dialogue /\ Begun(s.dialogue)
      BY <1>1, <1>2, <2>1, <3>1 DEF ExportIsSound, CorpusIsFaithful, Hosted, Begun
    <3>3. QED
      BY <3>1, <3>2 DEF SeatsGrow
  <2>2. CorpusIsFaithful'
    BY <1>1, <1>4, <2>1 DEF ExportIsSound, CorpusIsFaithful, Of
  <2>3. QED
    BY <1>2, <1>4, <2>2 DEF ExportIsSound
<1>5. CASE ReadSessions
  <2>1. export' = [step |-> "events", sessions |-> sessions, events |-> export.events,
                   people |-> export.people, members |-> export.members]
    BY <1>2, <1>5 DEF ReadSessions
  <2>2. QED
    BY <1>2, <1>3, <2>1 DEF ExportIsSound, CorpusIsFaithful
<1>6. CASE ReadEvents
  <2>1. export' = [step |-> "people", sessions |-> export.sessions, events |-> events,
                   people |-> export.people, members |-> export.members]
    BY <1>2, <1>6 DEF ReadEvents
  <2>2. QED
    BY <1>2, <1>3, <2>1 DEF ExportIsSound, CorpusIsFaithful
<1>7. CASE ReadPeople
  <2>1. export' = [step |-> "members", sessions |-> export.sessions, events |-> export.events,
                   people |-> people \cap {m.who : m \in members}, members |-> export.members]
    BY <1>2, <1>7 DEF ReadPeople
  <2>2. QED
    BY <1>2, <2>1 DEF ExportIsSound, CorpusIsFaithful
<1>8. CASE ReadMembers
  <2>1. PICK x : x = Filtered([export EXCEPT !.members = members])
    OBVIOUS
  <2>2. /\ x = [step |-> x.step, sessions |-> x.sessions, events |-> x.events, people |-> x.people, members |-> x.members]
        /\ x.sessions \subseteq export.sessions /\ x.events \subseteq export.events
    BY <1>2, <2>1 DEF Filtered
  <2>3. CASE Sound(x)
    <3>1. export' = [step |-> "done", sessions |-> x.sessions, events |-> x.events, people |-> x.people, members |-> x.members]
      BY <1>8, <2>1, <2>2, <2>3 DEF ReadMembers
    <3>2. UNCHANGED <<live, testers, keyReused>>
      BY <1>8 DEF ReadMembers, memory
    <3>3. ~keyReused => \A s \in x.sessions :
            LET seats == live[s.dialogue].seats IN
            /\ s.started /\ seats \cap testers = {} /\ Cardinality(seats) = 2
            /\ {m.who : m \in Of(s.key, x.members)} = seats
            /\ \A e \in Of(s.key, x.events) : e.dialogue = s.dialogue /\ e.who \in seats
      BY <1>1, <2>1, <2>3, CorpusHandedOut
    <3>4. /\ export'.step = "done" /\ export'.sessions = x.sessions /\ export'.events = x.events
          /\ export'.members = x.members /\ export'.people = x.people
      BY <3>1
    <3>5. CorpusIsFaithful'
      BY <3>2, <3>3, <3>4 DEF CorpusIsFaithful, Of
    <3>6. QED
      BY <1>2, <2>2, <3>1, <3>4, <3>5 DEF ExportIsSound
  <2>4. CASE ~Sound(x)
    <3>1. export' = [step |-> "integrity_error", sessions |-> {}, events |-> {}, people |-> {}, members |-> {}]
      BY <1>8, <2>1, <2>4 DEF ReadMembers, NoExport
    <3>2. QED
      BY <3>1 DEF ExportIsSound, CorpusIsFaithful
  <2>5. QED
    BY <2>3, <2>4
<1>9. UNCHANGED export \/ ReadSessions \/ ReadEvents \/ ReadPeople \/ ReadMembers
  BY WhoWrites
<1>10. QED
  BY <1>4, <1>5, <1>6, <1>7, <1>8, <1>9

\* The inductive invariant holds and implies what the tables and the export promise.
LEMMA DataHolds == DataSpec => []DataIInv
<1>1. DataInit => DataIInv
  <2> SUFFICES ASSUME DataInit
               PROVE  DataIInv
    OBVIOUS
  <2>1. MemoryIsSound
    <3>1. NoSession \in Seating /\ NoSession.seats = {} /\ NoSession.phase = "none"
      BY DEF NoSession, Seating
    <3>2. live = [d \in Dialogue |-> NoSession] /\ joining = {}
      BY DEF DataInit
    <3> HIDE DEF NoSession
    <3>3. \A d \in Dialogue : live[d] = NoSession /\ ~Begun(d)
      BY <3>1, <3>2 DEF Begun
    <3>4. QED
      BY <3>1, <3>2, <3>3, FS_EmptySet DEF MemoryIsSound
  <2>2. TablesAreSound
    BY FS_EmptySet DEF DataInit, TablesAreSound
  <2>3. DeletionIsSound
    BY DEF DataInit, DeletionIsSound, NoDeletion, DeletedIsGone
  <2>4. ExportIsSound
    BY DEF DataInit, ExportIsSound, NoExport, CorpusIsFaithful
  <2>5. QED
    BY <2>1, <2>2, <2>3, <2>4 DEF DataIInv
<1>2. DataIInv /\ [DataNext]_dataVars => DataIInv'
  <2>1. CASE DataIInv /\ DataNext
    BY <2>1, MemoryStep, TablesStep, DeletionStep, ExportStep DEF DataIInv
  <2>2. CASE DataIInv /\ UNCHANGED dataVars
    BY <2>2 DEF dataVars, tables, memory, DataIInv, MemoryIsSound, TablesAreSound, DeletionIsSound, ExportIsSound, Hosted, Written,
                Seated, Begun, Seating, Dialogue, SessionRow, MemberRow, Purpose, DeletedIsGone, CorpusIsFaithful, KeysOf, Of
  <2>3. QED
    BY <2>1, <2>2
<1>3. QED
  BY <1>1, <1>2, PTL DEF DataSpec

\* A deletion spares who has not finished.
LEMMA UnfinishedStay ==
    ASSUME DataIInv, DataNext, NEW s \in sessions, s.lifecycle # "ended"
    PROVE  /\ \E t \in sessions' : t.dialogue = s.dialogue
           /\ Cardinality(Of(s.key, members)) <= Cardinality(Of(s.key, members'))
           /\ Of(s.key, events) \subseteq events'
<1>1. MemoryIsSound /\ TablesAreSound /\ DeletionIsSound
  BY DEF DataIInv
<1>2. IsFiniteSet(members) /\ (\A m \in members : m \in MemberRow) /\ \A m, n \in members : m.who = n.who => m = n
  BY <1>1 DEF TablesAreSound, Seated
<1>3. \A r \in sessions : r \in SessionRow
  BY <1>1 DEF TablesAreSound, Hosted
<1>4. ASSUME NEW p \in Person, CommitDeletion(p)
      PROVE  s \in sessions' /\ Of(s.key, members') = Of(s.key, members) /\ Of(s.key, events) \subseteq events'
  <2>1. CASE UNCHANGED tables
    BY <2>1 DEF tables, Of
  <2>2. CASE /\ ~Unfinished(p)
             /\ events' = {e \in events : e.key \notin KeysOf(p)}
             /\ members' = {m \in members : m.key \notin KeysOf(p)}
             /\ sessions' = {x \in sessions : x.dialogue \notin deletion.dialogues}
    <3>1. s.key \notin KeysOf(p)
      BY <2>2 DEF Unfinished
    <3>2. s.dialogue \notin deletion.dialogues
      <4>1. deletion.step = "commit" /\ deletion.who = {p}
        BY <1>4 DEF CommitDeletion
      <4>2. \A d \in deletion.dialogues : live[d].key \in KeysOf(p)
        BY <1>1, <4>1 DEF DeletionIsSound
      <4>3. s.key = live[s.dialogue].key
        BY <1>1 DEF TablesAreSound, Hosted
      <4>4. QED
        BY <3>1, <4>2, <4>3
    <3>3. QED
      BY <2>2, <3>1, <3>2 DEF Of
  <2>3. QED
    BY <1>4, <2>1, <2>2 DEF CommitDeletion
<1>5. \E t \in sessions' : t.dialogue = s.dialogue
  <2>1. ASSUME NEW d \in Dialogue, Start(d) \/ EndInStore(d)
        PROVE  \E t \in sessions' : t.dialogue = s.dialogue
    <3>1. PICK key, t : /\ key \in Keys /\ sessions' = Rewritten(key, t)
                        /\ \/ t = [RowOf(key) EXCEPT !.lifecycle = "running", !.started = TRUE]
                           \/ t = [RowOf(key) EXCEPT !.lifecycle = "ended"]
      BY <2>1 DEF Start, EndInStore
    <3>2. RowOf(key) \in SessionRow
      BY <1>3, <3>1, RowOfKey
    <3>3. t.dialogue = RowOf(key).dialogue
      BY <3>1, <3>2 DEF SessionRow
    <3>4. QED
      BY <3>1, <3>3 DEF Rewritten
  <2>2. sessions \subseteq sessions' \/ (\E d \in Dialogue : Start(d) \/ EndInStore(d)) \/ \E p \in Person : CommitDeletion(p)
    BY WhoWrites DEF CreateSession
  <2>3. QED
    BY <1>4, <2>1, <2>2
<1>6. Cardinality(Of(s.key, members)) <= Cardinality(Of(s.key, members'))
  <2>1. IsFiniteSet(Of(s.key, members)) /\ Cardinality(Of(s.key, members)) \in Nat
    BY <1>2, FS_Subset, FS_CardinalityType DEF Of
  <2>2. ASSUME NEW d \in Dialogue, EndInStore(d)
        PROVE  Cardinality(Of(s.key, members')) = Cardinality(Of(s.key, members))
    <3>1. PICK key : members' = Entered(key)
      BY <2>2 DEF EndInStore, Entered
    <3>2. QED
      BY <1>2, <3>1, ResultsEntered
  <2>3. ASSUME NEW m, members' = members \cup {m}
        PROVE  Cardinality(Of(s.key, members)) <= Cardinality(Of(s.key, members'))
    <3>1. IsFiniteSet(members')
      BY <1>2, <2>3, FS_AddElement
    <3>2. IsFiniteSet(Of(s.key, members'))
      BY <3>1, FS_Subset DEF Of
    <3>3. Of(s.key, members) \in SUBSET Of(s.key, members')
      BY <2>3 DEF Of
    <3>4. QED
      BY <3>2, <3>3, FS_Subset
  <2>4. \/ UNCHANGED members \/ \E m : members' = members \cup {m}
        \/ \E d \in Dialogue : EndInStore(d)
        \/ \E p \in Person : CommitDeletion(p)
    BY WhoWrites DEF PersistMember
  <2>5. ASSUME Of(s.key, members') = Of(s.key, members)
        PROVE  Cardinality(Of(s.key, members)) <= Cardinality(Of(s.key, members'))
    BY <2>1, <2>5
  <2>6. CASE UNCHANGED members
    BY <2>5, <2>6
  <2>7. CASE \E d \in Dialogue : EndInStore(d)
    BY <2>1, <2>2, <2>7
  <2>8. CASE \E p \in Person : CommitDeletion(p)
    BY <1>4, <2>5, <2>8
  <2>9. QED
    BY <2>3, <2>4, <2>6, <2>7, <2>8
<1>7. Of(s.key, events) \subseteq events'
  <2>1. events \subseteq events' \/ \E p \in Person : CommitDeletion(p)
    BY WhoWrites DEF WriteRow
  <2>2. QED
    BY <1>4, <2>1 DEF Of
<1>8. QED
  BY <1>5, <1>6, <1>7

\* A behaviour keeps it (delete_participant_data).
LEMMA DataIsKept == DataSpec => []DeletedIsGone /\ []CorpusIsFaithful /\ UnfinishedIsSpared
<1> DEFINE Spared == \A s \in sessions : s.lifecycle # "ended" =>
          /\ \E t \in sessions' : t.dialogue = s.dialogue
          /\ Cardinality(Of(s.key, members)) <= Cardinality(Of(s.key, members'))
          /\ Of(s.key, events) \subseteq events'
<1>1. DataIInv => DeletedIsGone /\ CorpusIsFaithful
  BY DEF DataIInv, DeletionIsSound, ExportIsSound
<1>2. DataIInv /\ [DataNext]_dataVars => [Spared]_dataVars
  BY UnfinishedStay
<1>3. QED
  BY <1>1, <1>2, DataHolds, PTL DEF DataSpec, UnfinishedIsSpared
-----------------------------------------------------------------------------
(* The liveness table *)

\* A session, a socket and the table being made.
SeatState == [source : {"none", "browser", "agent"}, connected : BOOLEAN, reconnect : Nat]
SessionState == [life : {"forming", "running", "ended"}, waiting : Nat \ {0}, lifetime : Nat \ {0}, idle : Nat,
                 seats : [Seat -> SeatState]]
LinkState == {l \in [open : BOOLEAN, message : Nat, heartbeat : Nat] : l.heartbeat <= l.message}

\* The inductive invariant of the liveness table: a heartbeat is a message too,
\* and the table is made of a session and of sockets that there were.
MonitorIInv ==
    /\ now \in Nat /\ session \in SessionState /\ links \in [Seat -> LinkState]
    /\ \A r \in Seat : links[r].message <= now
    /\ look = [step |-> look.step, session |-> look.session, links |-> look.links, at |-> look.at]
    /\ look.session \in SessionState /\ look.links \in [Seat -> LinkState] /\ look.at \in Nat

\* A session whose seats change.
LEMMA SeatChanges ==
    ASSUME NEW m \in SessionState, NEW r \in Seat, NEW s \in SeatState, NEW n, n = [m EXCEPT !.seats[r] = s]
    PROVE  n \in SessionState
<1> DEFINE T == [Seat -> SeatState]
<1>1. m.seats \in T /\ [m.seats EXCEPT ![r] = s] \in T
  BY DEF SessionState
<1>2. n = [m EXCEPT !.seats = [m.seats EXCEPT ![r] = s]]
  BY DEF SessionState
<1> HIDE DEF T
<1>3. m \in [life : {"forming", "running", "ended"}, waiting : Nat \ {0}, lifetime : Nat \ {0}, idle : Nat, seats : T]
  BY DEF SessionState, T
<1>4. n \in [life : {"forming", "running", "ended"}, waiting : Nat \ {0}, lifetime : Nat \ {0}, idle : Nat, seats : T]
  BY <1>1, <1>2, <1>3
<1>5. QED
  BY <1>4 DEF SessionState, T

\* The table, one step at a time.
LEMMA MonitorStep ==
    ASSUME MonitorIInv, MonitorNext
    PROVE  MonitorIInv'
<1>1. /\ now \in Nat /\ session \in SessionState /\ links \in [Seat -> LinkState]
      /\ look = [step |-> look.step, session |-> look.session, links |-> look.links, at |-> look.at]
      /\ look.session \in SessionState /\ look.links \in [Seat -> LinkState] /\ look.at \in Nat
      /\ \A r \in Seat : links[r].message <= now
  BY DEF MonitorIInv
<1>2. \A r \in Seat : session.seats[r] \in SeatState
  BY <1>1 DEF SessionState
<1>3. IdleTime \in Nat /\ Grace \in Nat
  BY MonitorAssumption
<1>4. CASE TimePasses
  <2>1. now' = now + 1 /\ UNCHANGED <<session, links, look>>
    BY <1>4 DEF TimePasses
  <2>2. \A r \in Seat : links[r].message \in Nat
    BY <1>1 DEF LinkState
  <2>3. \A r \in Seat : links[r].message <= now + 1
    BY <1>1, <2>2
  <2>4. QED
    BY <1>1, <2>1, <2>3 DEF MonitorIInv
<1>5. ASSUME session' \in SessionState, UNCHANGED <<now, links, look>>
      PROVE  MonitorIInv'
  BY <1>1, <1>5 DEF MonitorIInv, SessionState, SeatState
<1>6. ASSUME NEW r \in Seat, NEW l \in LinkState, l.message <= now, links' = [links EXCEPT ![r] = l],
             session' \in SessionState, UNCHANGED <<now, look>>
      PROVE  MonitorIInv'
  <2>1. links' \in [Seat -> LinkState] /\ \A q \in Seat : links'[q].message <= now
    BY <1>1, <1>6
  <2>2. QED
    BY <1>1, <1>6, <2>1 DEF MonitorIInv
<1>7. ASSUME NEW source \in {"browser", "agent"}, JoinSeat(source)
      PROVE  MonitorIInv'
  <2>1. PICK s : s = [Empty EXCEPT !.source = source, !.connected = (source = "agent")]
    OBVIOUS
  <2>2. s \in SeatState
    BY <2>1 DEF Empty, SeatState, NoTime
  <2>3. session' = [session EXCEPT !.seats["B"] = s] /\ UNCHANGED <<now, links, look>> /\ "B" \in Seat
    BY <1>7, <2>1 DEF JoinSeat, Seat
  <2>4. QED
    BY <1>1, <1>5, <2>2, <2>3, SeatChanges
<1>8. ASSUME NEW r \in Seat, SeatConnected(r) \/ SeatLost(r)
      PROVE  MonitorIInv'
  <2>1. PICK s : /\ session' = [session EXCEPT !.seats[r] = s] /\ UNCHANGED <<now, links, look>>
                 /\ \/ s = [session.seats[r] EXCEPT !.connected = TRUE, !.reconnect = NoTime]
                    \/ s = [session.seats[r] EXCEPT !.connected = FALSE, !.reconnect = now + Grace]
    <3>1. CASE SeatConnected(r)
      <4>1. session' = [session EXCEPT !.seats[r] = [session.seats[r] EXCEPT !.connected = TRUE, !.reconnect = NoTime]]
        BY <1>1, <3>1 DEF SeatConnected, SessionState
      <4>2. QED
        BY <3>1, <4>1 DEF SeatConnected
    <3>2. CASE SeatLost(r)
      <4>1. session' = [session EXCEPT !.seats[r] = [session.seats[r] EXCEPT !.connected = FALSE, !.reconnect = now + Grace]]
        BY <1>1, <3>2 DEF SeatLost, SessionState
      <4>2. QED
        BY <3>2, <4>1 DEF SeatLost
    <3>3. QED
      BY <1>8, <3>1, <3>2
  <2>2. s \in SeatState
    <3>1. now + Grace \in Nat /\ session.seats[r] \in SeatState
      BY <1>1, <1>2, <1>3
    <3>2. /\ session.seats[r].source \in {"none", "browser", "agent"}
          /\ \/ s = [source |-> session.seats[r].source, connected |-> TRUE, reconnect |-> 0]
             \/ s = [source |-> session.seats[r].source, connected |-> FALSE, reconnect |-> now + Grace]
      BY <2>1, <3>1 DEF SeatState, NoTime
    <3>3. \A n \in Nat, c \in BOOLEAN : [source |-> session.seats[r].source, connected |-> c, reconnect |-> n] \in SeatState
      BY <3>2 DEF SeatState
    <3>4. QED
      BY <3>1, <3>2, <3>3
  <2>3. QED
    BY <1>1, <1>5, <2>1, <2>2, SeatChanges
<1>9. CASE StartSession
  <2>1. now + IdleTime \in Nat
    BY <1>1, <1>3
  <2>2. session' \in SessionState
    BY <1>1, <1>9, <2>1 DEF StartSession, SessionState
  <2>3. QED
    BY <1>5, <1>9, <2>2 DEF StartSession
<1>10. CASE Expire
  <2>1. session' \in SessionState
    BY <1>1, <1>10 DEF Expire, SessionState
  <2>2. QED
    BY <1>5, <1>10, <2>1 DEF Expire
<1>11. ASSUME NEW l \in LinkState, NEW h \in Nat, h <= now
       PROVE  [l EXCEPT !.message = now, !.heartbeat = h] \in LinkState
  BY <1>1, <1>11 DEF LinkState
<1>12. ASSUME NEW r \in Seat, OpenLink(r) \/ Heartbeat(r) \/ CloseLink(r)
       PROVE  MonitorIInv'
  <2>1. UNCHANGED <<now, session, look>>
    BY <1>12 DEF OpenLink, Heartbeat, CloseLink
  <2>2. PICK l \in LinkState : links' = [links EXCEPT ![r] = l] /\ l.message <= now
    <3>1. CASE Heartbeat(r)
      <4>1. PICK l : l = [links[r] EXCEPT !.message = now, !.heartbeat = now]
        OBVIOUS
      <4>2. links[r] \in LinkState /\ now <= now
        BY <1>1
      <4>3. l \in LinkState
        BY <1>1, <1>11, <4>1, <4>2
      <4>4. l.message = now
        BY <4>1, <4>2 DEF LinkState
      <4>5. links' = [links EXCEPT ![r] = l]
        BY <1>1, <3>1, <4>1 DEF Heartbeat
      <4>6. QED
        BY <4>2, <4>3, <4>4, <4>5
    <3>2. CASE OpenLink(r)
      <4>1. PICK l : l = [open |-> TRUE, message |-> now, heartbeat |-> NoTime]
        OBVIOUS
      <4>2. l \in LinkState /\ l.message <= now
        BY <1>1, <4>1 DEF LinkState, NoTime
      <4>3. QED
        BY <3>2, <4>1, <4>2 DEF OpenLink
    <3>3. CASE CloseLink(r)
      <4>1. NoLink \in LinkState /\ NoLink.message <= now
        BY <1>1 DEF LinkState, NoTime, NoLink
      <4>2. QED
        BY <3>3, <4>1 DEF CloseLink
    <3>4. QED
      BY <1>12, <3>1, <3>2, <3>3
  <2>3. QED
    BY <1>1, <1>6, <2>1, <2>2
<1>13. ASSUME NEW r \in Seat, SendMessage(r)
       PROVE  MonitorIInv'
  <2>1. PICK l : l = [links[r] EXCEPT !.message = now]
    OBVIOUS
  <2>2. links[r] \in LinkState /\ links[r].heartbeat \in Nat /\ links[r].message \in Nat
        /\ links[r].heartbeat <= links[r].message /\ links[r].message <= now
    BY <1>1 DEF LinkState
  <2>3. links[r].heartbeat <= now
    BY <1>1, <2>2
  <2>4. l = [links[r] EXCEPT !.message = now, !.heartbeat = links[r].heartbeat]
    BY <2>1, <2>2 DEF LinkState
  <2>5. l \in LinkState
    BY <1>11, <2>2, <2>3, <2>4
  <2>6. links' = [links EXCEPT ![r] = l] /\ UNCHANGED <<now, look>> /\ l.message = now /\ now <= now
    BY <1>1, <1>13, <2>1, <2>2 DEF SendMessage, LinkState
  <2>7. session' \in SessionState
    <3>1. now + IdleTime \in Nat
      BY <1>1, <1>3
    <3>2. QED
      BY <1>1, <1>13, <3>1 DEF SendMessage, SessionState
  <2>8. QED
    BY <1>6, <2>5, <2>6, <2>7
<1>14. CASE LookAtSessions \/ LookAtLinks \/ Show
  BY <1>1, <1>14 DEF LookAtSessions, LookAtLinks, Show, MonitorIInv
<1>15. QED
  BY <1>4, <1>7, <1>8, <1>9, <1>10, <1>12, <1>13, <1>14 DEF MonitorNext

\* The deadlines that are offered: there are some until the session has ended,
\* and they are those by which the cleanup ends it.
LEMMA DeadlinesOffered ==
    ASSUME NEW m \in SessionState
    PROVE  /\ Candidates(m) \subseteq Nat \ {0}
           /\ m.life = "ended" => Candidates(m) = {}
           /\ m.life # "ended" => m.lifetime \in Candidates(m)
           /\ m.life = "forming" => m.waiting \in Candidates(m)
           /\ m.life = "running" /\ m.idle # NoTime => m.idle \in Candidates(m)
           /\ m.life # "ended" => SmallestReconnect(m) \subseteq Candidates(m)
           /\ \A d \in Candidates(m) : Expires(m, d)
<1>1. m.life \in {"forming", "running", "ended"} /\ m.lifetime \in Nat \ {0} /\ m.waiting \in Nat \ {0} /\ m.idle \in Nat
  BY DEF SessionState
<1>2. \A r \in Seat : m.seats[r].reconnect \in Nat
  BY DEF SessionState, SeatState
<1>3. Away(m) \subseteq Seat
  BY DEF Away, Filled
<1>4. \A t \in SmallestReconnect(m) : t \in Nat \ {0} /\ \E r \in Away(m) : t = m.seats[r].reconnect
  BY <1>2, <1>3 DEF SmallestReconnect, NoTime
<1>5. ASSUME NEW d \in Candidates(m)
      PROVE  d \in Nat \ {0} /\ Expires(m, d)
  <2>1. m.life # "ended"
    BY <1>5 DEF Candidates
  <2>2. \/ d = m.lifetime
        \/ d = m.waiting /\ m.life = "forming"
        \/ d = m.idle /\ d # NoTime /\ m.life = "running"
        \/ d \in SmallestReconnect(m)
    BY <1>1, <1>5, <2>1 DEF Candidates
  <2>3. d \in Nat \ {0}
    BY <1>1, <1>4, <2>2 DEF NoTime
  <2>4. d <= d
    BY <2>3
  <2>5. CASE d \in SmallestReconnect(m)
    <3>1. PICK r \in Away(m) : d = m.seats[r].reconnect
      BY <1>4, <2>5
    <3>2. Reached(m.seats[r].reconnect, d)
      BY <2>3, <2>4, <3>1 DEF Reached, NoTime
    <3>3. QED
      BY <2>1, <2>3, <3>2 DEF Expires
  <2>6. CASE \/ d = m.lifetime
             \/ d = m.waiting /\ m.life = "forming"
             \/ d = m.idle /\ m.life = "running"
    BY <2>1, <2>3, <2>4, <2>6 DEF Expires, Reached, NoTime
  <2>7. QED
    BY <2>2, <2>3, <2>5, <2>6
<1>6. /\ m.life = "ended" => Candidates(m) = {}
      /\ m.life # "ended" => m.lifetime \in Candidates(m)
      /\ m.life = "forming" => m.waiting \in Candidates(m)
      /\ m.life = "running" /\ m.idle # NoTime => m.idle \in Candidates(m)
      /\ m.life # "ended" => SmallestReconnect(m) \subseteq Candidates(m)
  BY <1>1 DEF Candidates
<1>7. QED
  BY <1>5, <1>6

\* Somebody who is away and has a deadline has one not before the smallest.
LEMMA SmallestIsOffered ==
    ASSUME NEW m \in SessionState, NEW r \in Away(m), \A q \in Away(m) : m.seats[q].reconnect # NoTime
    PROVE  \E t \in SmallestReconnect(m) : t <= m.seats[r].reconnect
<1> DEFINE R == {m.seats[q].reconnect : q \in Away(m)}
<1>1. \A q \in Away(m) : m.seats[q].reconnect \in Nat
  BY DEF SessionState, SeatState, Away, Filled
<1>2. R \in SUBSET Nat /\ R # {}
  BY <1>1
<1>3. PICK t \in R : \A n \in R : t <= n
  BY <1>2, LeastNumber
<1>4. t \in SmallestReconnect(m)
  BY <1>3 DEF SmallestReconnect
<1>5. QED
  BY <1>3, <1>4

\* So the deadline shown is the one the cleanup keeps.
LEMMA ShownIsReal ==
    ASSUME NEW m \in SessionState
    PROVE  /\ (m.life = "ended") = (ShownDeadline(m) = {})
           /\ \A d \in ShownDeadline(m) :
                 /\ Expires(m, d)
                 /\ (\A r \in Away(m) : m.seats[r].reconnect # NoTime) => ~Expires(m, d - 1)
<1>1. /\ Candidates(m) \subseteq Nat \ {0}
      /\ m.life = "ended" => Candidates(m) = {}
      /\ m.life # "ended" => m.lifetime \in Candidates(m)
      /\ m.life = "forming" => m.waiting \in Candidates(m)
      /\ m.life = "running" /\ m.idle # NoTime => m.idle \in Candidates(m)
      /\ m.life # "ended" => SmallestReconnect(m) \subseteq Candidates(m)
      /\ \A d \in Candidates(m) : Expires(m, d)
  BY DeadlinesOffered
<1>2. (m.life = "ended") = (ShownDeadline(m) = {})
  <2>1. m.life = "ended" => ShownDeadline(m) = {}
    BY <1>1 DEF ShownDeadline
  <2>2. m.life # "ended" => ShownDeadline(m) # {}
    <3>1. Candidates(m) \in SUBSET Nat
      BY <1>1
    <3>2. Candidates(m) # {} => \E d \in Candidates(m) : \A e \in Candidates(m) : d <= e
      BY <3>1, LeastNumber
    <3>3. QED
      BY <1>1, <3>2 DEF ShownDeadline
  <2>3. QED
    BY <2>1, <2>2
<1>3. ASSUME NEW d \in ShownDeadline(m), \A r \in Away(m) : m.seats[r].reconnect # NoTime, Expires(m, d - 1)
      PROVE  FALSE
  <2>1. d \in Nat \ {0} /\ \A e \in Candidates(m) : d <= e
    BY <1>1, <1>3 DEF ShownDeadline
  <2>2. \A e \in Candidates(m) : e \in Nat /\ ~(e <= d - 1)
    BY <1>1, <2>1
  <2>3. m.life # "ended"
    BY <1>3 DEF Expires
  <2>4. ~Reached(m.lifetime, d - 1)
    BY <1>1, <2>2, <2>3 DEF Reached
  <2>5. m.life = "forming" => ~Reached(m.waiting, d - 1)
    BY <1>1, <2>2 DEF Reached
  <2>6. m.life = "running" => ~Reached(m.idle, d - 1)
    BY <1>1, <2>2 DEF Reached
  <2>7. \A r \in Away(m) : ~Reached(m.seats[r].reconnect, d - 1)
    <3> SUFFICES ASSUME NEW r \in Away(m), m.seats[r].reconnect <= d - 1
                 PROVE  FALSE
      BY DEF Reached
    <3>1. PICK t \in SmallestReconnect(m) : t <= m.seats[r].reconnect
      BY <1>3, SmallestIsOffered
    <3>2. t \in Nat /\ ~(t <= d - 1)
      BY <1>1, <2>2, <2>3
    <3>3. m.seats[r].reconnect \in Nat
      BY DEF SessionState, SeatState, Away, Filled
    <3>4. QED
      BY <2>1, <3>1, <3>2, <3>3
  <2>8. QED
    BY <1>3, <2>4, <2>5, <2>6, <2>7 DEF Expires
<1>4. QED
  BY <1>1, <1>2, <1>3 DEF ShownDeadline

\* A table that shows a running session live has heard everybody.
LEMMA LiveIsEverybody == MonitorIInv => LiveMeansEverybody
<1> SUFFICES ASSUME MonitorIInv, look.session.life = "running", ShownHealth = "live", NEW r \in Browsers
             PROVE  look.links[r].open /\ look.at - look.links[r].message <= LiveAge
  BY DEF LiveMeansEverybody
<1>1. ~SomeBrowser("stale") /\ ~SomeBrowser("delayed") /\ ~SomeBrowser("disconnected")
  BY DEF ShownHealth
<1>2. SeatHealth(r) \notin {"stale", "delayed", "disconnected"}
  BY <1>1 DEF SomeBrowser
<1>3. look.links[r].open /\ game_connection_health(look.links[r], look.at) \notin {"stale", "delayed"}
  BY <1>2 DEF SeatHealth
<1>4. PICK l \in LinkState : l = look.links[r]
  BY DEF MonitorIInv, Browsers
<1>5. l.message \in Nat /\ l.heartbeat \in Nat /\ l.heartbeat <= l.message /\ look.at \in Nat /\ LiveAge \in Nat
  BY MonitorAssumption DEF LinkState, MonitorIInv
<1>6. look.at - (IF l.heartbeat # NoTime THEN l.heartbeat ELSE l.message) <= LiveAge
  BY <1>3, <1>4 DEF game_connection_health
<1>7. QED
  BY <1>3, <1>4, <1>5, <1>6

\* The liveness table is true (build_session_liveness, cleanup_transient_rooms).
LEMMA TableHolds == MonitorSpec => []TableIsTrue
<1>1. MonitorInit => MonitorIInv
  <2> SUFFICES ASSUME MonitorInit
               PROVE  MonitorIInv
    OBVIOUS
  <2>1. WaitingTime \in Nat \ {0} /\ Lifetime \in Nat \ {0}
    BY MonitorAssumption
  <2>2. 1 + WaitingTime \in Nat \ {0} /\ 1 + Lifetime \in Nat \ {0}
    BY <2>1
  <2>3. PICK ss : ss = [r \in Seat |-> IF r = "A" THEN [Empty EXCEPT !.source = "browser"] ELSE Empty]
    OBVIOUS
  <2>4. ss \in [Seat -> SeatState]
    BY <2>3 DEF Empty, SeatState, NoTime
  <2>5. session = [life |-> "forming", waiting |-> 1 + WaitingTime, lifetime |-> 1 + Lifetime, idle |-> NoTime, seats |-> ss]
    BY <2>3 DEF MonitorInit
  <2>6. session \in SessionState
    BY <2>2, <2>4, <2>5 DEF SessionState, NoTime
  <2>7. NoLink \in LinkState /\ NoLink.message = 0
    BY DEF LinkState, NoLink, NoTime
  <2>8. links = [r \in Seat |-> NoLink] /\ now = 1
        /\ look = [step |-> "idle", session |-> session, links |-> links, at |-> 1]
    BY DEF MonitorInit
  <2>9. links \in [Seat -> LinkState] /\ \A r \in Seat : links[r].message <= 1
    BY <2>7, <2>8
  <2>10. QED
    BY <2>6, <2>8, <2>9 DEF MonitorIInv
<1>2. MonitorIInv /\ [MonitorNext]_monitorVars => MonitorIInv'
  <2>1. ASSUME MonitorIInv, UNCHANGED monitorVars
        PROVE  MonitorIInv'
    BY <2>1 DEF monitorVars, MonitorIInv
  <2>2. QED
    BY <2>1, MonitorStep
<1>3. MonitorIInv => TableIsTrue
  <2>1. MonitorIInv => DeadlineIsReal
    BY ShownIsReal DEF MonitorIInv, DeadlineIsReal
  <2>2. QED
    BY <2>1, LiveIsEverybody DEF TableIsTrue
<1>4. QED
  BY <1>1, <1>2, <1>3, PTL DEF MonitorSpec

-----------------------------------------------------------------------------
(* The whole *)

\* A step of the whole is a step of one part, and the others rest.
LEMMA PartsTakeTheirSteps ==
    ASSUME [Next]_vars
    PROVE  /\ [CatalogueNext]_catalogueVars /\ [SettingsNext]_settingsVars /\ [PreflightNext]_preflightVars
           /\ [LaunchNext]_launchVars /\ [DataNext]_dataVars /\ [MonitorNext]_monitorVars
BY DEF Next, vars, TimelinePart, DataPart, PreflightPart, LaunchPart, CataloguePart, SettingsPart, MonitorPart

\* A run of the whole is a run of each part.
LEMMA PartsRun ==
    Spec => CatalogueSpec /\ SettingsSpec /\ PreflightSpec /\ LaunchSpec /\ DataSpec /\ MonitorSpec
<1>1. Init => CatalogueInit /\ SettingsInit /\ PreflightInit /\ LaunchInit /\ DataInit /\ MonitorInit
  BY DEF Init
<1>2. [Next]_vars => /\ [CatalogueNext]_catalogueVars /\ [SettingsNext]_settingsVars /\ [PreflightNext]_preflightVars
                     /\ [LaunchNext]_launchVars /\ [DataNext]_dataVars /\ [MonitorNext]_monitorVars
  BY PartsTakeTheirSteps
<1>3. QED
  BY <1>1, <1>2, PTL DEF Spec, CatalogueSpec, SettingsSpec, PreflightSpec, LaunchSpec, DataSpec, MonitorSpec

\* experiment_catalog and game_settings: whatever administrators save at the same
\* time, an id's row, its revisions and its secrets agree, a runtime is built
\* from one revision, and the settings in memory follow the row.
THEOREM CatalogueStaysTrue == Spec => []CatalogueAgrees
<1>1. Spec => [](RevisionsAreComplete /\ BuiltFromOneRevision) /\ []CopyFollowsRow
  BY PartsRun, CatalogueHolds, LeftOutStays
<1>2. QED
  BY <1>1, PTL DEF CatalogueAgrees

\* prolific.rs: a study is started on a verdict about the inputs it has, no older
\* than the cache's life and one request, and a launch is believed by keys that
\* were not withdrawn longer ago than theirs.
THEOREM ProviderStaysHeard == Spec => ProviderIsHeard
BY PartsRun, StartsAreVerified, LaunchesAreTrue DEF ProviderIsHeard

\* delete_participant_data, export_rows and admit_prolific_submission: however
\* their statements and those of running sessions interleave, nothing comes back
\* of a participant who was deleted, a corpus mixes no two sessions, and a
\* submission is one participant.
THEOREM RecordsStayTrue == Spec => []RecordsAreTrue
<1>1. Spec => []DeletedIsGone /\ []CorpusIsFaithful /\ []OneRowPerSubmission
  BY PartsRun, DataIsKept, LaunchesAreTrue
<1>2. QED
  BY <1>1, PTL DEF RecordsAreTrue

\* What one administrator does takes nothing unseen from another, from a running
\* experiment, from a field left out of a request or from an unfinished session.
THEOREM NothingGetsLost == Spec => NothingIsLost
BY PartsRun, EditsAreKept, LeftOutStays, DataIsKept DEF NothingIsLost

\* build_session_liveness: the deadline it shows is the one cleanup_transient_rooms
\* keeps, and a running session is shown live only if everybody was heard lately,
\* although the sessions, the sockets and the clock are read one after the other.
THEOREM TableStaysTrue == Spec => []TableIsTrue
BY PartsRun, TableHolds
=============================================================================

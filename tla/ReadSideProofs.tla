---------------------------- MODULE ReadSideProofs ----------------------------
(***************************************************************************)
(* Proofs about the components of ReadSide, for any values of their        *)
(* constants: one invariant per component, which the steps of the others   *)
(* leave alone.                                                            *)
(***************************************************************************)
EXTENDS ReadSide, FiniteSetTheorems, SequenceTheorems, TLAPS

\* A step of the whole is a step of a component, or leaves it alone.
LEMMA ComponentSteps ==
  ASSUME [Next]_vars
  PROVE  /\ Pages!Next \/ UNCHANGED pagesVars
         /\ Heads!Next \/ UNCHANGED headsVars
         /\ Ingress!Next \/ UNCHANGED ingressVars
         /\ Offline!Next \/ UNCHANGED offlineVars
         /\ Advisory!Next \/ UNCHANGED advisoryVars
         /\ Recovery!Next \/ UNCHANGED recoveryVars
         /\ Health!Next \/ UNCHANGED healthVars
BY DEF vars, Next, PagesStep, HeadsStep, IngressStep, OfflineStep, AdvisoryStep, RecoveryStep,
       HealthStep



Instants == [Entities -> Heads!Head \cup {None}] \X [Entities -> 0 .. MaxWorkflow]

HeadsType ==
  /\ clock \in 0 .. HeadClock
  /\ workflow \in [Entities -> 0 .. MaxWorkflow]
  /\ revision \in [Revisions -> Heads!Row \cup {None}]
  /\ head \in [Entities -> Heads!Head \cup {None}]
  /\ publishing \in [HeadPublishers -> Publishing \cup {None}]
  /\ reading \in [Readers -> Reading \cup {None}]
  /\ history \subseteq Instants

\* A draft that was made over a head replaces that version of it.
DraftsReplace ==
  \A p \in HeadPublishers : publishing[p] # None =>
    publishing[p].row.over = Heads!VersionOf(publishing[p].expected)

\* Published revisions are finitely many, and each replaced another version,
\* all of them before the present one.
LinearAt(e) ==
  /\ IsFiniteSet(Heads!Published(e))
  /\ Heads!VersionOf(head[e]) = Cardinality(Heads!Published(e))
  /\ \A r, s \in Heads!Published(e) : revision[r].over = revision[s].over => r = s
  /\ \A r \in Heads!Published(e) : revision[r].over < Heads!VersionOf(head[e])
  /\ head[e] # None =>
       \A r \in Heads!Published(e) : head[e].revision = r <=> revision[r].over = head[e].version - 1

\* There was an instant at which the head named this revision beside these versions.
Was(e, r, w) ==
  \E t \in history : t[1][e] # None /\ t[1][e].revision = r /\ t[2][e] = w

ReadersAreInstants ==
  \A x \in Readers : reading[x] # None =>
    Was(reading[x].entity, reading[x].revision, reading[x].workflow[reading[x].entity])

BundlesWere ==
  \A b \in bundles : b.entity \in Entities /\ Was(b.entity, b.revision, b.workflow)

HeadsInv ==
  /\ HeadsType /\ DraftsReplace
  /\ \A e \in Entities : LinearAt(e)
  /\ <<head, workflow>> \in history
  /\ ReadersAreInstants /\ BundlesWere

-----------------------------------------------------------------------------
LEMMA HeadsInit == ASSUME HeadsAssumption PROVE Heads!Init => HeadsInv
<1> SUFFICES ASSUME Heads!Init PROVE HeadsInv
  OBVIOUS
<1>1. HeadsType
  BY DEF HeadsAssumption, Heads!Init, HeadsType, Instants
<1>2. ASSUME NEW e \in Entities PROVE LinearAt(e)
  <2>1. Heads!Published(e) = {} /\ head[e] = None
    BY DEF Heads!Init, Heads!Published
  <2>2. IsFiniteSet({}) /\ Cardinality({}) = 0
    BY FS_EmptySet
  <2> QED  BY <2>1, <2>2 DEF LinearAt, Heads!VersionOf
<1> QED
  BY <1>1, <1>2 DEF Heads!Init, HeadsInv, DraftsReplace, ReadersAreInstants, BundlesWere

LEMMA HeadsCardinality == ASSUME NEW S PROVE Heads!Cardinality(S) = Cardinality(S)
BY DEF Heads!Cardinality, Cardinality

\* The invariant says what the properties say.
LEMMA HeadsImply ==
  ASSUME HeadsAssumption, HeadsInv
  PROVE  HeadsAreLinear
<1>1. ASSUME NEW e \in Entities
      PROVE  /\ \A r, s \in Heads!Published(e) : revision[r].over = revision[s].over => r = s
             /\ Heads!VersionOf(head[e]) = Cardinality(Heads!Published(e))
             /\ \A r \in Heads!Published(e) :
                  head[e].revision = r <=> revision[r].over = head[e].version - 1
  <2>1. LinearAt(e)
    BY DEF HeadsInv
  <2>2. CASE head[e] = None
    <3>1. Heads!Published(e) = {}
      BY <2>1, <2>2, FS_EmptySet DEF LinearAt, Heads!VersionOf
    <3> QED  BY <2>1, <3>1 DEF LinearAt
  <2>3. CASE head[e] # None
    BY <2>1, <2>3 DEF LinearAt
  <2> QED  BY <2>2, <2>3
<1>2. Heads!TypeOK
  BY DEF HeadsAssumption, HeadsInv, HeadsType, Heads!TypeOK, Publishing
<1> QED  BY <1>1, <1>2, HeadsCardinality DEF HeadsInv, Heads!HeadsAreLinear, BundlesWere, Was,
                                             Heads!BundlesAreInstants, HeadsAreLinear

\* What was, stays in the past.
LEMMA PastStays ==
  ASSUME history \subseteq history', NEW e, NEW r, NEW w, Was(e, r, w)
  PROVE  Was(e, r, w)'
BY DEF Was

\* A step that leaves the tables of heads and revisions alone.
LEMMA TablesKeep ==
  ASSUME UNCHANGED <<revision, head>>, NEW e, LinearAt(e)
  PROVE  LinearAt(e)'
<1>1. Heads!Published(e)' = Heads!Published(e)
  BY DEF Heads!Published
<1> QED  BY <1>1 DEF LinearAt, Heads!VersionOf

-----------------------------------------------------------------------------
LEMMA MovesKeeps ==
  ASSUME HeadsAssumption, HeadsInv, NEW e \in Entities, Heads!WorkflowMoves(e)
  PROVE  HeadsInv'
<1> USE DEF HeadsAssumption
<1>1. /\ UNCHANGED <<clock, revision, head, publishing, reading, bundles>>
      /\ history' = history \cup {<<head', workflow'>>}
      /\ workflow' \in [Entities -> 0 .. MaxWorkflow]
  BY DEF Heads!WorkflowMoves, Heads!Remember, HeadsInv, HeadsType
<1>2. HeadsType'
  BY <1>1 DEF HeadsInv, HeadsType, Instants
<1>3. DraftsReplace'
  BY <1>1 DEF HeadsInv, DraftsReplace, Heads!VersionOf
<1>4. \A d \in Entities : LinearAt(d)'
  BY <1>1, TablesKeep DEF HeadsInv
<1>5. ReadersAreInstants' /\ BundlesWere'
  BY <1>1, PastStays DEF HeadsInv, ReadersAreInstants, BundlesWere
<1> QED  BY <1>1, <1>2, <1>3, <1>4, <1>5 DEF HeadsInv

LEMMA InsertRevisionKeeps ==
  ASSUME HeadsAssumption, HeadsInv, NEW p \in HeadPublishers, Heads!InsertRevision(p)
  PROVE  HeadsInv'
<1>1. PICK r \in Revisions, e \in Entities, w \in 0 .. MaxWorkflow, seen \in history :
        publishing' = [publishing EXCEPT ![p] =
          [revision |-> r, expected |-> seen[1][e],
           row |-> [entity |-> e, workflow |-> w, known |-> clock,
                    over |-> Heads!VersionOf(seen[1][e])]]]
  BY DEF Heads!InsertRevision
<1> DEFINE expected == seen[1][e]
           draft == [revision |-> r, expected |-> expected,
                     row |-> [entity |-> e, workflow |-> w, known |-> clock,
                              over |-> Heads!VersionOf(expected)]]
<1>2. expected \in Heads!Head \cup {None}
  BY DEF HeadsInv, HeadsType, Instants
<1>3. Heads!VersionOf(expected) \in Nat
  BY <1>2 DEF Heads!VersionOf, Heads!Head
<1>4. draft \in Publishing
  BY <1>2, <1>3 DEF Publishing, Heads!Row, HeadsInv, HeadsType
<1>5. UNCHANGED <<clock, workflow, revision, head, reading, bundles, history>>
  BY DEF Heads!InsertRevision
<1>6. publishing' = [publishing EXCEPT ![p] = draft]
  BY <1>1
<1>7. draft.row.over = Heads!VersionOf(draft.expected)
  OBVIOUS
<1> HIDE DEF draft, expected
<1>8. HeadsType'
  BY <1>4, <1>5, <1>6 DEF HeadsInv, HeadsType
<1>9. DraftsReplace'
  BY <1>4, <1>6, <1>7 DEF HeadsInv, HeadsType, DraftsReplace, Heads!VersionOf
<1>10. \A d \in Entities : LinearAt(d)'
  BY <1>5, TablesKeep DEF HeadsInv
<1>11. ReadersAreInstants' /\ BundlesWere'
  BY <1>5, PastStays DEF HeadsInv, ReadersAreInstants, BundlesWere
<1> QED  BY <1>5, <1>8, <1>9, <1>10, <1>11 DEF HeadsInv

\* A transaction that leaves nothing behind.
LEMMA RollBackKeeps ==
  ASSUME HeadsAssumption, HeadsInv, NEW p \in HeadPublishers, Heads!RollBack(p)
  PROVE  HeadsInv'
<1>1. /\ publishing' = [publishing EXCEPT ![p] = None]
      /\ UNCHANGED <<clock, workflow, revision, head, reading, bundles, history>>
  BY DEF Heads!RollBack
<1>2. HeadsType'
  BY <1>1 DEF HeadsInv, HeadsType
<1>3. DraftsReplace'
  BY <1>1 DEF HeadsInv, HeadsType, DraftsReplace, Heads!VersionOf
<1>4. \A d \in Entities : LinearAt(d)'
  BY <1>1, TablesKeep DEF HeadsInv
<1>5. ReadersAreInstants' /\ BundlesWere'
  BY <1>1, PastStays DEF HeadsInv, ReadersAreInstants, BundlesWere
<1> QED  BY <1>1, <1>2, <1>3, <1>4, <1>5 DEF HeadsInv

\* A publication: one revision more, over the version that the head had.
LEMMA PublishKeeps ==
  ASSUME HeadsAssumption, HeadsInv, NEW p \in HeadPublishers, Heads!PublishRevision(p)
  PROVE  HeadsInv'
<1> USE DEF HeadsAssumption
<1>1. PICK r \in Revisions, row \in Heads!Row, expected \in Heads!Head \cup {None}, e \in Entities :
        /\ publishing[p].revision = r /\ publishing[p].row = row
        /\ publishing[p].expected = expected
        /\ row.entity = e /\ row.over = Heads!VersionOf(expected) /\ row # None
  BY DEF Heads!PublishRevision, HeadsInv, HeadsType, Publishing, Heads!Row, DraftsReplace
<1>0. PICK next : next = [revision |-> r, version |-> Heads!VersionOf(head[e]) + 1]
  OBVIOUS
<1>2. /\ revision[r] = None
      /\ \E byId \in BOOLEAN : Heads!Matches(head[e], expected, byId)
      /\ revision' = [revision EXCEPT ![r] = row]
      /\ head' = [head EXCEPT ![e] = next]
      /\ publishing' = [publishing EXCEPT ![p] = None]
      /\ UNCHANGED <<clock, workflow, reading, bundles>>
      /\ history' = history \cup {<<head', workflow'>>}
  BY <1>0, <1>1 DEF Heads!PublishRevision, Heads!Remember
<1>3. head[e] \in Heads!Head \cup {None} /\ Heads!VersionOf(head[e]) \in Nat
  BY <1>1 DEF HeadsInv, HeadsType, Heads!VersionOf, Heads!Head
<1>4. row.over = Heads!VersionOf(head[e])
  BY <1>1, <1>2, <1>3 DEF Heads!Matches, Heads!VersionOf
<1>5. next \in Heads!Head /\ next # None
  BY <1>0, <1>1, <1>3 DEF Heads!Head
<1>6. next.revision = r /\ next.version = Heads!VersionOf(head[e]) + 1
  BY <1>0
<1>7. /\ head'[e] = next /\ \A d \in Entities \ {e} : head'[d] = head[d]
      /\ revision'[r] = row /\ \A s \in Revisions \ {r} : revision'[s] = revision[s]
      /\ head' \in [Entities -> Heads!Head \cup {None}]
      /\ revision' \in [Revisions -> Heads!Row \cup {None}]
  BY <1>1, <1>2, <1>5 DEF HeadsInv, HeadsType
<1>8. HeadsType'
  BY <1>2, <1>7 DEF HeadsInv, HeadsType, Instants
<1>9. DraftsReplace'
  BY <1>2 DEF HeadsInv, HeadsType, DraftsReplace, Heads!VersionOf
<1>10. ASSUME NEW d \in Entities, d # e PROVE LinearAt(d)'
  <2>1. Heads!Published(d)' = Heads!Published(d) /\ r \notin Heads!Published(d) /\ Heads!Published(d) \subseteq Revisions
    BY <1>1, <1>2, <1>7, <1>10 DEF Heads!Published
  <2>2. head'[d] = head[d] /\ \A s \in Heads!Published(d) : revision'[s] = revision[s]
    BY <1>7, <1>10, <2>1
  <2>3. LinearAt(d)
    BY DEF HeadsInv
  <2> QED  BY <2>1, <2>2, <2>3 DEF LinearAt, Heads!VersionOf
<1>11. LinearAt(e)'
  <2>1. LinearAt(e)
    BY <1>1 DEF HeadsInv
  <2>2. Heads!Published(e)' = Heads!Published(e) \cup {r} /\ r \notin Heads!Published(e) /\ Heads!Published(e) \subseteq Revisions
    BY <1>1, <1>2, <1>7 DEF Heads!Published
  <2>3. /\ IsFiniteSet(Heads!Published(e)')
        /\ Cardinality(Heads!Published(e)') = Cardinality(Heads!Published(e)) + 1
    BY <2>1, <2>2, FS_AddElement DEF LinearAt
  <2>4. /\ revision'[r].over = Heads!VersionOf(head[e])
        /\ \A s \in Heads!Published(e) : revision'[s] = revision[s] /\ revision[s].over \in Nat
    BY <1>1, <1>4, <1>7, <2>2 DEF HeadsInv, HeadsType, Heads!Row, Heads!Published
  <2>5. Heads!VersionOf(head[e])' = Heads!VersionOf(head[e]) + 1 /\ head'[e] # None
    BY <1>5, <1>6, <1>7 DEF Heads!VersionOf
  <2>6. \A s \in Heads!Published(e) : revision[s].over < Heads!VersionOf(head[e])
    BY <2>1 DEF LinearAt
  <2>7. \A s, t \in Heads!Published(e)' : revision'[s].over = revision'[t].over => s = t
    BY <1>3, <2>1, <2>2, <2>4, <2>6 DEF LinearAt
  <2>8. \A s \in Heads!Published(e)' : revision'[s].over < Heads!VersionOf(head[e]) + 1
    BY <1>3, <2>2, <2>4, <2>6
  <2>9. \A s \in Heads!Published(e)' : head'[e].revision = s <=> revision'[s].over = head'[e].version - 1
    BY <1>3, <1>6, <1>7, <2>2, <2>4, <2>6
  <2>10. Heads!VersionOf(head[e]) = Cardinality(Heads!Published(e))
    BY <2>1 DEF LinearAt
  <2> QED  BY <2>3, <2>5, <2>7, <2>8, <2>9, <2>10 DEF LinearAt
<1>12. ReadersAreInstants' /\ BundlesWere'
  BY <1>2, PastStays DEF HeadsInv, ReadersAreInstants, BundlesWere
<1> QED  BY <1>2, <1>8, <1>9, <1>10, <1>11, <1>12 DEF HeadsInv

-----------------------------------------------------------------------------
LEMMA ReadHeadKeeps ==
  ASSUME HeadsAssumption, HeadsInv, NEW x \in Readers, NEW e \in Entities, Heads!ReadHead(x, e)
  PROVE  HeadsInv'
<1>1. PICK c : c = [entity |-> e, revision |-> head[e].revision, workflow |-> workflow]
  OBVIOUS
<1>2. /\ reading' = [reading EXCEPT ![x] = c]
      /\ UNCHANGED <<clock, workflow, revision, head, publishing, bundles, history>>
  BY <1>1 DEF Heads!ReadHead
<1>3. c \in Reading
  BY <1>1 DEF Heads!ReadHead, HeadsInv, HeadsType, Heads!Head, Reading
<1>4. Was(c.entity, c.revision, c.workflow[c.entity])
  BY <1>1 DEF Heads!ReadHead, HeadsInv, Was
<1>5. HeadsType' /\ DraftsReplace'
  BY <1>2, <1>3 DEF HeadsInv, HeadsType, DraftsReplace, Heads!VersionOf
<1>6. \A d \in Entities : LinearAt(d)'
  BY <1>2, TablesKeep DEF HeadsInv
<1>7. ReadersAreInstants' /\ BundlesWere'
  <2>1. ASSUME NEW y \in Readers, reading'[y] # None
        PROVE  Was(reading'[y].entity, reading'[y].revision, reading'[y].workflow[reading'[y].entity])
    BY <1>2, <1>4, <2>1 DEF HeadsInv, HeadsType, ReadersAreInstants
  <2>2. \A d, r, w : Was(d, r, w)' <=> Was(d, r, w)
    BY <1>2 DEF Was
  <2> QED  BY <1>2, <2>1, <2>2 DEF HeadsInv, ReadersAreInstants, BundlesWere
<1> QED  BY <1>2, <1>5, <1>6, <1>7 DEF HeadsInv

\* A bundle of a reader pairs what its snapshot held, however late it comes.
LEMMA ReadWorkflowKeeps ==
  ASSUME HeadsAssumption, HeadsInv, NEW x \in Readers, Heads!ReadWorkflow(x)
  PROVE  HeadsInv'
<1>1. /\ UNCHANGED <<clock, workflow, revision, head, publishing, history>>
      /\ reading' = [reading EXCEPT ![x] = None]
      /\ bundles' = bundles \cup
           {Heads!Brief(reading[x].entity, reading[x].revision, reading[x].workflow[reading[x].entity])}
  BY DEF Heads!ReadWorkflow, Heads!Visible
<1>2. /\ reading[x] \in Reading
      /\ Was(reading[x].entity, reading[x].revision, reading[x].workflow[reading[x].entity])
  BY DEF Heads!ReadWorkflow, HeadsInv, HeadsType, ReadersAreInstants
<1>3. HeadsType' /\ DraftsReplace'
  BY <1>1 DEF HeadsInv, HeadsType, DraftsReplace, Heads!VersionOf
<1>4. \A d \in Entities : LinearAt(d)'
  BY <1>1, TablesKeep DEF HeadsInv
<1>5. \A d, r, w : Was(d, r, w)' <=> Was(d, r, w)
  BY <1>1 DEF Was
<1>6. ReadersAreInstants'
  BY <1>1, <1>5 DEF HeadsInv, HeadsType, ReadersAreInstants
<1>7. BundlesWere'
  <2>1. PICK b : b = Heads!Brief(reading[x].entity, reading[x].revision,
                           reading[x].workflow[reading[x].entity])
    OBVIOUS
  <2>2. b.entity \in Entities /\ Was(b.entity, b.revision, b.workflow)
    BY <1>2, <2>1 DEF Heads!Brief, Reading
  <2> QED  BY <1>1, <1>5, <2>1, <2>2 DEF HeadsInv, BundlesWere
<1> QED  BY <1>1, <1>3, <1>4, <1>6, <1>7 DEF HeadsInv

LEMMA ReadAssetsKeeps ==
  ASSUME HeadsAssumption, HeadsInv, Heads!ReadAssets
  PROVE  HeadsInv'
<1>1. /\ UNCHANGED <<clock, workflow, revision, head, publishing, reading, history>>
      /\ bundles' = bundles \cup Heads!AssetHeads
  BY DEF Heads!ReadAssets
<1>2. ASSUME NEW b \in Heads!AssetHeads
      PROVE  b.entity \in Entities /\ Was(b.entity, b.revision, b.workflow)
  <2>1. PICK e \in Entities : head[e] # None /\ b = Heads!Brief(e, head[e].revision, workflow[e])
    BY <1>2 DEF Heads!AssetHeads
  <2>2. Was(e, head[e].revision, workflow[e])
    BY <2>1 DEF HeadsInv, Was
  <2> QED  BY <2>1, <2>2 DEF Heads!Brief
<1>3. HeadsType' /\ DraftsReplace'
  BY <1>1 DEF HeadsInv, HeadsType, DraftsReplace, Heads!VersionOf
<1>4. \A d \in Entities : LinearAt(d)'
  BY <1>1, TablesKeep DEF HeadsInv
<1>5. \A d, r, w : Was(d, r, w)' <=> Was(d, r, w)
  BY <1>1 DEF Was
<1>6. ReadersAreInstants' /\ BundlesWere'
  BY <1>1, <1>2, <1>5 DEF HeadsInv, ReadersAreInstants, BundlesWere
<1> QED  BY <1>1, <1>3, <1>4, <1>6 DEF HeadsInv

-----------------------------------------------------------------------------
LEMMA HeadsKeep == ASSUME HeadsAssumption PROVE HeadsInv /\ (Heads!Next \/ UNCHANGED headsVars) => HeadsInv'
<1> SUFFICES ASSUME HeadsInv, (Heads!Next \/ UNCHANGED headsVars) PROVE HeadsInv'
  OBVIOUS
<1>1. CASE Heads!Tick \/ UNCHANGED headsVars
  <2>1. /\ UNCHANGED <<workflow, revision, head, publishing, reading, bundles, history>>
        /\ clock' \in 0 .. HeadClock
    BY <1>1 DEF Heads!Tick, headsVars, HeadsInv, HeadsType, HeadsAssumption
  <2>2. HeadsType' /\ DraftsReplace'
    BY <2>1 DEF HeadsInv, HeadsType, DraftsReplace, Heads!VersionOf
  <2>3. \A d \in Entities : LinearAt(d)'
    BY <2>1, TablesKeep DEF HeadsInv
  <2>4. ReadersAreInstants' /\ BundlesWere'
    BY <2>1, PastStays DEF HeadsInv, ReadersAreInstants, BundlesWere
  <2> QED  BY <2>1, <2>2, <2>3, <2>4 DEF HeadsInv
<1>2. ASSUME NEW e \in Entities, Heads!WorkflowMoves(e) PROVE HeadsInv'
  BY <1>2, MovesKeeps
<1>3. ASSUME NEW p \in HeadPublishers, Heads!InsertRevision(p) PROVE HeadsInv'
  BY <1>3, InsertRevisionKeeps
<1>4. ASSUME NEW p \in HeadPublishers, Heads!PublishRevision(p) PROVE HeadsInv'
  BY <1>4, PublishKeeps
<1>5. ASSUME NEW p \in HeadPublishers, Heads!RollBack(p) PROVE HeadsInv'
  BY <1>5, RollBackKeeps
<1>6. ASSUME NEW x \in Readers, Heads!ReadWorkflow(x) PROVE HeadsInv'
  BY <1>6, ReadWorkflowKeeps
<1>7. ASSUME NEW x \in Readers, NEW e \in Entities, Heads!ReadHead(x, e) PROVE HeadsInv'
  BY <1>7, ReadHeadKeeps
<1>8. CASE Heads!ReadAssets
  BY <1>8, ReadAssetsKeeps
<1> QED  BY <1>1, <1>2, <1>3, <1>4, <1>5, <1>6, <1>7, <1>8 DEF Heads!Next

-----------------------------------------------------------------------------
\* Retained pages.
CallPcs == {"start", "fetch", "fetched", "create", "created", "read"}
Calls == [pc : CallPcs, principal : Pages!Principal, query : Pages!Queries, snapshot : Snapshots \cup {None},
          cursor : Pages!Cursor \cup {None}, size : PageSizes, rows : Seq(Rows)]

PagesType ==
  /\ table \in [Episodes -> 0 .. MaxState]
  /\ authority \in [Subjects -> [revision : 0 .. MaxRevision, granted : BOOLEAN]]
  /\ snapshot \in [Snapshots -> Retained \cup {None}]
  /\ call \in [Subjects -> Calls \cup {Pages!Idle}]
  /\ instants \subseteq [Episodes -> 0 .. MaxState] /\ table \in instants

\* The rows are what the query selected at some instant.
Selected(rows, query) ==
  Len(rows) <= MaxRows /\ \E t \in instants : rows = Pages!Selection(query, t)

RetainedStand ==
  \A i \in Snapshots : snapshot[i] # None => Selected(snapshot[i].rows, snapshot[i].query)

FetchedStand ==
  \A s \in Subjects : call[s].pc \in {"fetched", "create"} => Selected(call[s].rows, call[s].query)

\* A call reads a snapshot that it named or made.
ReadsSnapshot ==
  \A s \in Subjects : call[s].pc \in {"created", "read"} => call[s].snapshot # None

\* A page is a piece of what its snapshot retains, and was given to its owner.
IsPage(p) ==
  LET retained == snapshot[p.snapshot] IN
    /\ p.snapshot \in Snapshots /\ retained # None
    /\ p.reader \in Pages!Principal /\ p.reader.granted = TRUE
    /\ p.reader.subject = retained.owner.subject /\ p.reader.revision = retained.owner.revision
    /\ p.query = retained.query /\ p.total = Len(retained.rows)
    /\ p.first \in Nat \ {0} /\ Len(p.rows) \in Nat
    /\ p.rows = SubSeq(retained.rows, p.first, p.first + Len(p.rows) - 1)
    /\ p.next # None =>
         p.next \in Pages!Cursor /\ p.next.snapshot = p.snapshot /\ p.next.next = p.first + Len(p.rows)

\* A cursor was given with a page that ends before it.
WasGiven(cursor) == \E p \in shown : p.next = cursor

PagesInv ==
  /\ PagesType /\ RetainedStand /\ FetchedStand /\ ReadsSnapshot
  /\ \A p \in shown : IsPage(p) /\ Pages!FollowsItsCursor(p)
  /\ \A s \in Subjects : call[s] # Pages!Idle /\ call[s].cursor # None => WasGiven(call[s].cursor)

\* A principal is what it consists of.
LEMMA SamePrincipal ==
  ASSUME NEW p \in Pages!Principal, NEW q \in Pages!Principal,
         p.subject = q.subject, p.revision = q.revision, p.granted = q.granted
  PROVE  p = q
BY DEF Pages!Principal

LEMMA PagesCardinality == ASSUME NEW S PROVE Pages!Cardinality(S) = Cardinality(S)
BY DEF Pages!Cardinality, Cardinality

\* A selection is a sequence of rows.
LEMMA SelectionIsSequence ==
  ASSUME PagesAssumption, NEW q \in Pages!Queries, NEW t \in [Episodes -> 0 .. MaxState]
  PROVE  Pages!Selection(q, t) \in Seq(Rows) /\ Len(Pages!Selection(q, t)) \in Nat
<1> DEFINE found == {e \in Episodes : Pages!Selects(q, t[e])}
           rows == Pages!Selection(q, t)
<1>1. Pages!Cardinality(found) \in Nat
  BY PagesCardinality, FS_Subset, FS_CardinalityType DEF PagesAssumption
<1>2. PICK n \in Nat : n = Pages!Cardinality(found)
  BY <1>1
<1>3. DOMAIN rows = 1 .. n /\ rows = [i \in 1 .. n |-> rows[i]]
  BY <1>2 DEF Pages!Selection
<1>4. \A i \in 1 .. n : rows[i] \in Rows
  BY <1>3 DEF Rows, Answers
<1> HIDE DEF rows
<1>5. rows \in [1 .. n -> Rows]
  BY <1>3, <1>4
<1>6. rows \in Seq(Rows)
  BY <1>5, SeqDef
<1> QED  BY <1>6, LenProperties DEF rows

LEMMA PagesInit == ASSUME PagesAssumption, Pages!Init PROVE PagesInv
<1>1. PagesType
  BY DEF PagesAssumption, PagesType, Pages!Init
<1> QED  BY <1>1 DEF Pages!Init, PagesInv, RetainedStand, FetchedStand, ReadsSnapshot, Pages!Idle

\* What a step must show of what it changes.
LEMMA PagesStep1 ==
  ASSUME PagesInv, PagesType', instants \subseteq instants', shown \subseteq shown',
         \A i \in Snapshots : snapshot[i] # None =>
           /\ snapshot'[i] # None /\ snapshot'[i].owner = snapshot[i].owner
           /\ snapshot'[i].query = snapshot[i].query /\ snapshot'[i].rows = snapshot[i].rows,
         \A i \in Snapshots : snapshot[i] = None /\ snapshot'[i] # None =>
           /\ Len(snapshot'[i].rows) <= MaxRows
           /\ \E t \in instants' : snapshot'[i].rows = Pages!Selection(snapshot'[i].query, t),
         \A s \in Subjects : call'[s] = call[s] \/
           /\ call'[s].pc \in {"fetched", "create"} =>
                /\ Len(call'[s].rows) <= MaxRows
                /\ \E t \in instants' : call'[s].rows = Pages!Selection(call'[s].query, t)
           /\ call'[s].pc \in {"created", "read"} => call'[s].snapshot # None
           /\ call'[s] # Pages!Idle /\ call'[s].cursor # None =>
                \E p \in shown' : p.next = call'[s].cursor,
         \A p \in shown' \ shown : IsPage(p)' /\ Pages!FollowsItsCursor(p)'
  PROVE  PagesInv'
<1>1. RetainedStand'
  BY DEF PagesInv, RetainedStand, Selected
<1>2. FetchedStand'
  BY DEF PagesInv, FetchedStand, Selected
<1>7. ReadsSnapshot'
  BY DEF PagesInv, ReadsSnapshot
<1>3. ASSUME NEW p \in shown PROVE IsPage(p)'
  <2>1. IsPage(p)
    BY DEF PagesInv
  <2> QED  BY <2>1 DEF IsPage
<1>4. ASSUME NEW p \in shown PROVE Pages!FollowsItsCursor(p)'
  <2>1. Pages!FollowsItsCursor(p)
    BY DEF PagesInv
  <2> QED  BY <2>1 DEF Pages!FollowsItsCursor
<1>5. \A p \in shown' : IsPage(p)' /\ Pages!FollowsItsCursor(p)'
  BY <1>3, <1>4
<1>6. \A s \in Subjects : call'[s] # Pages!Idle /\ call'[s].cursor # None =>
        \E p \in shown' : p.next = call'[s].cursor
  BY DEF PagesInv, WasGiven
<1> QED  BY <1>1, <1>2, <1>5, <1>6, <1>7 DEF PagesInv, WasGiven

LEMMA RowChangesKeeps ==
  ASSUME PagesInv, NEW e \in Episodes, Pages!RowChanges(e), PagesAssumption PROVE PagesInv'
<1>1. table' \in [Episodes -> 0 .. MaxState] /\ instants' = instants \cup {table'}
  BY DEF PagesInv, PagesType, Pages!RowChanges, PagesAssumption
<1>2. PagesType'
  BY <1>1 DEF PagesInv, PagesType, Pages!RowChanges
<1> QED  BY <1>1, <1>2, PagesStep1 DEF Pages!RowChanges

LEMMA GrantsChangeKeeps ==
  ASSUME PagesInv, NEW s \in Subjects, Pages!GrantsChange(s), PagesAssumption PROVE PagesInv'
<1>1. authority' \in [Subjects -> [revision : 0 .. MaxRevision, granted : BOOLEAN]]
  BY DEF PagesInv, PagesType, Pages!GrantsChange, PagesAssumption
<1>2. PagesType'
  BY <1>1 DEF PagesInv, PagesType, Pages!GrantsChange
<1> QED  BY <1>2, PagesStep1 DEF Pages!GrantsChange

LEMMA TickKeeps == ASSUME PagesInv, Pages!Tick, PagesAssumption PROVE PagesInv'
<1>1. \A i \in Snapshots : snapshot[i] \in Retained \cup {None}
  BY DEF PagesInv, PagesType
<1>2. ASSUME NEW i \in Snapshots, snapshot[i] # None
      PROVE  /\ snapshot'[i] \in Retained /\ snapshot'[i].owner = snapshot[i].owner
             /\ snapshot'[i].query = snapshot[i].query /\ snapshot'[i].rows = snapshot[i].rows
  <2>1. snapshot[i] \in Retained
    BY <1>1, <1>2
  <2>2. snapshot[i].left \in Nat /\ snapshot[i].left <= Ttl
    BY <2>1 DEF Retained, PagesAssumption
  <2>3. snapshot'[i] = IF snapshot[i].left = 0 THEN snapshot[i]
                       ELSE [snapshot[i] EXCEPT !.left = @ - 1]
    BY <1>2 DEF Pages!Tick
  <2> QED  BY <2>1, <2>2, <2>3 DEF Retained, PagesAssumption
<1>3. \A i \in Snapshots : snapshot[i] = None => snapshot'[i] = None
  BY DEF Pages!Tick
<1>4. snapshot' \in [Snapshots -> Retained \cup {None}]
  <2>1. \A i \in Snapshots : snapshot'[i] \in Retained \cup {None}
    BY <1>2, <1>3
  <2>2. DOMAIN snapshot' = Snapshots /\ snapshot' = [i \in Snapshots |-> snapshot'[i]]
    BY DEF Pages!Tick
  <2> QED  BY <2>1, <2>2
<1>5. PagesType'
  BY <1>4 DEF PagesInv, PagesType, Pages!Tick
<1> QED  BY <1>2, <1>3, <1>5, PagesStep1 DEF Pages!Tick, PagesAssumption

\* A step of one call.
LEMMA CallChangesKeeps ==
  ASSUME PagesInv, NEW s \in Subjects, NEW c \in Calls \cup {Pages!Idle},
         call' = [call EXCEPT ![s] = c], UNCHANGED <<table, authority, snapshot, instants>>,
         c.pc \in {"fetched", "create"} => Selected(c.rows, c.query),
         c.pc \in {"created", "read"} => c.snapshot # None,
         c # Pages!Idle /\ c.cursor # None => WasGiven(c.cursor),
         shown \subseteq shown',
         \A p \in shown' \ shown : IsPage(p)' /\ Pages!FollowsItsCursor(p)'
  PROVE  PagesInv'
<1>1. call' \in [Subjects -> Calls \cup {Pages!Idle}] /\ call'[s] = c
      /\ \A u \in Subjects \ {s} : call'[u] = call[u]
  BY DEF PagesInv, PagesType
<1>2. PagesType'
  BY <1>1 DEF PagesInv, PagesType
<1>3. \A u \in Subjects : call'[u] = call[u] \/
        /\ call'[u].pc \in {"fetched", "create"} =>
             /\ Len(call'[u].rows) <= MaxRows
             /\ \E t \in instants' : call'[u].rows = Pages!Selection(call'[u].query, t)
        /\ call'[u].pc \in {"created", "read"} => call'[u].snapshot # None
        /\ call'[u] # Pages!Idle /\ call'[u].cursor # None =>
             \E p \in shown' : p.next = call'[u].cursor
  BY <1>1 DEF Selected, WasGiven
<1> QED  BY <1>2, <1>3, PagesStep1

LEMMA CallOfSubject ==
  ASSUME PagesInv, NEW s \in Subjects, call[s] # Pages!Idle
  PROVE  call[s] \in Calls
BY DEF PagesInv, PagesType, Calls

LEMMA StartCallKeeps ==
  ASSUME PagesInv, NEW s \in Subjects, Pages!StartCall(s), PagesAssumption PROVE PagesInv'
<1>1. Pages!Presented(s) \in Pages!Principal
  BY DEF PagesInv, PagesType, Pages!Presented, Pages!Principal
<1>2. PICK query \in Pages!Queries, size \in PageSizes, snap \in Snapshots \cup {None},
           cursor \in Pages!Given(s) \cup {None} :
        call' = [call EXCEPT ![s] = Pages!Call(s, query, snap, cursor, size)]
  BY Zenon DEF Pages!StartCall
<1>3. cursor # None => WasGiven(cursor) /\ cursor \in Pages!Cursor
  BY DEF Pages!Given, WasGiven, PagesInv, IsPage
<1>4. <<>> \in Seq(Rows)
  OBVIOUS
<1>5. Pages!Call(s, query, snap, cursor, size) \in Calls
  BY <1>1, <1>3, <1>4 DEF Pages!Call, Calls, CallPcs
<1>6. /\ Pages!Call(s, query, snap, cursor, size).pc = "start"
      /\ Pages!Call(s, query, snap, cursor, size).cursor = cursor
  BY DEF Pages!Call
<1> QED  BY <1>2, <1>3, <1>5, <1>6, CallChangesKeeps DEF Pages!StartCall

LEMMA IdleKeeps ==
  ASSUME PagesInv, NEW s \in Subjects, call' = [call EXCEPT ![s] = Pages!Idle],
         UNCHANGED <<table, authority, snapshot, instants>>, shown \subseteq shown',
         \A p \in shown' \ shown : IsPage(p)' /\ Pages!FollowsItsCursor(p)'
  PROVE  PagesInv'
<1>1. Pages!Idle.pc = "idle"
  BY DEF Pages!Idle
<1> QED  BY <1>1, CallChangesKeeps

LEMMA AuthorizeKeeps ==
  ASSUME PagesInv, NEW s \in Subjects, Pages!Authorize(s), PagesAssumption PROVE PagesInv'
<1>1. call[s] # Pages!Idle /\ call[s] \in Calls
  BY CallOfSubject DEF Pages!Authorize, Pages!At
<1>2. CASE call' = [call EXCEPT ![s] = Pages!Idle]
  BY <1>2, IdleKeeps DEF Pages!Authorize
<1>3. CASE \E pc \in {"fetch", "read"} :
             call' = [call EXCEPT ![s].pc = pc] /\ (pc = "read" => call[s].snapshot # None)
  <2>1. PICK pc \in {"fetch", "read"} :
          call' = [call EXCEPT ![s].pc = pc] /\ (pc = "read" => call[s].snapshot # None)
    BY <1>3
  <2> DEFINE c == [call[s] EXCEPT !.pc = pc]
  <2>2. c \in Calls /\ c.pc = pc /\ c.cursor = call[s].cursor /\ c.snapshot = call[s].snapshot
    BY <1>1 DEF Calls, CallPcs
  <2>3. call' = [call EXCEPT ![s] = c]
    BY <2>1 DEF PagesInv, PagesType
  <2>4. c.cursor # None => WasGiven(c.cursor)
    BY <1>1, <2>2 DEF PagesInv
  <2> HIDE DEF c
  <2> QED  BY <2>1, <2>2, <2>3, <2>4, CallChangesKeeps DEF Pages!Authorize
<1>4. CASE Pages!At(s, "fetched") /\ call' = [call EXCEPT ![s].pc = "create"]
  <2> DEFINE c == [call[s] EXCEPT !.pc = "create"]
  <2>1. c \in Calls /\ c.cursor = call[s].cursor /\ c.rows = call[s].rows /\ c.query = call[s].query
        /\ c.pc = "create"
    BY <1>1 DEF Calls, CallPcs
  <2>2. call' = [call EXCEPT ![s] = c]
    BY <1>4 DEF PagesInv, PagesType
  <2>3. c.cursor # None => WasGiven(c.cursor)
    BY <1>1, <2>1 DEF PagesInv
  <2>4. Selected(c.rows, c.query)
    BY <1>4, <2>1 DEF Pages!At, PagesInv, FetchedStand
  <2> HIDE DEF c
  <2> QED  BY <2>1, <2>2, <2>3, <2>4, CallChangesKeeps DEF Pages!Authorize
<1>5. PICK from \in {"start", "fetched", "created"} :
        /\ Pages!At(s, from)
        /\ IF Pages!Authorized(call[s].principal)
           THEN Pages!Goto(s, CASE from = "start" -> IF call[s].snapshot = None THEN "fetch" ELSE "read"
                                [] from = "fetched" -> "create"
                                [] from = "created" -> "read")
           ELSE Pages!Refuse(s)
  BY DEF Pages!Authorize
<1>6. CASE Pages!Authorized(call[s].principal)
  <2>1. CASE from = "start"
    BY <1>3, <1>5, <1>6, <2>1 DEF Pages!Goto
  <2>2. CASE from = "fetched"
    BY <1>4, <1>5, <1>6, <2>2 DEF Pages!Goto
  <2>3. CASE from = "created"
    BY <1>3, <1>5, <1>6, <2>3 DEF Pages!Goto, Pages!At, PagesInv, ReadsSnapshot
  <2> QED  BY <2>1, <2>2, <2>3
<1>7. CASE ~Pages!Authorized(call[s].principal)
  BY <1>2, <1>5, <1>7 DEF Pages!Refuse
<1> QED  BY <1>6, <1>7

LEMMA FetchRowsKeeps ==
  ASSUME PagesInv, NEW s \in Subjects, Pages!FetchRows(s), PagesAssumption PROVE PagesInv'
<1> DEFINE rows == Pages!Selection(call[s].query, table)
           c == [call[s] EXCEPT !.rows = rows, !.pc = "fetched"]
<1>1. call[s] # Pages!Idle /\ call[s] \in Calls
  BY CallOfSubject DEF Pages!FetchRows, Pages!At
<1>2. call[s].query \in Pages!Queries /\ table \in [Episodes -> 0 .. MaxState]
  BY <1>1 DEF Calls, PagesInv, PagesType
<1>3. rows \in Seq(Rows) /\ Len(rows) \in Nat
  BY <1>2, SelectionIsSequence
<1>4. CASE Len(rows) > MaxRows
  BY <1>4, IdleKeeps DEF Pages!FetchRows, Pages!Refuse
<1>5. CASE ~(Len(rows) > MaxRows)
  <2> HIDE DEF rows
  <2>1. c \in Calls /\ c.cursor = call[s].cursor /\ c.rows = rows /\ c.query = call[s].query
        /\ c.pc = "fetched"
    BY <1>1, <1>3 DEF Calls, CallPcs
  <2>2. call' = [call EXCEPT ![s].rows = rows, ![s].pc = "fetched"]
    BY <1>5 DEF Pages!FetchRows, rows
  <2>3. call' = [call EXCEPT ![s] = c]
    BY <2>2 DEF PagesInv, PagesType
  <2>4. c.cursor # None => WasGiven(c.cursor)
    BY <1>1, <2>1 DEF PagesInv
  <2>5. Selected(c.rows, c.query)
    <3>1. Len(rows) <= MaxRows
      BY <1>3, <1>5 DEF PagesAssumption
    <3>2. table \in instants
      BY DEF PagesInv, PagesType
    <3> HIDE DEF c
    <3> QED  BY <2>1, <3>1, <3>2 DEF Selected, rows
  <2> HIDE DEF c
  <2> QED  BY <2>1, <2>3, <2>4, <2>5, CallChangesKeeps DEF Pages!FetchRows
<1> QED  BY <1>4, <1>5

LEMMA CreateSnapshotKeeps ==
  ASSUME PagesInv, NEW s \in Subjects, Pages!CreateSnapshot(s), PagesAssumption PROVE PagesInv'
<1>1. call[s] # Pages!Idle /\ call[s] \in Calls /\ call[s].pc = "create"
  BY CallOfSubject DEF Pages!CreateSnapshot, Pages!At
<1> DEFINE made == [owner |-> call[s].principal, query |-> call[s].query, left |-> Ttl,
                    rows |-> call[s].rows]
<1>2. made \in Retained /\ made.rows = call[s].rows /\ made.query = call[s].query
  BY <1>1 DEF Calls, Retained, PagesAssumption
<1>3. Selected(made.rows, made.query)
  BY <1>1, <1>2 DEF PagesInv, FetchedStand
<1> HIDE DEF made
<1>4. PICK i \in Snapshots :
        /\ snapshot[i] = None /\ snapshot' = [snapshot EXCEPT ![i] = made]
        /\ call' = [call EXCEPT ![s].snapshot = i, ![s].pc = "created"]
  BY DEF Pages!CreateSnapshot, made
<1>5. snapshot' \in [Snapshots -> Retained \cup {None}] /\ snapshot'[i] = made
      /\ \A j \in Snapshots \ {i} : snapshot'[j] = snapshot[j]
  BY <1>2, <1>4 DEF PagesInv, PagesType
<1> DEFINE c == [call[s] EXCEPT !.snapshot = i, !.pc = "created"]
<1>6. c \in Calls /\ c.cursor = call[s].cursor /\ c.pc = "created" /\ c.snapshot # None
  BY <1>1, <1>4 DEF PagesAssumption, Calls, CallPcs
<1>7. call' = [call EXCEPT ![s] = c]
  BY <1>4 DEF PagesInv, PagesType
<1> HIDE DEF c
<1>8. call' \in [Subjects -> Calls \cup {Pages!Idle}] /\ call'[s] = c
      /\ \A u \in Subjects \ {s} : call'[u] = call[u]
  BY <1>6, <1>7 DEF PagesInv, PagesType
<1>9. c.cursor # None => WasGiven(c.cursor)
  BY <1>1, <1>6 DEF PagesInv
<1>10. PagesType' /\ instants' = instants /\ shown' = shown
  BY <1>5, <1>8 DEF PagesInv, PagesType, Pages!CreateSnapshot
<1>11. \A u \in Subjects : call'[u] = call[u] \/
         /\ call'[u].pc \in {"fetched", "create"} =>
              /\ Len(call'[u].rows) <= MaxRows
              /\ \E t \in instants' : call'[u].rows = Pages!Selection(call'[u].query, t)
         /\ call'[u].pc \in {"created", "read"} => call'[u].snapshot # None
         /\ call'[u] # Pages!Idle /\ call'[u].cursor # None =>
              \E p \in shown' : p.next = call'[u].cursor
  BY <1>6, <1>8, <1>9, <1>10 DEF WasGiven
<1>12. \A j \in Snapshots : snapshot[j] = None /\ snapshot'[j] # None =>
           /\ Len(snapshot'[j].rows) <= MaxRows
           /\ \E t \in instants' : snapshot'[j].rows = Pages!Selection(snapshot'[j].query, t)
  BY <1>3, <1>5, <1>10 DEF Selected
<1>13. \A j \in Snapshots : snapshot[j] # None =>
           /\ snapshot'[j] # None /\ snapshot'[j].owner = snapshot[j].owner
           /\ snapshot'[j].query = snapshot[j].query /\ snapshot'[j].rows = snapshot[j].rows
  BY <1>4, <1>5
<1> QED  BY <1>10, <1>11, <1>12, <1>13, PagesStep1

\* A page that is read is a piece of its snapshot, and follows its cursor.
LEMMA PageStands ==
  ASSUME PagesInv, PagesAssumption, NEW s \in Subjects, call[s] # Pages!Idle, NEW i \in Snapshots,
         i = call[s].snapshot, Pages!Readable(s, i)
  PROVE  IsPage(Pages!Page(s, i)) /\ Pages!FollowsItsCursor(Pages!Page(s, i))
<1> DEFINE c == call[s]
           rows == snapshot[i].rows
           first == IF c.cursor = None THEN 1 ELSE c.cursor.next
           count == Pages!Smaller(c.size, Len(rows) - first + 1)
           piece == SubSeq(rows, first, first + count - 1)
           page == Pages!Page(s, i)
<1>1. c \in Calls /\ snapshot[i] # None /\ snapshot[i] \in Retained
  BY CallOfSubject DEF Pages!Readable, PagesInv, PagesType
<1>2. /\ rows \in Seq(Rows) /\ Len(rows) \in Nat /\ Len(rows) <= MaxRows
      /\ c.principal \in Pages!Principal /\ c.query = snapshot[i].query /\ c.size \in Nat \ {0}
      /\ snapshot[i].query \in Pages!Queries
  <2>1. rows \in Seq(Rows) /\ snapshot[i].query \in Pages!Queries
    BY <1>1 DEF Retained
  <2>2. Len(rows) <= MaxRows
    BY <1>1 DEF PagesInv, RetainedStand, Selected
  <2>3. c.principal \in Pages!Principal /\ c.size \in Nat \ {0}
    BY <1>1 DEF Calls, PagesAssumption
  <2>4. c.query = snapshot[i].query
    BY DEF Pages!Readable
  <2>5. Len(rows) \in Nat
    BY <2>1, LenProperties
  <2> QED  BY <2>1, <2>2, <2>3, <2>4, <2>5
<1>3. /\ c.principal.granted = TRUE /\ c.principal.subject = snapshot[i].owner.subject
      /\ c.principal.revision = snapshot[i].owner.revision
  <2>1. c.principal.granted \in BOOLEAN
    BY <1>2 DEF Pages!Principal
  <2> QED  BY <2>1 DEF Pages!Readable, Pages!AuthorizesSnapshot
<1>4. first \in Nat \ {0} /\ first <= Len(rows) + 1
  <2>1. CASE c.cursor = None
    BY <2>1, <1>2
  <2>2. CASE c.cursor # None
    <3>1. c.cursor \in Pages!Cursor /\ c.cursor.next <= Len(rows)
      BY <1>1, <2>2 DEF Calls, Pages!Readable
    <3> QED  BY <2>2, <3>1, <1>2 DEF Pages!Cursor, PagesAssumption
  <2> QED  BY <2>1, <2>2
<1> HIDE DEF first, rows
<1>5. count \in Nat /\ first + count - 1 <= Len(rows)
  BY <1>2, <1>4 DEF Pages!Smaller
<1> HIDE DEF count
<1>6. Len(piece) = count
  BY <1>2, <1>4, <1>5, SubSeqProperties
<1>7. /\ page.reader = c.principal /\ page.query = c.query /\ page.snapshot = i
      /\ page.first = first /\ page.rows = piece /\ page.total = Len(rows)
      /\ page.next = IF first + count > Len(rows) THEN None
                     ELSE [snapshot |-> i, query |-> snapshot[i].query, next |-> first + count]
  BY DEF Pages!Page, Pages!Retained, Pages!NextOrdinal, first, count, rows
<1> HIDE DEF page, c, piece
<1>8. page.next # None =>
        page.next \in Pages!Cursor /\ page.next.snapshot = i /\ page.next.next = first + count
  <2> SUFFICES ASSUME page.next # None
               PROVE  page.next \in Pages!Cursor /\ page.next.snapshot = i /\ page.next.next = first + count
    OBVIOUS
  <2>1. page.next = [snapshot |-> i, query |-> snapshot[i].query, next |-> first + count]
        /\ first + count <= Len(rows)
    BY <1>2, <1>4, <1>5, <1>7
  <2>2. first + count \in 1 .. MaxRows
    BY <2>1, <1>2, <1>4, <1>5 DEF PagesAssumption
  <2> QED  BY <1>2, <2>1, <2>2 DEF Pages!Cursor
<1>9. IsPage(page)
  BY <1>1, <1>2, <1>3, <1>4, <1>5, <1>6, <1>7, <1>8 DEF IsPage, rows, piece
<1>10. Pages!FollowsItsCursor(page)
  <2>1. CASE c.cursor = None
    <3>1. page.first = 1
      BY <1>7, <2>1 DEF first, c
    <3> QED  BY <3>1 DEF Pages!FollowsItsCursor
  <2>2. CASE c.cursor # None
    <3>1. PICK p \in shown : p.next = c.cursor
      BY <2>2 DEF PagesInv, WasGiven, c
    <3>2. IsPage(p) /\ Pages!FollowsItsCursor(p)
      BY DEF PagesInv
    <3>3. c.cursor.snapshot = i /\ first = c.cursor.next
      BY <2>2 DEF Pages!Readable, Pages!Verifies, c, first
    <3>4. p.snapshot = i /\ first = p.first + Len(p.rows) /\ p.first \in Nat /\ Len(p.rows) \in Nat
      BY <3>1, <3>2, <3>3, <2>2 DEF IsPage
    <3>5. p.reader = page.reader
      BY <3>2, <3>4, <1>2, <1>3, <1>7, SamePrincipal DEF IsPage
    <3>6. ASSUME NEW ordinal \in 1 .. page.first - 1
          PROVE  \E q \in shown :
                   /\ q.snapshot = page.snapshot /\ q.reader = page.reader
                   /\ ordinal \in q.first .. q.first + Len(q.rows) - 1
      <4>1. CASE ordinal >= p.first
        BY <4>1, <3>4, <3>5, <1>7
      <4>2. CASE ordinal < p.first
        <5>1. ordinal \in 1 .. p.first - 1
          BY <4>2, <3>4, <1>4, <1>7
        <5> QED  BY <5>1, <3>2, <3>4, <3>5, <1>7 DEF Pages!FollowsItsCursor
      <4> QED  BY <4>1, <4>2, <3>4, <1>4, <1>7
    <3> QED  BY <3>6 DEF Pages!FollowsItsCursor
  <2> QED  BY <2>1, <2>2
<1> QED  BY <1>9, <1>10 DEF page

LEMMA ReadPageKeeps ==
  ASSUME PagesInv, NEW s \in Subjects, Pages!ReadPage(s), PagesAssumption PROVE PagesInv'
<1> DEFINE i == call[s].snapshot
<1>1. /\ call[s] # Pages!Idle /\ call' = [call EXCEPT ![s] = Pages!Idle]
      /\ UNCHANGED <<table, authority, snapshot, instants>>
      /\ shown' = shown \cup (IF Pages!Readable(s, i) THEN {Pages!Page(s, i)} ELSE {})
  BY DEF Pages!ReadPage, Pages!At
<1>2. ASSUME NEW p \in shown' \ shown PROVE IsPage(p)' /\ Pages!FollowsItsCursor(p)'
  <2>1. Pages!Readable(s, i) /\ p = Pages!Page(s, i)
    BY <1>1, <1>2
  <2>2. i \in Snapshots
    <3>1. call[s] \in Calls
      BY <1>1, CallOfSubject
    <3> QED  BY <3>1 DEF Calls, Pages!ReadPage, Pages!At, PagesInv, ReadsSnapshot
  <2>3. IsPage(p) /\ Pages!FollowsItsCursor(p)
    BY <1>1, <2>1, <2>2, PageStands
  <2> QED  BY <1>1, <2>3 DEF IsPage, Pages!FollowsItsCursor
<1> HIDE DEF i
<1> QED  BY <1>1, <1>2, IdleKeeps

LEMMA PagesKeep ==
  ASSUME PagesAssumption PROVE PagesInv /\ (Pages!Next \/ UNCHANGED pagesVars) => PagesInv'
<1> SUFFICES ASSUME PagesInv, Pages!Next \/ UNCHANGED pagesVars PROVE PagesInv'
  OBVIOUS
<1>1. CASE UNCHANGED pagesVars
  <2>1. UNCHANGED <<table, authority, snapshot, call, shown, instants>>
    BY <1>1 DEF pagesVars
  <2>2. PagesType'
    BY <2>1 DEF PagesInv, PagesType
  <2> QED  BY <2>1, <2>2, PagesStep1
<1>2. CASE Pages!Next
  BY <1>2, RowChangesKeeps, GrantsChangeKeeps, TickKeeps, StartCallKeeps, AuthorizeKeeps,
     FetchRowsKeeps, CreateSnapshotKeeps, ReadPageKeeps DEF Pages!Next
<1> QED  BY <1>1, <1>2

LEMMA PagesImply ==
  ASSUME PagesAssumption, PagesInv PROVE Pages!TypeOK /\ Pages!PagesAreOneAnswer
<1>1. Pages!TypeOK
  <2>1. ASSUME NEW i \in Snapshots, snapshot[i] # None
        PROVE  /\ snapshot[i].owner \in Pages!Principal /\ snapshot[i].query \in Pages!Queries
               /\ snapshot[i].left \in 0 .. Ttl /\ Len(snapshot[i].rows) <= MaxRows
    <3>1. snapshot[i] \in Retained
      BY <2>1 DEF PagesInv, PagesType
    <3> QED  BY <2>1, <3>1 DEF Retained, PagesInv, RetainedStand, Selected
  <2>2. ASSUME NEW s \in Subjects, call[s] # Pages!Idle
        PROVE  /\ call[s].principal \in Pages!Principal /\ call[s].snapshot \in Snapshots \cup {None}
               /\ call[s].cursor \in Pages!Cursor \cup {None}
    BY <2>2, CallOfSubject DEF Calls
  <2> QED  BY <2>1, <2>2 DEF Pages!TypeOK, PagesInv, PagesType
<1>2. ASSUME NEW i \in Snapshots PROVE Pages!OfOneInstant(i)
  <2>1. CASE snapshot[i] = None
    BY <2>1 DEF Pages!OfOneInstant, PagesInv, IsPage, PagesType
  <2>2. CASE snapshot[i] # None
    <3>1. PICK t \in instants : snapshot[i].rows = Pages!Selection(snapshot[i].query, t)
      BY <2>2 DEF PagesInv, RetainedStand, Selected
    <3> QED  BY <3>1 DEF Pages!OfOneInstant, PagesInv, IsPage
  <2> QED  BY <2>1, <2>2
<1>3. ASSUME NEW p \in shown, NEW q \in shown, p.snapshot = q.snapshot
      PROVE  p.reader = q.reader /\ p.query = q.query
  <2>1. IsPage(p) /\ IsPage(q)
    BY DEF PagesInv
  <2> QED  BY <1>3, <2>1, SamePrincipal DEF IsPage
<1>4. \A p \in shown : Pages!FollowsItsCursor(p)
  BY DEF PagesInv
<1> QED  BY <1>1, <1>2, <1>3, <1>4 DEF Pages!PagesAreOneAnswer



Pcs == {"select", "insert", "taken", "upsert"}

\* The capability c is what was to be said of the snapshot d when it was checked.
Says(c, d) ==
  /\ d.available = c.available /\ d.event = c.event
  /\ c.state = Ingress!CapabilityState(d, c.checked, c.age)
  /\ d.available <= c.checked
  /\ d.fact # None => d.fact.available \in 0 .. d.available

\* What a publisher carries: a draft and what is to be said of it.
Carries(q) ==
  /\ q.draft \in Ingress!Draft /\ q.capability \in Capability
  /\ q.capability.partition = q.draft.partition
  /\ Says(q.capability, q.draft)

Placed(q) ==
  q.pc \in {"taken", "upsert"} =>
    /\ source[q.draft.partition] # None
    /\ q.pc = "upsert" => Ingress!Same(source[q.draft.partition], q.draft)

Reaches(p) ==
  source[p] # None /\ source[p].age # None =>
    capability # None /\ Ingress!Rank(capability) >= Ingress!Rank(source[p])

IngressInv ==
  /\ now \in Ingress!Instant
  /\ source \in [Partitions -> Ingress!Draft \cup {None}]
  /\ DOMAIN ingesting = SourcePublishers
  /\ \A p \in SourcePublishers : ingesting[p] # None => Carries(ingesting[p]) /\ Placed(ingesting[p])
  /\ capability # None =>
       /\ capability \in Capability
       /\ source[capability.partition] # None
       /\ Says(capability, source[capability.partition])
  /\ \A p \in Partitions : Reaches(p)

-----------------------------------------------------------------------------
\* Rank orders by the availability and then by the event.
LEMMA Ranks ==
  ASSUME SourceClock \in Nat, NEW a \in Ingress!Instant, NEW e \in Ingress!Instant, NEW b \in Ingress!Instant, NEW f \in Ingress!Instant
  PROVE  a * (SourceClock + 1) + e >= b * (SourceClock + 1) + f <=> a > b \/ (a = b /\ e >= f)
<1>1. ASSUME NEW x \in Ingress!Instant, NEW y \in Ingress!Instant, x > y, NEW g \in Ingress!Instant, NEW h \in Ingress!Instant
      PROVE  x * (SourceClock + 1) + g > y * (SourceClock + 1) + h
  <2>1. PICK k \in Nat : x = y + 1 + k
    <3>1. x - y - 1 \in Nat /\ x = y + 1 + (x - y - 1)
      BY <1>1 DEF Ingress!Instant
    <3> QED  BY <3>1
  <2> DEFINE n == SourceClock + 1
  <2>2. n \in Nat /\ h < n /\ g >= 0
    BY DEF Ingress!Instant
  <2>3. x * n = y * n + n + k * n
    BY <2>1, <2>2 DEF Ingress!Instant
  <2>4. k * n >= 0 /\ k * n \in Nat
    BY <2>1, <2>2
  <2>5. y * n \in Nat /\ x * n \in Nat
    BY <2>2 DEF Ingress!Instant
  <2> HIDE DEF n
  <2>6. x * n + g > y * n + h
    BY <2>2, <2>3, <2>4, <2>5 DEF Ingress!Instant
  <2> QED  BY <2>6 DEF n
<1>2. CASE a > b
  BY <1>1, <1>2 DEF Ingress!Instant
<1>3. CASE b > a
  <2>1. b * (SourceClock + 1) + f > a * (SourceClock + 1) + e
    BY <1>1, <1>3
  <2>2. a * (SourceClock + 1) \in Nat /\ b * (SourceClock + 1) \in Nat
    BY DEF Ingress!Instant
  <2> QED  BY <1>3, <2>1, <2>2 DEF Ingress!Instant
<1>4. CASE a = b
  <2>1. PICK m \in Nat : m = a * (SourceClock + 1)
    BY DEF Ingress!Instant
  <2> QED  BY <1>4, <2>1 DEF Ingress!Instant
<1> QED  BY <1>2, <1>3, <1>4 DEF Ingress!Instant

\* What is upserted lies as far ahead as both what was there and what came.
LEMMA UpsertLatest ==
  ASSUME SourceClock \in Nat, NEW new \in Capability, Ingress!Upsert(new),
         capability = None \/ capability \in Capability
  PROVE  /\ capability' \in {new, capability}
         /\ capability = None => capability' = new
         /\ Ingress!Rank(capability') >= Ingress!Rank(new)
         /\ capability # None => Ingress!Rank(capability') >= Ingress!Rank(capability)
<1>1. CASE capability = None
  <2>1. capability' = new /\ Ingress!Rank(new) \in Int
    BY <1>1 DEF Ingress!Upsert, Ingress!Rank, Capability, Ingress!Instant
  <2> QED  BY <1>1, <2>1
<1>2. CASE capability # None
  <2>1. capability \in Capability
    BY <1>2
  <2>2. Ingress!Rank(new) \in Int /\ Ingress!Rank(capability) \in Int
    BY <2>1 DEF Ingress!Rank, Capability, Ingress!Instant
  <2>3. /\ new.available \in Ingress!Instant /\ new.event \in Ingress!Instant
        /\ capability.available \in Ingress!Instant /\ capability.event \in Ingress!Instant
    BY <2>1 DEF Capability
  <2>4. Ingress!Supersedes(new, capability) <=> Ingress!Rank(new) >= Ingress!Rank(capability)
    BY <2>3, Ranks DEF Ingress!Supersedes, Ingress!Rank
  <2>5. capability' = IF Ingress!Supersedes(new, capability) THEN new ELSE capability
    BY <1>2 DEF Ingress!Upsert
  <2> QED  BY <1>2, <2>2, <2>4, <2>5
<1> QED  BY <1>1, <1>2

\* What is said of a draft is said of the row that is the same.
LEMMA SaysOfSame ==
  ASSUME NEW c, NEW d, NEW stored, Ingress!Same(stored, d), Says(c, d)
  PROVE  Says(c, stored) /\ stored.partition = d.partition
<1>1. /\ stored.available = d.available /\ stored.event = d.event /\ stored.fact = d.fact
      /\ stored.status = d.status /\ stored.partition = d.partition
  BY DEF Ingress!Same, Ingress!Identity
<1>2. \A checked, age : Ingress!CapabilityState(stored, checked, age) = Ingress!CapabilityState(d, checked, age)
  BY <1>1 DEF Ingress!CapabilityState
<1> QED  BY <1>1, <1>2 DEF Says

LEMMA SameRank ==
  ASSUME IngressAssumption, NEW d, NEW stored, Ingress!Same(stored, d)
  PROVE  Ingress!Rank(stored) = Ingress!Rank(d)
BY DEF Ingress!Same, Ingress!Identity, Ingress!Rank

\* CapabilityState gives one of five answers.
LEMMA States ==
  ASSUME IngressAssumption, NEW d \in Ingress!Draft, NEW checked, NEW age
  PROVE  Ingress!CapabilityState(d, checked, age) \in
           {"READY", "STALE", "PARTIAL", "INSUFFICIENT", "UNAVAILABLE"}
<1>1. d.status \in Ingress!Statuses
  BY DEF Ingress!Draft
<1>2. CASE d.status = "PARTIAL"
  BY <1>2 DEF Ingress!CapabilityState
<1>3. CASE d.status = "INSUFFICIENT"
  BY <1>3 DEF Ingress!CapabilityState
<1>4. CASE d.status = "QUARANTINED" /\ d.fact # None
  BY <1>4 DEF Ingress!CapabilityState
<1>5. CASE d.status = "PUBLISHED" /\ d.fact # None
  BY <1>5 DEF Ingress!CapabilityState
<1>6. CASE d.fact = None /\ d.status # "PARTIAL"
  BY <1>6 DEF Ingress!CapabilityState
<1> QED  BY <1>1, <1>2, <1>3, <1>4, <1>5, <1>6 DEF Ingress!Statuses

\* What READY says.
LEMMA ReadyMeans ==
  ASSUME IngressAssumption, NEW d \in Ingress!Draft, NEW checked \in Ingress!Instant, NEW age \in Nat,
         Ingress!CapabilityState(d, checked, age) = "READY"
  PROVE  d.fact # None /\ checked - d.available <= age
<1>1. d.status \in Ingress!Statuses
  BY DEF Ingress!Draft
<1>2. d.status = "PUBLISHED" /\ d.fact # None
  <2>1. CASE d.status = "PARTIAL"
    BY <2>1 DEF Ingress!CapabilityState
  <2>2. CASE d.status # "PARTIAL" /\ (d.status = "INSUFFICIENT" \/ d.fact = None)
    BY <2>2 DEF Ingress!CapabilityState
  <2>3. CASE d.status = "QUARANTINED" /\ d.fact # None
    BY <2>3 DEF Ingress!CapabilityState
  <2> QED  BY <1>1, <2>1, <2>2, <2>3 DEF Ingress!Statuses
<1>3. Ingress!CapabilityState(d, checked, age) = IF checked - d.available > age THEN "STALE" ELSE "READY"
  BY <1>2 DEF Ingress!CapabilityState
<1>4. d.available \in Ingress!Instant
  BY DEF Ingress!Draft
<1> QED  BY <1>2, <1>3, <1>4 DEF Ingress!Instant

LEMMA IngressImplies ==
  ASSUME IngressAssumption, IngressInv
  PROVE  Ingress!TypeOK /\ Ingress!CapabilityIsLatest /\ Ingress!ReadyIsEarned
<1>1. Ingress!CapabilityIsLatest
  <2>1. ASSUME capability # None
        PROVE  LET d == source[capability.partition] IN
                 /\ d # None
                 /\ Ingress!Rank(capability) = Ingress!Rank(d)
                 /\ capability.state = Ingress!CapabilityState(d, capability.checked, capability.age)
    BY <2>1 DEF IngressInv, Says, Ingress!Rank
  <2> QED  BY <2>1 DEF IngressInv, Reaches, Ingress!CapabilityIsLatest
<1>2. ASSUME Ingress!Reported = "READY"
      PROVE  LET d == source[capability.partition] IN
               /\ d.fact # None
               /\ d.fact.available \in 0 .. capability.checked
               /\ capability.checked - d.available <= capability.age
  <2> DEFINE d == source[capability.partition]
  <2>1. capability # None /\ capability.state = "READY"
    BY <1>2 DEF Ingress!Reported
  <2>2. /\ capability \in Capability /\ d # None /\ Says(capability, d)
    BY <2>1 DEF IngressInv
  <2>3. d \in Ingress!Draft /\ capability.checked \in Ingress!Instant /\ capability.age \in Nat
    BY <2>2 DEF IngressInv, Capability
  <2>4. d.fact # None /\ capability.checked - d.available <= capability.age
    BY <2>1, <2>2, <2>3, ReadyMeans DEF Says
  <2>5. d.fact.available \in 0 .. d.available /\ d.available <= capability.checked
    BY <2>2, <2>4 DEF Says
  <2>6. d.available \in Ingress!Instant
    BY <2>3 DEF Ingress!Draft
  <2> QED  BY <2>3, <2>4, <2>5, <2>6 DEF Ingress!Instant
<1>3. Ingress!TypeOK
  BY DEF IngressInv, Capability, Carries, Ingress!TypeOK
<1> QED  BY <1>1, <1>2, <1>3 DEF Ingress!ReadyIsEarned

LEMMA IngressInit == ASSUME IngressAssumption PROVE Ingress!Init => IngressInv
<1> SUFFICES ASSUME Ingress!Init PROVE IngressInv
  OBVIOUS
<1>1. PICK old \in SUBSET LegacySnapshots :
        source = [p \in Partitions |->
          IF \E d \in old : d.partition = p THEN CHOOSE d \in old : d.partition = p ELSE None]
  BY DEF Ingress!Init
<1>2. ASSUME NEW p \in Partitions
      PROVE  source[p] = None \/ (source[p] \in Ingress!Draft /\ source[p].age = None)
  <2>1. CASE \E d \in old : d.partition = p
    <3>1. (CHOOSE d \in old : d.partition = p) \in old
      BY <2>1
    <3> QED  BY <1>1, <2>1, <3>1 DEF IngressAssumption
  <2>2. CASE ~ \E d \in old : d.partition = p
    BY <1>1, <2>2
  <2> QED  BY <2>1, <2>2
<1>3. now \in Ingress!Instant
  BY DEF Ingress!Init, Ingress!Instant, IngressAssumption
<1> QED  BY <1>1, <1>2, <1>3 DEF Ingress!Init, IngressInv, Reaches

-----------------------------------------------------------------------------
\* One publisher moves without touching the tables.
LEMMA PublisherMoves ==
  ASSUME IngressAssumption, IngressInv, NEW p \in SourcePublishers, NEW q,
         ingesting' = [ingesting EXCEPT ![p] = q], UNCHANGED <<now, source, capability>>,
         q # None => Carries(q) /\ Placed(q)
  PROVE  IngressInv'
<1>1. \A r : Placed(r)' <=> Placed(r)
  BY DEF Placed
<1>2. \A r : Carries(r)' <=> Carries(r)
  BY DEF Carries
<1>3. \A r : Reaches(r)' <=> Reaches(r)
  BY DEF Reaches
<1> QED  BY <1>1, <1>2, <1>3 DEF IngressInv

\* One publisher writes the capability, and perhaps the row that it is about.
LEMMA PublisherWrites ==
  ASSUME IngressAssumption, IngressInv, NEW p \in SourcePublishers, NEW new \in Capability,
         ingesting' = [ingesting EXCEPT ![p] = None], UNCHANGED now, Ingress!Upsert(new),
         source' \in [Partitions -> Ingress!Draft \cup {None}],
         \A r \in Partitions : source[r] # None => source'[r] = source[r],
         \A r \in Partitions : r # new.partition => source'[r] = source[r],
         source'[new.partition] # None, Says(new, source'[new.partition])
  PROVE  IngressInv'
<1>1. capability = None \/ capability \in Capability
  BY DEF IngressInv
<1>2. /\ capability' \in {new, capability}
      /\ capability = None => capability' = new
      /\ Ingress!Rank(capability') >= Ingress!Rank(new)
      /\ capability # None => Ingress!Rank(capability') >= Ingress!Rank(capability)
  BY <1>1, UpsertLatest DEF IngressAssumption
<1>3. new.partition \in Partitions /\ new # None
  BY DEF Capability, IngressAssumption
<1>4. capability' \in Capability /\ capability' # None
  BY <1>1, <1>2, <1>3
<1>5. source'[capability'.partition] # None /\ Says(capability', source'[capability'.partition])
  <2>1. CASE capability' = new
    BY <2>1
  <2>2. CASE capability' = capability /\ capability # None
    <3>1. capability.partition \in Partitions
      BY <1>4, <2>2 DEF Capability
    <3> QED  BY <2>2, <3>1 DEF IngressInv
  <2> QED  BY <1>2, <1>4, <2>1, <2>2
<1>6. ASSUME NEW r \in Partitions, source'[r] # None, source'[r].age # None
      PROVE  Ingress!Rank(capability') >= Ingress!Rank(source'[r])
  <2>0. Ingress!Rank(capability') \in Int /\ Ingress!Rank(new) \in Int /\ (capability # None => Ingress!Rank(capability) \in Int)
        /\ Ingress!Rank(source'[r]) \in Int
    BY <1>1, <1>4, <1>6 DEF Ingress!Rank, Capability, Ingress!Instant, IngressAssumption, Ingress!Draft
  <2>1. CASE r = new.partition
    <3>1. Ingress!Rank(source'[r]) = Ingress!Rank(new)
      BY <2>1 DEF Says, Ingress!Rank
    <3> QED  BY <1>2, <3>1
  <2>2. CASE r # new.partition
    <3>1. source'[r] = source[r] /\ Reaches(r)
      BY <2>2 DEF IngressInv
    <3>2. capability # None /\ Ingress!Rank(capability) >= Ingress!Rank(source[r])
      BY <1>6, <3>1 DEF Reaches
    <3> QED  BY <1>2, <2>0, <3>1, <3>2
  <2> QED  BY <2>1, <2>2
<1>7. \A r \in Partitions : Reaches(r)'
  BY <1>4, <1>6 DEF Reaches
<1>8. ASSUME NEW o \in SourcePublishers, ingesting'[o] # None
      PROVE  (Carries(ingesting[o]) /\ Placed(ingesting[o]))'
  <2>1. o # p /\ ingesting'[o] = ingesting[o]
    BY <1>8 DEF IngressInv
  <2>2. PICK q : q = ingesting[o]
    OBVIOUS
  <2>3. Carries(q) /\ Placed(q)
    BY <1>8, <2>1, <2>2 DEF IngressInv
  <2>4. Carries(q)'
    BY <2>3 DEF Carries
  <2>5. q.draft.partition \in Partitions
    BY <2>3 DEF Carries, Ingress!Draft
  <2>6. Placed(q)'
    BY <2>3, <2>5 DEF Placed
  <2> QED  BY <2>1, <2>2, <2>4, <2>6
<1>9. Says(capability, source[capability.partition])'
  BY <1>5 DEF Says
<1> QED  BY <1>4, <1>5, <1>7, <1>8, <1>9 DEF IngressInv

LEMMA IngestKeeps ==
  ASSUME IngressAssumption, IngressInv, NEW p \in SourcePublishers, Ingress!Ingest(p)
  PROVE  IngressInv'
<1>1. PICK d \in Drafts :
        /\ Ingress!Valid(d) /\ d.available <= now /\ d.event <= now
        /\ ingesting' = [ingesting EXCEPT ![p] =
             [pc |-> "select", draft |-> d, capability |-> Ingress!CapabilityOf(d, now)]]
  BY DEF Ingress!Ingest
<1> DEFINE q == [pc |-> "select", draft |-> d, capability |-> Ingress!CapabilityOf(d, now)]
<1>2. /\ d \in Ingress!Draft /\ d.age \in Nat /\ now \in Ingress!Instant
      /\ d.partition \in Partitions /\ d.event \in Ingress!Instant /\ d.available \in Ingress!Instant
  BY <1>1 DEF Ingress!Valid, IngressAssumption, IngressInv, Ingress!Draft
<1>3. Ingress!CapabilityState(d, now, d.age) \in {"READY", "STALE", "PARTIAL", "INSUFFICIENT", "UNAVAILABLE"}
  BY <1>2, States
<1>4. /\ Ingress!CapabilityOf(d, now) \in Capability
      /\ Ingress!CapabilityOf(d, now).partition = d.partition
      /\ Ingress!CapabilityOf(d, now).available = d.available
      /\ Ingress!CapabilityOf(d, now).event = d.event
      /\ Ingress!CapabilityOf(d, now).checked = now
      /\ Ingress!CapabilityOf(d, now).age = d.age
      /\ Ingress!CapabilityOf(d, now).state = Ingress!CapabilityState(d, now, d.age)
  BY <1>2, <1>3 DEF Ingress!CapabilityOf, Capability
<1>5. d.fact # None => d.fact.available \in 0 .. d.available
  BY <1>1, <1>2 DEF Ingress!Valid, Ingress!Draft, Ingress!Instant
<1>6. Says(Ingress!CapabilityOf(d, now), d)
  BY <1>1, <1>4, <1>5 DEF Says
<1>7. Carries(q)
  BY <1>2, <1>4, <1>6 DEF Carries
<1>8. Placed(q)
  BY DEF Placed
<1> HIDE DEF q
<1>9. ingesting' = [ingesting EXCEPT ![p] = q]
  BY <1>1 DEF q
<1> QED  BY <1>7, <1>8, <1>9, PublisherMoves DEF Ingress!Ingest

\* What a publisher that is not idle carries.
LEMMA Carried ==
  ASSUME IngressAssumption, IngressInv, NEW p \in SourcePublishers, ingesting[p] # None
  PROVE  /\ ingesting[p].draft \in Ingress!Draft /\ ingesting[p].draft.partition \in Partitions
         /\ ingesting[p].capability \in Capability
         /\ ingesting[p].capability.partition = ingesting[p].draft.partition
         /\ Says(ingesting[p].capability, ingesting[p].draft)
         /\ Carries(ingesting[p]) /\ Placed(ingesting[p])
BY DEF IngressInv, Carries, Ingress!Draft

LEMMA ReturnKeeps ==
  ASSUME IngressAssumption, IngressInv, NEW p \in SourcePublishers, Ingress!Return(p),
         UNCHANGED <<now, source, capability>>
  PROVE  IngressInv'
BY PublisherMoves DEF Ingress!Return

\* The next program counter, with what is to hold there.
LEMMA GotoKeeps ==
  ASSUME IngressAssumption, IngressInv, NEW p \in SourcePublishers, ingesting[p] # None,
         NEW pc \in {"insert", "taken", "upsert"}, Ingress!Goto(p, pc),
         UNCHANGED <<now, source, capability>>,
         pc \in {"taken", "upsert"} => source[ingesting[p].draft.partition] # None,
         pc = "upsert" => Ingress!Same(source[ingesting[p].draft.partition], ingesting[p].draft)
  PROVE  IngressInv'
<1>1. PICK q : q = [ingesting[p] EXCEPT !.pc = pc]
  OBVIOUS
<1>2. ingesting' = [ingesting EXCEPT ![p] = q]
  BY <1>1 DEF Ingress!Goto
<1>3. q.draft = ingesting[p].draft /\ q.capability = ingesting[p].capability
  BY <1>1
<1>4. q.pc \in {"taken", "upsert"} => q.pc = pc
  <2>1. CASE "pc" \in DOMAIN ingesting[p]
    BY <1>1, <2>1
  <2>2. CASE "pc" \notin DOMAIN ingesting[p]
    BY <1>1, <2>2
  <2> QED  BY <2>1, <2>2
<1>5. Carries(q)
  BY <1>3, Carried DEF Carries
<1>6. Placed(q)
  BY <1>3, <1>4 DEF Placed
<1> QED  BY <1>2, <1>5, <1>6, PublisherMoves

\* The upsert over a row that is there already.
LEMMA UpsertKeeps ==
  ASSUME IngressAssumption, IngressInv, NEW p \in SourcePublishers, ingesting[p] # None,
         source[ingesting[p].draft.partition] # None,
         Ingress!Same(source[ingesting[p].draft.partition], ingesting[p].draft),
         Ingress!Upsert(ingesting[p].capability), Ingress!Return(p), UNCHANGED <<now, source>>
  PROVE  IngressInv'
<1>1. PICK new : new = ingesting[p].capability
  OBVIOUS
<1>2. /\ new \in Capability /\ new.partition = ingesting[p].draft.partition
      /\ Says(new, ingesting[p].draft) /\ new.partition \in Partitions
  BY <1>1, Carried
<1>3. Says(new, source[new.partition])
  BY <1>2, SaysOfSame
<1>4. source' = source /\ now' = now /\ Ingress!Upsert(new) /\ source \in [Partitions -> Ingress!Draft \cup {None}]
  BY <1>1 DEF IngressInv
<1>5. ingesting' = [ingesting EXCEPT ![p] = None]
  BY DEF Ingress!Return
<1> QED  BY <1>2, <1>3, <1>4, <1>5, PublisherWrites

LEMMA SelectKeeps ==
  ASSUME IngressAssumption, IngressInv, NEW p \in SourcePublishers, Ingress!SelectSnapshot(p)
  PROVE  IngressInv'
<1>0. ingesting[p] # None /\ UNCHANGED <<now, source>>
  BY DEF Ingress!SelectSnapshot, Ingress!At
<1>1. CASE source[ingesting[p].draft.partition] = None
  <2>1. Ingress!Goto(p, "insert") /\ UNCHANGED capability
    BY <1>1, Zenon DEF Ingress!SelectSnapshot
  <2> QED  BY <1>0, <2>1, GotoKeeps
<1>2. CASE /\ source[ingesting[p].draft.partition] # None
           /\ Ingress!Same(source[ingesting[p].draft.partition], ingesting[p].draft)
  <2>1. Ingress!Upsert(ingesting[p].capability) /\ Ingress!Return(p)
    BY <1>2, Zenon DEF Ingress!SelectSnapshot
  <2> QED  BY <1>0, <1>2, <2>1, UpsertKeeps
<1>3. CASE /\ source[ingesting[p].draft.partition] # None
           /\ ~ Ingress!Same(source[ingesting[p].draft.partition], ingesting[p].draft)
  <2>1. Ingress!Return(p) /\ UNCHANGED capability
    BY <1>3, Zenon DEF Ingress!SelectSnapshot
  <2> QED  BY <1>0, <2>1, ReturnKeeps
<1> QED  BY <1>1, <1>2, <1>3

LEMMA InsertSnapshotKeeps ==
  ASSUME IngressAssumption, IngressInv, NEW p \in SourcePublishers, Ingress!InsertSnapshot(p)
  PROVE  IngressInv'
<1> DEFINE d == ingesting[p].draft
<1>0. ingesting[p] # None /\ UNCHANGED now
  BY DEF Ingress!InsertSnapshot, Ingress!At
<1>1. CASE source[d.partition] = None
  <2>1. /\ source' = [source EXCEPT ![d.partition] = d]
        /\ Ingress!Upsert(ingesting[p].capability) /\ Ingress!Return(p)
    BY <1>1 DEF Ingress!InsertSnapshot
  <2>2. PICK new : new = ingesting[p].capability
    OBVIOUS
  <2>3. /\ d \in Ingress!Draft /\ d.partition \in Partitions /\ new \in Capability
        /\ new.partition = d.partition /\ Says(new, d) /\ d # None
    BY <1>0, <2>2, Carried DEF IngressAssumption
  <2>4. /\ source \in [Partitions -> Ingress!Draft \cup {None}]
        /\ source'[new.partition] = d
        /\ source' \in [Partitions -> Ingress!Draft \cup {None}]
        /\ \A r \in Partitions : r # new.partition => source'[r] = source[r]
        /\ \A r \in Partitions : source[r] # None => source'[r] = source[r]
    BY <1>1, <2>1, <2>3 DEF IngressInv
  <2>5. ingesting' = [ingesting EXCEPT ![p] = None] /\ Ingress!Upsert(new)
    BY <2>1, <2>2 DEF Ingress!Return
  <2> QED  BY <1>0, <2>3, <2>4, <2>5, PublisherWrites
<1>2. CASE source[d.partition] # None
  <2>1. Ingress!Goto(p, "taken") /\ UNCHANGED <<source, capability>>
    BY <1>2 DEF Ingress!InsertSnapshot
  <2> QED  BY <1>0, <1>2, <2>1, GotoKeeps
<1> QED  BY <1>1, <1>2

LEMMA TakenKeeps ==
  ASSUME IngressAssumption, IngressInv, NEW p \in SourcePublishers, Ingress!ReadTaken(p)
  PROVE  IngressInv'
<1> DEFINE d == ingesting[p].draft
<1>0. ingesting[p] # None /\ UNCHANGED <<now, source, capability>> /\ source[d.partition] # None
  BY Carried DEF Ingress!ReadTaken, Ingress!At, Placed
<1>1. CASE Ingress!Same(source[d.partition], d)
  <2>1. Ingress!Goto(p, "upsert")
    BY <1>1 DEF Ingress!ReadTaken
  <2> QED  BY <1>0, <1>1, <2>1, GotoKeeps
<1>2. CASE ~ Ingress!Same(source[d.partition], d)
  <2>1. Ingress!Return(p)
    BY <1>2 DEF Ingress!ReadTaken
  <2> QED  BY <1>0, <2>1, ReturnKeeps
<1> QED  BY <1>1, <1>2

LEMMA UpsertAgainKeeps ==
  ASSUME IngressAssumption, IngressInv, NEW p \in SourcePublishers, Ingress!UpsertAgain(p)
  PROVE  IngressInv'
<1>1. ingesting[p] # None /\ ingesting[p].pc = "upsert"
  BY DEF Ingress!UpsertAgain, Ingress!At
<1>2. /\ source[ingesting[p].draft.partition] # None
      /\ Ingress!Same(source[ingesting[p].draft.partition], ingesting[p].draft)
  BY <1>1, Carried DEF Placed
<1> QED  BY <1>1, <1>2, UpsertKeeps DEF Ingress!UpsertAgain

\* The clock, and the steps of no one: what is stored does not depend on it.
LEMMA ClockKeeps ==
  ASSUME IngressAssumption, IngressInv, now' \in Ingress!Instant, UNCHANGED <<source, capability, ingesting>>
  PROVE  IngressInv'
<1>1. \A q : Placed(q)' <=> Placed(q)
  BY DEF Placed
<1>2. \A r : Reaches(r)' <=> Reaches(r)
  BY DEF Reaches
<1>3. \A q : Carries(q)' <=> Carries(q)
  BY DEF Carries
<1>4. \A c, d : Says(c, d)' <=> Says(c, d)
  BY DEF Says
<1>5. IngressInv'
  BY <1>1, <1>2, <1>3, <1>4 DEF IngressInv, Says
<1> QED  BY <1>5

LEMMA IngressKeep == ASSUME IngressAssumption PROVE IngressInv /\ (Ingress!Next \/ UNCHANGED ingressVars) => IngressInv'
<1> SUFFICES ASSUME IngressInv, (Ingress!Next \/ UNCHANGED ingressVars) PROVE IngressInv'
  OBVIOUS
<1>1. CASE Ingress!Tick
  BY <1>1, ClockKeeps DEF Ingress!Tick, Ingress!Instant, IngressInv, IngressAssumption
<1>2. ASSUME NEW p \in SourcePublishers, Ingress!Ingest(p) PROVE IngressInv'
  BY <1>2, IngestKeeps
<1>3. ASSUME NEW p \in SourcePublishers, Ingress!SelectSnapshot(p) PROVE IngressInv'
  BY <1>3, SelectKeeps
<1>4. ASSUME NEW p \in SourcePublishers, Ingress!InsertSnapshot(p) PROVE IngressInv'
  BY <1>4, InsertSnapshotKeeps
<1>5. ASSUME NEW p \in SourcePublishers, Ingress!ReadTaken(p) PROVE IngressInv'
  BY <1>5, TakenKeeps
<1>6. ASSUME NEW p \in SourcePublishers, Ingress!UpsertAgain(p) PROVE IngressInv'
  BY <1>6, UpsertAgainKeeps
<1>7. ASSUME NEW p \in SourcePublishers, Ingress!Fail(p) PROVE IngressInv'
  BY <1>7, ReturnKeeps DEF Ingress!Fail
<1>8. CASE UNCHANGED ingressVars
  BY <1>8, ClockKeeps DEF ingressVars, IngressInv
<1> QED  BY <1>1, <1>2, <1>3, <1>4, <1>5, <1>6, <1>7, <1>8 DEF Ingress!Next

-----------------------------------------------------------------------------
\* The offline store.  A thread's local state, and what it is in the middle of.
InTransaction == {"receipt", "aggregate", "events", "commit"}
Locked == InTransaction \cup {"begin", "row", "entries"}
Sending == [pc : InTransaction \cup {"send", "begin"}, req : Offline!Requests]
Asking == [pc : {"ask", "row"}, group : Groups]
Fetching == [pc : {"entries"}, group : Groups, version : Nat, snapshot : SUBSET Offline!Entries]

OfflineType ==
  /\ Offline!TypeOK
  /\ staged \in [Adapters -> Offline!Tables \cup {None}]
  /\ thread \in [Threads -> Sending \cup Asking \cup Fetching \cup {Offline!Idle}]

\* Who is in a transaction holds the lock of its adapter, which writes, on a
\* file whose groups have been moved to their table.
OfflineLocks ==
  /\ \A t \in Threads : thread[t].pc \in Locked => held[AdapterOf[t]] = t
  /\ \A t \in Threads : thread[t].pc \in InTransaction => writer = AdapterOf[t]
  /\ \A t \in Threads : thread[t].pc # "idle" => open[AdapterOf[t]]
  /\ \A a \in Adapters : open[a] => file.embedded = {}

\* What the statements of a command make of the tables.
Written(tables, r) ==
  [tables EXCEPT !.entries = @ \cup {[group |-> r.target, version |-> r.expected + 1]},
                 !.version[r.target] = r.expected + 1]
Recorded(tables, r) ==
  [tables EXCEPT !.events = @ \cup {[key |-> r.key, target |-> r.target, version |-> r.expected + 1]},
                 !.receipt[r.key] = [req |-> r, version |-> r.expected + 1]]

Acceptable(r) == file.receipt[r.key] = None /\ Offline!Expected(file.version[r.target], r)

\* An open transaction sees the file with its own statements, and no more.
Staging ==
  \A t \in Threads :
    LET r == thread[t].req
        tables == staged[AdapterOf[t]]
    IN  /\ thread[t].pc \in {"receipt", "aggregate"} => tables = file
        /\ thread[t].pc = "aggregate" => file.receipt[r.key] = None
        /\ thread[t].pc = "events" => Acceptable(r) /\ tables = Written(file, r)
        /\ thread[t].pc = "commit" => Acceptable(r) /\ tables = Recorded(Written(file, r), r)

FetchedWhole ==
  \A t \in Threads : thread[t].pc = "entries" =>
    {e \in thread[t].snapshot : e.group = thread[t].group} =
      Offline!Upto(thread[t].group, thread[t].version)

OfflineInv ==
  /\ OfflineType /\ OfflineLocks /\ Staging /\ FetchedWhole
  /\ Offline!FileIsWhole /\ Offline!GroupsAreWhole

LEMMA OfflineInit == ASSUME OfflineAssumption, Offline!Init PROVE OfflineInv
<1> USE DEF OfflineAssumption
<1>1. Offline!Idle.pc = "idle"
  BY DEF Offline!Idle
<1>2. /\ file.version = [g \in Groups |-> IF g \in LegacyGroups THEN 1 ELSE None]
      /\ file.embedded = {[group |-> g, version |-> 1] : g \in LegacyGroups}
      /\ file.entries = {} /\ file.events = {} /\ file.receipt = [k \in Keys |-> None]
  BY DEF Offline!Init
<1>3. file \in Offline!Tables
  BY <1>2 DEF Offline!Init, Offline!Tables, Offline!Versions, Offline!Entries
<1>4. OfflineType
  BY <1>3 DEF Offline!Init, OfflineType, Offline!TypeOK
<1>5. OfflineLocks /\ Staging /\ FetchedWhole
  BY <1>1 DEF Offline!Init, OfflineLocks, Staging, FetchedWhole, Locked, InTransaction
<1>6. Offline!FileIsWhole
  <2>1. ASSUME NEW g \in Groups
        PROVE  {e \in file.entries \cup file.embedded : e.group = g} =
                 IF file.version[g] = None THEN {} ELSE Offline!Upto(g, file.version[g])
    <3>1. CASE g \in LegacyGroups
      <4>1. Offline!Upto(g, 1) = {[group |-> g, version |-> 1]}
        BY DEF Offline!Upto
      <4> QED  BY <1>2, <3>1, <4>1
    <3>2. CASE g \notin LegacyGroups
      BY <1>2, <3>2
    <3> QED  BY <3>1, <3>2
  <2> QED  BY <1>2, <2>1 DEF Offline!FileIsWhole
<1>7. Offline!GroupsAreWhole
  BY DEF Offline!Init, Offline!GroupsAreWhole
<1> QED  BY <1>4, <1>5, <1>6, <1>7 DEF OfflineInv

\* A step of one thread that leaves the tables alone.
LEMMA ThreadMoves ==
  ASSUME OfflineInv, OfflineAssumption, NEW t \in Threads,
         NEW x \in Sending \cup Asking \cup Fetching \cup {Offline!Idle},
         thread' = [thread EXCEPT ![t] = x], UNCHANGED <<file, open, writer, staged, groups>>,
         told' = told,
         x.pc # "idle" => open[AdapterOf[t]],
         x.pc \in InTransaction => writer = AdapterOf[t],
         \/ x.pc \in Locked /\ thread[t].pc \in Locked /\ held' = held
         \/ x.pc \notin Locked /\ thread[t].pc \notin Locked /\ held' = held
         \/ x.pc \in Locked /\ held[AdapterOf[t]] = None /\ held' = [held EXCEPT ![AdapterOf[t]] = t]
         \/ x.pc \notin Locked /\ held[AdapterOf[t]] = t /\ held' = [held EXCEPT ![AdapterOf[t]] = None],
         x.pc \notin {"receipt", "events", "commit"},
         x.pc = "aggregate" => staged[AdapterOf[t]] = file /\ file.receipt[x.req.key] = None,
         x.pc = "entries" => {e \in x.snapshot : e.group = x.group} = Offline!Upto(x.group, x.version)
  PROVE  OfflineInv'
<1> USE DEF OfflineAssumption
<1>1. thread' \in [Threads -> Sending \cup Asking \cup Fetching \cup {Offline!Idle}] /\ thread'[t] = x
      /\ \A u \in Threads \ {t} : thread'[u] = thread[u]
  BY DEF OfflineInv, OfflineType
<1>2. held' \in [Adapters -> Threads \cup {None}]
  BY DEF OfflineInv, OfflineType, Offline!TypeOK
<1>3. OfflineType'
  BY <1>1, <1>2 DEF OfflineInv, OfflineType, Offline!TypeOK
<1>4. OfflineLocks'
  <2>1. \A u \in Threads : thread'[u].pc \in Locked => held'[AdapterOf[u]] = u
    BY <1>1, <1>2 DEF OfflineInv, OfflineLocks, OfflineType, Offline!TypeOK
  <2> QED  BY <1>1, <2>1 DEF OfflineInv, OfflineLocks
<1>5. Staging'
  BY <1>1 DEF OfflineInv, Staging, Acceptable
<1>6. FetchedWhole'
  BY <1>1 DEF OfflineInv, FetchedWhole
<1>7. Offline!FileIsWhole' /\ Offline!GroupsAreWhole'
  BY DEF OfflineInv, Offline!FileIsWhole, Offline!GroupsAreWhole
<1> QED  BY <1>3, <1>4, <1>5, <1>6, <1>7 DEF OfflineInv

\* No thread is in a transaction that no adapter writes.
LEMMA NobodyWrites ==
  ASSUME OfflineInv, OfflineAssumption, writer = None, NEW t \in Threads
  PROVE  thread[t].pc \notin InTransaction
BY DEF OfflineInv, OfflineLocks, OfflineAssumption

LEMMA OpenKeeps ==
  ASSUME OfflineInv, OfflineAssumption, NEW a \in Adapters, Offline!Open(a) PROVE OfflineInv'
<1> USE DEF OfflineAssumption
<1>1. /\ file' = [file EXCEPT !.entries = @ \cup file.embedded, !.embedded = {}]
      /\ file \in Offline!Tables /\ writer = None
      /\ UNCHANGED <<writer, staged, held, thread, told, groups>>
  BY DEF Offline!Open, Offline!MoveEmbedded, OfflineInv, OfflineType, Offline!TypeOK
<1>2. /\ file'.version = file.version /\ file'.embedded = {} /\ file'.receipt = file.receipt
      /\ file'.entries = file.entries \cup file.embedded /\ file'.events = file.events
      /\ file' \in Offline!Tables
  BY <1>1 DEF Offline!Tables
<1>3. OfflineType'
  <2>1. open' \in [Adapters -> BOOLEAN]
    BY DEF OfflineInv, OfflineType, Offline!TypeOK, Offline!Open
  <2> QED  BY <1>1, <1>2, <2>1 DEF OfflineInv, OfflineType, Offline!TypeOK
<1>4. OfflineLocks'
  <2>1. \A b \in Adapters : open[b] => open'[b]
    BY DEF OfflineInv, OfflineType, Offline!TypeOK, Offline!Open
  <2>2. \A t \in Threads : AdapterOf[t] \in Adapters
    OBVIOUS
  <2> QED  BY <1>1, <1>2, <2>1, <2>2 DEF OfflineInv, OfflineLocks
<1>5. Staging'
  BY <1>1, NobodyWrites DEF Staging, InTransaction
<1>6. FetchedWhole' /\ Offline!GroupsAreWhole'
  BY <1>1 DEF OfflineInv, FetchedWhole, Offline!GroupsAreWhole
<1>7. Offline!FileIsWhole'
  <2>1. file'.entries \cup file'.embedded = file.entries \cup file.embedded
    BY <1>2
  <2> QED  BY <1>2, <2>1 DEF OfflineInv, Offline!FileIsWhole
<1> QED  BY <1>3, <1>4, <1>5, <1>6, <1>7 DEF OfflineInv

\* The process of an adapter ends, or closes it when none of its threads holds
\* the lock.
LEMMA ClosedKeeps ==
  ASSUME OfflineInv, OfflineAssumption, NEW a \in Adapters,
         Offline!Close(a) \/ Offline!Crash(a) PROVE OfflineInv'
<1> USE DEF OfflineAssumption
<1>1. /\ UNCHANGED <<file, told, groups>>
      /\ open' = [open EXCEPT ![a] = FALSE]
      /\ thread' = [t \in Threads |-> IF AdapterOf[t] = a THEN Offline!Idle ELSE thread[t]]
  BY DEF Offline!Close, Offline!Crash
<1>2. \/ UNCHANGED <<writer, staged, held>>
      \/ /\ writer' = IF writer = a THEN None ELSE writer
         /\ staged' = [staged EXCEPT ![a] = None] /\ held' = [held EXCEPT ![a] = None]
  BY DEF Offline!Close, Offline!Crash
<1>3. /\ writer \in Adapters \cup {None} /\ staged \in [Adapters -> Offline!Tables \cup {None}]
      /\ \A b \in Adapters : (staged[b] # None) <=> (writer = b)
      /\ held \in [Adapters -> Threads \cup {None}] /\ open \in [Adapters -> BOOLEAN]
      /\ thread \in [Threads -> Sending \cup Asking \cup Fetching \cup {Offline!Idle}]
  BY DEF OfflineInv, OfflineType, Offline!TypeOK
<1>4. /\ writer' \in Adapters \cup {None} /\ staged' \in [Adapters -> Offline!Tables \cup {None}]
      /\ \A b \in Adapters : (staged'[b] # None) <=> (writer' = b)
      /\ held' \in [Adapters -> Threads \cup {None}] /\ open' \in [Adapters -> BOOLEAN]
      /\ thread' \in [Threads -> Sending \cup Asking \cup Fetching \cup {Offline!Idle}]
  <2>1. CASE UNCHANGED <<writer, staged, held>>
    BY <1>1, <1>3, <2>1
  <2>2. CASE /\ writer' = IF writer = a THEN None ELSE writer
             /\ staged' = [staged EXCEPT ![a] = None] /\ held' = [held EXCEPT ![a] = None]
    BY <1>1, <1>3, <2>2
  <2> QED  BY <1>2, <2>1, <2>2
<1>5. OfflineType'
  BY <1>1, <1>4 DEF OfflineInv, OfflineType, Offline!TypeOK
<1>6. ASSUME NEW t \in Threads, thread'[t].pc # "idle"
      PROVE  /\ thread'[t] = thread[t] /\ open'[AdapterOf[t]] = open[AdapterOf[t]]
             /\ staged'[AdapterOf[t]] = staged[AdapterOf[t]]
             /\ held'[AdapterOf[t]] = held[AdapterOf[t]]
             /\ writer = AdapterOf[t] => writer' = writer
  <2>1. thread'[t] = thread[t] /\ AdapterOf[t] # a
    BY <1>1, <1>6 DEF Offline!Idle
  <2> QED  BY <1>1, <1>2, <1>3, <2>1
<1>7. OfflineLocks'
  <2>1. \A t \in Threads : /\ thread'[t].pc \in Locked => held'[AdapterOf[t]] = t
                           /\ thread'[t].pc \in InTransaction => writer' = AdapterOf[t]
                           /\ thread'[t].pc # "idle" => open'[AdapterOf[t]]
    <3> SUFFICES ASSUME NEW t \in Threads, thread'[t].pc # "idle"
                 PROVE  /\ thread'[t].pc \in Locked => held'[AdapterOf[t]] = t
                        /\ thread'[t].pc \in InTransaction => writer' = AdapterOf[t]
                        /\ open'[AdapterOf[t]]
      BY DEF Locked, InTransaction
    <3>1. /\ thread[t].pc \in Locked => held[AdapterOf[t]] = t
          /\ thread[t].pc \in InTransaction => writer = AdapterOf[t]
          /\ thread[t].pc # "idle" => open[AdapterOf[t]]
      BY DEF OfflineInv, OfflineLocks
    <3> QED  BY <1>6, <3>1
  <2>2. \A b \in Adapters : open'[b] => open[b]
    BY <1>1, <1>3
  <2> QED  BY <1>1, <2>1, <2>2 DEF OfflineInv, OfflineLocks
<1>8. Staging'
  <2>1. ASSUME NEW t \in Threads, thread'[t].pc \in InTransaction
        PROVE  /\ thread'[t] = thread[t] /\ staged'[AdapterOf[t]] = staged[AdapterOf[t]]
               /\ file' = file
    BY <1>1, <1>6, <2>1 DEF InTransaction
  <2> QED  BY <2>1 DEF OfflineInv, Staging, Acceptable, InTransaction
<1>9. FetchedWhole'
  BY <1>6 DEF OfflineInv, FetchedWhole
<1>10. Offline!FileIsWhole' /\ Offline!GroupsAreWhole'
  BY <1>1 DEF OfflineInv, Offline!FileIsWhole, Offline!GroupsAreWhole
<1> QED  BY <1>5, <1>7, <1>8, <1>9, <1>10 DEF OfflineInv

\* Who is in a transaction is alone in it.
LEMMA Alone ==
  ASSUME OfflineInv, OfflineAssumption, NEW t \in Threads, thread[t].pc \in InTransaction
  PROVE  /\ writer = AdapterOf[t] /\ held[AdapterOf[t]] = t /\ open[AdapterOf[t]]
         /\ file.embedded = {}
         /\ \A u \in Threads \ {t} : thread[u].pc \notin InTransaction
<1>1. writer = AdapterOf[t] /\ held[AdapterOf[t]] = t /\ open[AdapterOf[t]] /\ AdapterOf[t] \in Adapters
  BY DEF OfflineInv, OfflineLocks, Locked, InTransaction, OfflineAssumption
<1>2. \A u \in Threads \ {t} : thread[u].pc \notin InTransaction
  BY <1>1 DEF OfflineInv, OfflineLocks, Locked
<1> QED  BY <1>1, <1>2 DEF OfflineInv, OfflineLocks

\* A transaction ends, with what it leaves in the file.
LEMMA LeaveKeeps ==
  ASSUME OfflineInv, OfflineAssumption, NEW t \in Threads, thread[t].pc \in InTransaction,
         Offline!Leave(t), UNCHANGED <<open, groups>>, told' \subseteq Offline!Result,
         file' \in Offline!Tables, file'.embedded = {}, Offline!FileIsWhole'
  PROVE  OfflineInv'
<1> USE DEF OfflineAssumption
<1>1. /\ writer' = None /\ staged' = [staged EXCEPT ![AdapterOf[t]] = None]
      /\ held' = [held EXCEPT ![AdapterOf[t]] = None]
      /\ thread' = [thread EXCEPT ![t] = Offline!Idle]
  BY DEF Offline!Leave, Offline!Finish
<1>2. /\ writer \in Adapters \cup {None} /\ staged \in [Adapters -> Offline!Tables \cup {None}]
      /\ \A b \in Adapters : (staged[b] # None) <=> (writer = b)
      /\ held \in [Adapters -> Threads \cup {None}] /\ open \in [Adapters -> BOOLEAN]
      /\ thread \in [Threads -> Sending \cup Asking \cup Fetching \cup {Offline!Idle}]
  BY DEF OfflineInv, OfflineType, Offline!TypeOK
<1>3. thread' \in [Threads -> Sending \cup Asking \cup Fetching \cup {Offline!Idle}]
      /\ thread'[t].pc = "idle" /\ \A u \in Threads \ {t} : thread'[u] = thread[u]
  BY <1>1, <1>2 DEF Offline!Idle
<1>4. \A b \in Adapters : staged'[b] = None
  BY <1>1, <1>2, Alone
<1>5. OfflineType'
  <2>1. staged' \in [Adapters -> Offline!Tables \cup {None}] /\ held' \in [Adapters -> Threads \cup {None}]
    BY <1>1, <1>2
  <2> QED  BY <1>1, <1>2, <1>3, <1>4, <2>1 DEF OfflineType, Offline!TypeOK
<1>6. OfflineLocks'
  <2>1. \A u \in Threads \ {t} : thread'[u].pc \in Locked => held'[AdapterOf[u]] = u
    BY <1>1, <1>2, <1>3, Alone DEF OfflineInv, OfflineLocks
  <2>2. thread'[t].pc \notin Locked /\ \A u \in Threads : thread'[u].pc \notin InTransaction
    BY <1>3, Alone DEF Locked, InTransaction
  <2>3. \A u \in Threads : thread'[u].pc # "idle" => open'[AdapterOf[u]]
    BY <1>3 DEF OfflineInv, OfflineLocks
  <2> QED  BY <2>1, <2>2, <2>3 DEF OfflineLocks
<1>7. Staging'
  BY <1>3, Alone DEF Staging, InTransaction
<1>8. FetchedWhole' /\ Offline!GroupsAreWhole'
  BY <1>3 DEF OfflineInv, FetchedWhole, Offline!GroupsAreWhole
<1> QED  BY <1>5, <1>6, <1>7, <1>8 DEF OfflineInv

\* A command's statement: the transaction goes on to the next one.
LEMMA StatementKeeps ==
  ASSUME OfflineInv, OfflineAssumption, NEW t \in Threads,
         NEW pc \in InTransaction, NEW tables \in Offline!Tables,
         thread[t].pc \in InTransaction \cup {"begin"}, thread' = [thread EXCEPT ![t].pc = pc],
         writer' = AdapterOf[t], staged' = [staged EXCEPT ![AdapterOf[t]] = tables],
         writer \in {None, AdapterOf[t]},
         UNCHANGED <<file, held, open, told, groups>>,
         LET r == thread[t].req IN
           /\ pc \in {"receipt", "aggregate"} => tables = file
           /\ pc = "aggregate" => file.receipt[r.key] = None
           /\ pc = "events" => Acceptable(r) /\ tables = Written(file, r)
           /\ pc = "commit" => Acceptable(r) /\ tables = Recorded(Written(file, r), r)
  PROVE  OfflineInv'
<1> USE DEF OfflineAssumption
<1>1. /\ writer \in Adapters \cup {None} /\ staged \in [Adapters -> Offline!Tables \cup {None}]
      /\ \A b \in Adapters : (staged[b] # None) <=> (writer = b)
      /\ thread \in [Threads -> Sending \cup Asking \cup Fetching \cup {Offline!Idle}]
      /\ AdapterOf[t] \in Adapters
  BY DEF OfflineInv, OfflineType, Offline!TypeOK
<1>2. thread[t] \in Sending
  BY <1>1 DEF Offline!Idle, Sending, Asking, Fetching, InTransaction
<1>3. /\ thread'[t] \in Sending /\ thread'[t].pc = pc /\ thread'[t].req = thread[t].req
      /\ \A u \in Threads \ {t} : thread'[u] = thread[u]
  BY <1>1, <1>2 DEF Sending
<1>4. thread' \in [Threads -> Sending \cup Asking \cup Fetching \cup {Offline!Idle}]
  <2>1. DOMAIN thread' = Threads /\ thread' = [u \in Threads |-> thread'[u]]
    BY <1>1
  <2> QED  BY <1>1, <1>3, <2>1
<1>5. /\ staged' \in [Adapters -> Offline!Tables \cup {None}] /\ staged'[AdapterOf[t]] = tables
      /\ \A b \in Adapters : (staged'[b] # None) <=> (writer' = b)
  BY <1>1
<1>6. OfflineType'
  BY <1>1, <1>4, <1>5 DEF OfflineInv, OfflineType, Offline!TypeOK
<1>7. \A u \in Threads \ {t} : thread[u].pc \notin InTransaction
  <2>1. CASE writer = None
    BY <2>1, NobodyWrites
  <2>2. CASE writer = AdapterOf[t]
    <3>1. held[AdapterOf[t]] = t
      BY DEF OfflineInv, OfflineLocks, Locked
    <3> QED  BY <2>2, <3>1 DEF OfflineInv, OfflineLocks, Locked
  <2> QED  BY <2>1, <2>2
<1>8. OfflineLocks'
  <2>1. held[AdapterOf[t]] = t /\ open[AdapterOf[t]]
    BY DEF OfflineInv, OfflineLocks, Locked, InTransaction
  <2>2. \A u \in Threads : /\ thread'[u].pc \in Locked => held'[AdapterOf[u]] = u
                           /\ thread'[u].pc \in InTransaction => writer' = AdapterOf[u]
                           /\ thread'[u].pc # "idle" => open'[AdapterOf[u]]
    BY <1>3, <1>7, <2>1 DEF OfflineInv, OfflineLocks
  <2> QED  BY <2>2 DEF OfflineInv, OfflineLocks
<1>9. Staging'
  <2>1. \A u \in Threads \ {t} : thread'[u].pc \notin InTransaction
    BY <1>3, <1>7
  <2> QED  BY <1>3, <1>5, <2>1 DEF Staging, Acceptable, InTransaction
<1>10. FetchedWhole'
  <2>1. thread'[t].pc # "entries"
    BY <1>3 DEF InTransaction
  <2> QED  BY <1>3, <2>1 DEF OfflineInv, FetchedWhole
<1>11. Offline!FileIsWhole' /\ Offline!GroupsAreWhole'
  BY DEF OfflineInv, Offline!FileIsWhole, Offline!GroupsAreWhole
<1> QED  BY <1>6, <1>8, <1>9, <1>10, <1>11 DEF OfflineInv

\* What a command's statements write are tables.
LEMMA WrittenTables ==
  ASSUME NEW tables \in Offline!Tables, NEW r \in Offline!Requests, OfflineAssumption
  PROVE  /\ Written(tables, r) \in Offline!Tables
         /\ Recorded(tables, r) \in Offline!Tables
         /\ r.key \in Keys /\ r.target \in Groups /\ r.expected \in Nat
<1>1. r.key \in Keys /\ r.target \in Groups /\ r.expected \in Nat
  BY DEF Offline!Requests, OfflineAssumption
<1>2. r.expected + 1 \in Nat
  BY <1>1
<1>3. /\ tables.version \in [Groups -> Offline!Versions] /\ tables.entries \subseteq Offline!Entries
      /\ tables.events \subseteq [key : Keys, target : Groups, version : Nat]
      /\ tables.receipt \in [Keys -> Offline!Result \cup {None}]
  BY DEF Offline!Tables
<1>4. /\ [tables.version EXCEPT ![r.target] = r.expected + 1] \in [Groups -> Offline!Versions]
      /\ tables.entries \cup {[group |-> r.target, version |-> r.expected + 1]} \subseteq Offline!Entries
  BY <1>1, <1>2, <1>3 DEF Offline!Versions, Offline!Entries
<1>5. /\ tables.events \cup {[key |-> r.key, target |-> r.target, version |-> r.expected + 1]}
           \subseteq [key : Keys, target : Groups, version : Nat]
      /\ [tables.receipt EXCEPT ![r.key] = [req |-> r, version |-> r.expected + 1]]
           \in [Keys -> Offline!Result \cup {None}]
  BY <1>1, <1>2, <1>3 DEF Offline!Result
<1>6. Written(tables, r) \in Offline!Tables
  BY <1>4 DEF Written, Offline!Tables
<1>7. Recorded(tables, r) \in Offline!Tables
  BY <1>5 DEF Recorded, Offline!Tables
<1> QED  BY <1>1, <1>6, <1>7

\* A command that is written down whole leaves the file whole.
LEMMA CommandIsWhole ==
  ASSUME OfflineInv, OfflineAssumption, NEW r \in Offline!Requests, Acceptable(r),
         file' = Recorded(Written(file, r), r)
  PROVE  /\ file' \in Offline!Tables /\ Offline!FileIsWhole'
         /\ file'.embedded = file.embedded
         /\ file'.version = [file.version EXCEPT ![r.target] = r.expected + 1]
         /\ file'.receipt = [file.receipt EXCEPT ![r.key] = [req |-> r, version |-> r.expected + 1]]
<1> USE DEF OfflineAssumption
<1> DEFINE n == r.expected + 1
           entry == [group |-> r.target, version |-> n]
           event == [key |-> r.key, target |-> r.target, version |-> n]
           row == [req |-> r, version |-> n]
<1>1. file \in Offline!Tables
  BY DEF OfflineInv, OfflineType, Offline!TypeOK
<1>2. r.key \in Keys /\ r.target \in Groups /\ r.expected \in Nat /\ file' \in Offline!Tables
  BY <1>1, WrittenTables
<1>3. /\ file'.version = [file.version EXCEPT ![r.target] = n] /\ file'.embedded = file.embedded
      /\ file'.entries = file.entries \cup {entry} /\ file'.events = file.events \cup {event}
      /\ file'.receipt = [file.receipt EXCEPT ![r.key] = row]
  BY <1>1 DEF Offline!Tables, Written, Recorded
<1>4. /\ file.version \in [Groups -> Offline!Versions]
      /\ file.receipt \in [Keys -> Offline!Result \cup {None}]
  BY <1>1 DEF Offline!Tables
<1>5. ASSUME NEW g \in Groups
      PROVE  {e \in file'.entries \cup file'.embedded : e.group = g} =
               IF file'.version[g] = None THEN {} ELSE Offline!Upto(g, file'.version[g])
  <2>1. {e \in file.entries \cup file.embedded : e.group = g} =
          IF file.version[g] = None THEN {} ELSE Offline!Upto(g, file.version[g])
    BY DEF OfflineInv, Offline!FileIsWhole
  <2>2. file'.entries \cup file'.embedded = (file.entries \cup file.embedded) \cup {entry}
    BY <1>3
  <2>3. CASE g # r.target
    <3>1. entry.group # g
      BY <2>3
    <3>2. file'.version[g] = file.version[g]
      BY <1>2, <1>3, <1>4, <2>3
    <3> HIDE DEF entry
    <3> QED  BY <2>1, <2>2, <3>1, <3>2
  <2>4. CASE g = r.target
    <3>1. file'.version[g] = n /\ n # None
      BY <1>2, <1>3, <1>4, <2>4
    <3>2. entry.group = g
      BY <2>4
    <3>3. {e \in file'.entries \cup file'.embedded : e.group = g} =
            {e \in file.entries \cup file.embedded : e.group = g} \cup {entry}
      <4> HIDE DEF entry
      <4> QED  BY <2>2, <3>2
    <3>4. Offline!Upto(g, n) = Offline!Upto(g, r.expected) \cup {entry}
      <4>1. 1 .. n = (1 .. r.expected) \cup {n}
        BY <1>2
      <4> HIDE DEF n
      <4> QED  BY <4>1, <2>4 DEF Offline!Upto
    <3>5. CASE file.version[g] = r.expected
      <4>1. file.version[g] # None
        BY <3>5, <1>2
      <4> HIDE DEF entry, n
      <4> QED  BY <2>1, <3>1, <3>3, <3>4, <3>5, <4>1
    <3>6. CASE file.version[g] = None /\ r.create
      <4>1. r.expected = 0
        BY <3>6 DEF Offline!Requests
      <4>2. Offline!Upto(g, 0) = {}
        BY DEF Offline!Upto
      <4> HIDE DEF entry, n
      <4> QED  BY <2>1, <3>1, <3>3, <3>4, <3>6, <4>1, <4>2
    <3> QED  BY <2>4, <3>5, <3>6 DEF Acceptable, Offline!Expected
  <2> QED  BY <2>3, <2>4
<1>6. \A e \in file.events : e.key # r.key
  BY <1>2 DEF OfflineInv, Offline!FileIsWhole, Acceptable
<1>7. \A e, f \in file'.events : e.key = f.key => e = f
  <2>1. event.key = r.key
    OBVIOUS
  <2> HIDE DEF event
  <2> QED  BY <1>3, <1>6, <2>1 DEF OfflineInv, Offline!FileIsWhole
<1>8. \A k \in Keys : (file'.receipt[k] # None) <=> (\E e \in file'.events : e.key = k)
  <2>1. event.key = r.key
    OBVIOUS
  <2>2. row # None
    BY <1>2 DEF Offline!Result
  <2>3. file'.receipt[r.key] # None /\ \A k \in Keys \ {r.key} : file'.receipt[k] = file.receipt[k]
    <3> HIDE DEF row
    <3> QED  BY <1>2, <1>3, <1>4, <2>2
  <2> HIDE DEF event
  <2> QED  BY <1>3, <2>1, <2>3 DEF OfflineInv, Offline!FileIsWhole
<1>9. Offline!FileIsWhole'
  BY <1>5, <1>7, <1>8 DEF Offline!FileIsWhole
<1> QED  BY <1>2, <1>3, <1>9

LEMMA ThreadTypes ==
  ASSUME OfflineInv, OfflineAssumption, NEW t \in Threads
  PROVE  /\ thread[t].pc \in InTransaction \cup {"send", "begin"} => thread[t] \in Sending
         /\ thread[t].pc \in {"ask", "row"} => thread[t] \in Asking
         /\ thread[t].pc = "entries" => thread[t] \in Fetching
         /\ AdapterOf[t] \in Adapters /\ file \in Offline!Tables
         /\ told \subseteq Offline!Result /\ Offline!FileIsWhole
<1>1. thread[t] \in Sending \cup Asking \cup Fetching \cup {Offline!Idle}
  BY DEF OfflineInv, OfflineType
<1> QED  BY <1>1 DEF OfflineInv, OfflineType, OfflineAssumption, Sending, Asking, Fetching, Offline!Idle,
                     InTransaction, Offline!TypeOK

\* A transaction that leaves the file as it is.
LEMMA LeaveAsItIs ==
  ASSUME OfflineInv, OfflineAssumption, NEW t \in Threads, thread[t].pc \in InTransaction,
         Offline!Leave(t), UNCHANGED <<file, open, groups>>, told' \subseteq Offline!Result
  PROVE  OfflineInv'
<1>1. file \in Offline!Tables /\ file.embedded = {} /\ Offline!FileIsWhole
  BY ThreadTypes, Alone
<1>2. Offline!FileIsWhole'
  BY <1>1 DEF Offline!FileIsWhole
<1> QED  BY <1>1, <1>2, LeaveKeeps

LEMMA SendKeeps ==
  ASSUME OfflineInv, OfflineAssumption, NEW t \in Threads, NEW r \in Offline!Requests, Offline!Send(t, r)
  PROVE  OfflineInv'
<1> DEFINE x == [pc |-> "send", req |-> r]
<1>1. x \in Sending /\ x.pc = "send"
  BY DEF Sending
<1>2. thread' = [thread EXCEPT ![t] = x] /\ thread[t].pc = "idle" /\ open[AdapterOf[t]]
      /\ UNCHANGED <<file, open, writer, staged, groups, held>> /\ told' = told
  BY DEF Offline!Send, Offline!At
<1> HIDE DEF x
<1> QED  BY <1>1, <1>2, ThreadMoves DEF Locked, InTransaction

LEMMA AskKeeps ==
  ASSUME OfflineInv, OfflineAssumption, NEW t \in Threads, NEW g \in Groups, Offline!AskGroup(t, g)
  PROVE  OfflineInv'
<1> DEFINE x == [pc |-> "ask", group |-> g]
<1>1. x \in Asking /\ x.pc = "ask"
  BY DEF Asking
<1>2. thread' = [thread EXCEPT ![t] = x] /\ thread[t].pc = "idle" /\ open[AdapterOf[t]]
      /\ UNCHANGED <<file, open, writer, staged, groups, held>> /\ told' = told
  BY DEF Offline!AskGroup, Offline!At
<1> HIDE DEF x
<1> QED  BY <1>1, <1>2, ThreadMoves DEF Locked, InTransaction

LEMMA AcquireKeeps ==
  ASSUME OfflineInv, OfflineAssumption, NEW t \in Threads, Offline!Acquire(t) \/ Offline!AcquireToRead(t)
  PROVE  OfflineInv'
<1>1. PICK to \in {"begin", "row"} :
        /\ thread' = [thread EXCEPT ![t].pc = to] /\ held[AdapterOf[t]] = None
        /\ held' = [held EXCEPT ![AdapterOf[t]] = t]
        /\ thread[t].pc = IF to = "begin" THEN "send" ELSE "ask"
        /\ UNCHANGED <<file, open, writer, staged, groups>> /\ told' = told
  BY DEF Offline!Acquire, Offline!AcquireToRead, Offline!TakeLock, Offline!At, Offline!Goto
<1> DEFINE x == [thread[t] EXCEPT !.pc = to]
<1>2. x \in Sending \cup Asking /\ x.pc = to
  BY <1>1, ThreadTypes DEF Sending, Asking
<1>3. thread' = [thread EXCEPT ![t] = x]
  BY <1>1 DEF OfflineInv, OfflineType
<1>4. open[AdapterOf[t]]
  BY <1>1 DEF OfflineInv, OfflineLocks
<1> HIDE DEF x
<1> QED  BY <1>1, <1>2, <1>3, <1>4, ThreadMoves DEF Locked, InTransaction

\* Reads, and a command that may not begin, let go of the lock.
LEMMA ReleaseKeeps ==
  ASSUME OfflineInv, OfflineAssumption, NEW t \in Threads, thread[t].pc \in {"begin", "row", "entries"},
         held' = [held EXCEPT ![AdapterOf[t]] = None], Offline!Finish(t),
         UNCHANGED <<file, writer, staged, open, told>>, groups' = groups
  PROVE  OfflineInv'
<1>1. thread' = [thread EXCEPT ![t] = Offline!Idle] /\ Offline!Idle.pc = "idle"
  BY DEF Offline!Finish, Offline!Idle
<1>2. held[AdapterOf[t]] = t
  BY DEF OfflineInv, OfflineLocks, Locked
<1> QED  BY <1>1, <1>2, ThreadMoves DEF Locked, InTransaction

LEMMA ReadRowKeeps ==
  ASSUME OfflineInv, OfflineAssumption, NEW t \in Threads, Offline!ReadRow(t) PROVE OfflineInv'
<1> DEFINE g == thread[t].group
           x == [pc |-> "entries", group |-> g, version |-> file.version[g], snapshot |-> file.entries]
<1>1. /\ thread[t].pc = "row" /\ thread[t] \in Asking /\ g \in Groups /\ file \in Offline!Tables
      /\ open[AdapterOf[t]] /\ Offline!FileIsWhole /\ AdapterOf[t] \in Adapters
  BY ThreadTypes DEF Offline!ReadRow, Offline!At, Asking, OfflineInv, OfflineLocks
<1>2. thread' = [thread EXCEPT ![t] = x] /\ file.version[g] # None
      /\ UNCHANGED <<file, open, writer, staged, groups, held>> /\ told' = told
  BY DEF Offline!ReadRow, OfflineInv, OfflineType
<1>3. file.version[g] \in Nat /\ file.entries \subseteq Offline!Entries
  BY <1>1, <1>2 DEF Offline!Tables, Offline!Versions
<1>4. x \in Fetching /\ x.pc = "entries" /\ x.snapshot = file.entries /\ x.group = g
      /\ x.version = file.version[g]
  BY <1>1, <1>3 DEF Fetching
<1>5. file.embedded = {}
  BY <1>1 DEF OfflineInv, OfflineLocks
<1>6. {e \in file.entries : e.group = g} = Offline!Upto(g, file.version[g])
  BY <1>1, <1>2, <1>5 DEF Offline!FileIsWhole
<1> HIDE DEF x, g
<1> QED  BY <1>1, <1>2, <1>4, <1>6, ThreadMoves DEF Locked, InTransaction

LEMMA ReadEntriesKeeps ==
  ASSUME OfflineInv, OfflineAssumption, NEW t \in Threads, Offline!ReadEntries(t) PROVE OfflineInv'
<1> DEFINE found == {e \in thread[t].snapshot : e.group = thread[t].group}
           answer == [group |-> thread[t].group, version |-> thread[t].version, entries |-> found]
<1>1. /\ thread[t].pc = "entries" /\ groups' = groups \cup {answer}
      /\ held' = [held EXCEPT ![AdapterOf[t]] = None] /\ Offline!Finish(t)
      /\ UNCHANGED <<file, writer, staged, open, told>>
  BY DEF Offline!ReadEntries, Offline!At, Offline!SnapshotEntries, Offline!ReleaseRead
<1>2. found = Offline!Upto(thread[t].group, thread[t].version)
  BY <1>1 DEF OfflineInv, FetchedWhole
<1>3. answer.entries = found /\ answer.group = thread[t].group /\ answer.version = thread[t].version
  OBVIOUS
<1> HIDE DEF answer, found
<1>4. Offline!GroupsAreWhole'
  BY <1>1, <1>2, <1>3 DEF OfflineInv, Offline!GroupsAreWhole
<1>5. thread' = [thread EXCEPT ![t] = Offline!Idle] /\ Offline!Idle.pc = "idle"
  BY <1>1 DEF Offline!Finish, Offline!Idle
<1>6. held[AdapterOf[t]] = t /\ AdapterOf[t] \in Adapters
  BY <1>1 DEF OfflineInv, OfflineLocks, Locked, OfflineAssumption
<1>7. /\ thread' \in [Threads -> Sending \cup Asking \cup Fetching \cup {Offline!Idle}]
      /\ thread'[t] = Offline!Idle /\ \A u \in Threads \ {t} : thread'[u] = thread[u]
  BY <1>5 DEF OfflineInv, OfflineType
<1>8. /\ held' \in [Adapters -> Threads \cup {None}]
      /\ \A u \in Threads : AdapterOf[u] # AdapterOf[t] => held'[AdapterOf[u]] = held[AdapterOf[u]]
  BY <1>1, <1>6 DEF OfflineInv, OfflineType, Offline!TypeOK, OfflineAssumption
<1>9. OfflineType'
  BY <1>1, <1>7, <1>8 DEF OfflineInv, OfflineType, Offline!TypeOK
<1>10. OfflineLocks'
  <2>1. \A u \in Threads : thread'[u].pc \in Locked => held'[AdapterOf[u]] = u
    BY <1>5, <1>6, <1>7, <1>8 DEF OfflineInv, OfflineLocks, Locked, InTransaction
  <2> QED  BY <1>1, <1>5, <1>7, <2>1 DEF OfflineInv, OfflineLocks, InTransaction
<1>11. Staging' /\ FetchedWhole' /\ Offline!FileIsWhole'
  BY <1>1, <1>5, <1>7 DEF OfflineInv, Staging, Acceptable, FetchedWhole, Offline!FileIsWhole
<1> QED  BY <1>4, <1>9, <1>10, <1>11 DEF OfflineInv

LEMMA BeginKeeps ==
  ASSUME OfflineInv, OfflineAssumption, NEW t \in Threads, Offline!Begin(t) PROVE OfflineInv'
<1>1. /\ thread[t].pc = "begin" /\ writer = None /\ writer' = AdapterOf[t]
      /\ staged' = [staged EXCEPT ![AdapterOf[t]] = file]
      /\ thread' = [thread EXCEPT ![t].pc = "receipt"]
      /\ UNCHANGED <<file, held, open, told, groups>>
  BY DEF Offline!Begin, Offline!At, Offline!MayWrite, Offline!Goto
<1>2. file \in Offline!Tables
  BY ThreadTypes
<1>3. "receipt" \in InTransaction
  BY DEF InTransaction
<1> QED  BY <1>1, <1>2, <1>3, StatementKeeps

LEMMA ReadReceiptKeeps ==
  ASSUME OfflineInv, OfflineAssumption, NEW t \in Threads, Offline!ReadReceipt(t)
  PROVE  /\ OfflineInv'
         /\ \/ UNCHANGED <<file, told>>
            \/ /\ file' = file /\ file.receipt[thread[t].req.key] # None
               /\ file.receipt[thread[t].req.key].req = thread[t].req
               /\ told' = told \cup {file.receipt[thread[t].req.key]}
<1> DEFINE r == thread[t].req
           stored == file.receipt[r.key]
<1>1. /\ thread[t].pc = "receipt" /\ thread[t] \in Sending /\ file \in Offline!Tables
      /\ told \subseteq Offline!Result
  BY ThreadTypes DEF Offline!ReadReceipt, Offline!At, InTransaction
<1>2. staged[AdapterOf[t]] = file
  BY <1>1 DEF OfflineInv, Staging
<1>3. thread[t].pc \in InTransaction /\ {"receipt", "aggregate"} \subseteq InTransaction
  BY <1>1 DEF InTransaction
<1>4. stored \in Offline!Result \cup {None}
  BY <1>1 DEF Sending, Offline!Requests, Offline!Tables
<1>5. CASE stored = None
  <2>1. /\ thread' = [thread EXCEPT ![t].pc = "aggregate"]
        /\ UNCHANGED <<file, writer, staged, held, open, told, groups>>
    BY <1>2, <1>5 DEF Offline!ReadReceipt, Offline!View, Offline!Goto
  <2>2. staged' = [staged EXCEPT ![AdapterOf[t]] = file]
    BY <1>2, <2>1 DEF OfflineInv, OfflineType
  <2>3. writer = AdapterOf[t]
    BY <1>3, Alone
  <2> QED  BY <1>1, <1>3, <1>5, <2>1, <2>2, <2>3, StatementKeeps
<1>6. CASE stored # None
  <2>1. /\ Offline!Leave(t) /\ told' = IF stored.req = r THEN told \cup {stored} ELSE told
        /\ UNCHANGED <<file, open, groups>>
    BY <1>2, <1>6 DEF Offline!ReadReceipt, Offline!View
  <2>2. told' \subseteq Offline!Result
    BY <1>1, <1>4, <1>6, <2>1
  <2> QED  BY <1>3, <1>6, <2>1, <2>2, LeaveAsItIs
<1> QED  BY <1>5, <1>6

LEMMA WriteAggregateKeeps ==
  ASSUME OfflineInv, OfflineAssumption, NEW t \in Threads, Offline!WriteAggregate(t) PROVE OfflineInv'
<1> DEFINE r == thread[t].req
           a == AdapterOf[t]
<1>1. thread[t].pc = "aggregate" /\ thread[t] \in Sending /\ file \in Offline!Tables /\ a \in Adapters
  BY ThreadTypes DEF Offline!WriteAggregate, Offline!At, InTransaction
<1>2. /\ staged[a] = file /\ file.receipt[r.key] = None
      /\ staged \in [Adapters -> Offline!Tables \cup {None}]
  BY <1>1 DEF OfflineInv, Staging, OfflineType
<1>3. thread[t].pc \in InTransaction /\ "events" \in InTransaction
  BY <1>1 DEF InTransaction
<1>4. r \in Offline!Requests
  BY <1>1 DEF Sending
<1>5. Written(file, r) \in Offline!Tables
  BY <1>1, <1>4, WrittenTables
<1>6. staged' = [staged EXCEPT ![a] = Written(file, r)]
  BY <1>1, <1>2 DEF Offline!WriteAggregate, Written, Offline!Tables
<1>7. /\ Acceptable(r) /\ thread' = [thread EXCEPT ![t].pc = "events"]
      /\ UNCHANGED <<file, writer, held, open, told, groups>>
  BY <1>2 DEF Offline!WriteAggregate, Offline!View, Acceptable, Offline!Goto
<1>8. writer = a
  BY <1>3, Alone
<1> QED  BY <1>3, <1>5, <1>6, <1>7, <1>8, StatementKeeps

LEMMA WriteReceiptKeeps ==
  ASSUME OfflineInv, OfflineAssumption, NEW t \in Threads, Offline!WriteReceipt(t) PROVE OfflineInv'
<1> DEFINE r == thread[t].req
           a == AdapterOf[t]
           tables == Written(file, r)
<1>1. thread[t].pc = "events" /\ thread[t] \in Sending /\ file \in Offline!Tables /\ a \in Adapters
  BY ThreadTypes DEF Offline!WriteReceipt, Offline!At, InTransaction
<1>2. /\ staged[a] = tables /\ Acceptable(r)
      /\ staged \in [Adapters -> Offline!Tables \cup {None}]
  BY <1>1 DEF OfflineInv, Staging, OfflineType
<1>3. thread[t].pc \in InTransaction /\ "commit" \in InTransaction
  BY <1>1 DEF InTransaction
<1>4. r \in Offline!Requests
  BY <1>1 DEF Sending
<1>5. tables \in Offline!Tables
  BY <1>1, <1>4, WrittenTables
<1> HIDE DEF tables
<1>6. Recorded(tables, r) \in Offline!Tables
  BY <1>4, <1>5, WrittenTables
<1>7. staged' = [staged EXCEPT ![a] = Recorded(tables, r)]
  BY <1>1, <1>2, <1>5 DEF Offline!WriteReceipt, Recorded, Offline!Tables
<1>8. /\ thread' = [thread EXCEPT ![t].pc = "commit"]
      /\ UNCHANGED <<file, writer, held, open, told, groups>>
  BY DEF Offline!WriteReceipt, Offline!Goto
<1>9. writer = a
  BY <1>3, Alone
<1> QED  BY <1>2, <1>3, <1>6, <1>7, <1>8, <1>9, StatementKeeps DEF tables

LEMMA CommitKeeps ==
  ASSUME OfflineInv, OfflineAssumption, NEW t \in Threads, Offline!Commit(t)
  PROVE  /\ OfflineInv'
         /\ thread[t].req \in Offline!Requests /\ Acceptable(thread[t].req)
         /\ file'.version = [file.version EXCEPT ![thread[t].req.target] = thread[t].req.expected + 1]
         /\ file'.receipt = [file.receipt EXCEPT ![thread[t].req.key] =
                               [req |-> thread[t].req, version |-> thread[t].req.expected + 1]]
         /\ told' = told \cup {[req |-> thread[t].req, version |-> thread[t].req.expected + 1]}
<1> DEFINE r == thread[t].req
<1>1. thread[t].pc = "commit" /\ thread[t] \in Sending /\ file \in Offline!Tables
      /\ told \subseteq Offline!Result
  BY ThreadTypes DEF Offline!Commit, Offline!At, InTransaction
<1>2. Acceptable(r) /\ staged[AdapterOf[t]] = Recorded(Written(file, r), r)
  BY <1>1 DEF OfflineInv, Staging
<1>3. thread[t].pc \in InTransaction /\ r \in Offline!Requests
  BY <1>1 DEF InTransaction, Sending
<1>4. /\ file' = Recorded(Written(file, r), r) /\ Offline!Leave(t) /\ UNCHANGED <<open, groups>>
      /\ told' = told \cup {[req |-> r, version |-> r.expected + 1]}
  BY <1>2 DEF Offline!Commit, Offline!Published, Offline!View
<1>5. r.expected \in Nat
  BY <1>1, <1>3, WrittenTables
<1>6. told' \subseteq Offline!Result
  BY <1>1, <1>3, <1>4, <1>5 DEF Offline!Result
<1>7. file.embedded = {}
  BY <1>3, Alone
<1> HIDE DEF r
<1>8. /\ file' \in Offline!Tables /\ Offline!FileIsWhole' /\ file'.embedded = {}
      /\ file'.version = [file.version EXCEPT ![r.target] = r.expected + 1]
      /\ file'.receipt = [file.receipt EXCEPT ![r.key] = [req |-> r, version |-> r.expected + 1]]
  BY <1>2, <1>3, <1>4, <1>7, CommandIsWhole
<1>9. OfflineInv'
  BY <1>3, <1>4, <1>6, <1>8, LeaveKeeps
<1> QED  BY <1>2, <1>3, <1>4, <1>8, <1>9 DEF r

LEMMA RollbackKeeps ==
  ASSUME OfflineInv, OfflineAssumption, NEW t \in Threads, Offline!Refuse(t) \/ Offline!StatementFails(t)
  PROVE  OfflineInv' /\ UNCHANGED <<file, told>>
<1>1. /\ thread[t].pc \in InTransaction /\ Offline!Leave(t) /\ UNCHANGED <<file, open, told, groups>>
  BY DEF Offline!Refuse, Offline!StatementFails, Offline!Rollback, Offline!At, InTransaction
<1>2. told' \subseteq Offline!Result
  BY <1>1, ThreadTypes
<1> QED  BY <1>1, <1>2, LeaveAsItIs

LEMMA OfflineKeep ==
  ASSUME OfflineAssumption PROVE OfflineInv /\ (Offline!Next \/ UNCHANGED offlineVars) => OfflineInv'
<1> SUFFICES ASSUME OfflineInv, Offline!Next \/ UNCHANGED offlineVars PROVE OfflineInv'
  OBVIOUS
<1>1. CASE UNCHANGED offlineVars
  BY <1>1 DEF offlineVars, OfflineInv, OfflineType, Offline!TypeOK, OfflineLocks, Staging, Acceptable,
     FetchedWhole, Offline!FileIsWhole, Offline!GroupsAreWhole
<1>2. ASSUME NEW a \in Adapters, Offline!Open(a) \/ Offline!Close(a) \/ Offline!Crash(a)
      PROVE  OfflineInv'
  BY <1>2, OpenKeeps, ClosedKeeps
<1>3. ASSUME NEW t \in Threads, Offline!BeginFails(t) \/ Offline!NoGroup(t) PROVE OfflineInv'
  BY <1>3, ReleaseKeeps DEF Offline!BeginFails, Offline!NoGroup, Offline!ReleaseRead, Offline!At
<1>4. ASSUME NEW t \in Threads, Offline!InTransaction(t) PROVE OfflineInv'
  BY <1>4, ReadReceiptKeeps, RollbackKeeps, WriteAggregateKeeps, WriteReceiptKeeps, CommitKeeps
     DEF Offline!InTransaction
<1> QED  BY <1>1, <1>2, <1>3, <1>4, SendKeeps, AskKeeps, AcquireKeeps, BeginKeeps, ReadRowKeeps,
            ReadEntriesKeeps DEF Offline!Next

\* Every step of the store is a step of the atomic commands, or none.
LEMMA OfflineRefines ==
  ASSUME OfflineAssumption, OfflineInv, Offline!Next \/ UNCHANGED offlineVars
  PROVE  Offline!Atomic!Next \/ UNCHANGED <<file.version, file.receipt, told>>
<1>1. CASE UNCHANGED offlineVars
  BY <1>1 DEF offlineVars
<1>2. ASSUME NEW a \in Adapters, Offline!Open(a) PROVE UNCHANGED <<file.version, file.receipt, told>>
  <2>1. file \in Offline!Tables
    BY DEF OfflineInv, OfflineType, Offline!TypeOK
  <2> QED  BY <1>2, <2>1 DEF Offline!Open, Offline!MoveEmbedded, Offline!Tables
<1>3. ASSUME NEW t \in Threads, Offline!ReadReceipt(t)
      PROVE  Offline!Atomic!Next \/ UNCHANGED <<file.version, file.receipt, told>>
  <2> DEFINE r == thread[t].req
             stored == file.receipt[r.key]
  <2>1. CASE UNCHANGED <<file, told>>
    BY <2>1
  <2>2. CASE file' = file /\ stored # None /\ stored.req = r /\ told' = told \cup {stored}
    <3>1. r \in Offline!Requests /\ r.key \in Keys /\ file \in Offline!Tables
      BY <1>3, ThreadTypes DEF Offline!ReadReceipt, Offline!At, Sending, InTransaction, Offline!Requests
    <3>2. stored \in Offline!Result
      BY <2>2, <3>1 DEF Offline!Tables
    <3>3. stored = [req |-> r, version |-> stored.version]
      BY <2>2, <3>2 DEF Offline!Result
    <3>4. Offline!Atomic!Tell(r)
      BY <2>2, <3>3 DEF Offline!Atomic!Tell
    <3> QED  BY <3>1, <3>4 DEF Offline!Atomic!Next
  <2> QED  BY <1>3, <2>1, <2>2, ReadReceiptKeeps
<1>4. ASSUME NEW t \in Threads, Offline!Commit(t) PROVE Offline!Atomic!Next
  <2>1. Offline!Atomic!Accept(thread[t].req) /\ thread[t].req \in Offline!Requests
    BY <1>4, CommitKeeps DEF Offline!Atomic!Accept, Acceptable, Offline!Expected
  <2> QED  BY <2>1 DEF Offline!Atomic!Next
<1>5. ASSUME NEW t \in Threads, \/ Offline!Refuse(t) \/ Offline!StatementFails(t)
                                \/ Offline!WriteAggregate(t) \/ Offline!WriteReceipt(t)
      PROVE  UNCHANGED <<file.version, file.receipt, told>>
  BY <1>5, RollbackKeeps DEF Offline!WriteAggregate, Offline!WriteReceipt
<1>6. ASSUME NEW a \in Adapters, Offline!Close(a) \/ Offline!Crash(a)
      PROVE  UNCHANGED <<file.version, file.receipt, told>>
  BY <1>6 DEF Offline!Close, Offline!Crash
<1>7. ASSUME NEW t \in Threads,
             \/ \E r \in Offline!Requests : Offline!Send(t, r)
             \/ \E g \in Groups : Offline!AskGroup(t, g)
             \/ Offline!Acquire(t) \/ Offline!AcquireToRead(t) \/ Offline!Begin(t) \/ Offline!BeginFails(t)
             \/ Offline!NoGroup(t) \/ Offline!ReadRow(t) \/ Offline!ReadEntries(t)
      PROVE  UNCHANGED <<file.version, file.receipt, told>>
  BY <1>7 DEF Offline!Send, Offline!AskGroup, Offline!Acquire, Offline!AcquireToRead, Offline!TakeLock,
     Offline!Begin, Offline!BeginFails, Offline!NoGroup, Offline!ReadRow, Offline!ReadEntries
<1> QED  BY <1>1, <1>2, <1>3, <1>4, <1>5, <1>6, <1>7 DEF Offline!Next, Offline!InTransaction



\* What a client holds is an episode that exists.
ViewsExist ==
  \A c \in Clients : view[c] # None =>
    /\ view[c] \in ClientView
    /\ repository[view[c].episode] # None

AdvisoryInv ==
  /\ repository \in [AdvisoryEpisodes -> Advisory!Episode \cup {None}]
  /\ checkpoints \subseteq [episode : AdvisoryEpisodes, content : Advisory!Episode] \cup {Damaged}
  /\ DOMAIN view = Clients
  /\ attention \subseteq AdvisoryEpisodes /\ \A e \in attention : repository[e] # None
  /\ ViewsExist
  /\ Advisory!VersionsAreContents

\* A change of an episode is an episode with the next version.
LEMMA ChangedEpisode ==
  ASSUME AdvisoryAssumption, NEW x \in Advisory!Episode, NEW t \in Advisory!Technical, NEW w \in Advisory!Engineering, x.version < AdvisoryVersions
  PROVE  /\ Advisory!Changed(x, t, w) \in Advisory!Episode
         /\ Advisory!Changed(x, t, w).version = x.version + 1
BY DEF AdvisoryAssumption, Advisory!Changed, Advisory!Episode

LEMMA AdvisoryInit == ASSUME AdvisoryAssumption PROVE Advisory!Init => AdvisoryInv
BY DEF AdvisoryAssumption, ClientView, Advisory!Init, AdvisoryInv, ViewsExist, Advisory!VersionsAreContents

LEMMA AdvisoryKeep == ASSUME AdvisoryAssumption PROVE AdvisoryInv /\ (Advisory!Next \/ UNCHANGED advisoryVars) => AdvisoryInv'
<1> SUFFICES ASSUME AdvisoryInv, (Advisory!Next \/ UNCHANGED advisoryVars) PROVE AdvisoryInv'
  OBVIOUS
<1> USE DEF AdvisoryAssumption, ClientView
<1>1. ASSUME NEW e \in AdvisoryEpisodes, Advisory!Create(e) PROVE AdvisoryInv'
  <2>1. [technical |-> "ACTIVE", engineering |-> "OPEN", version |-> 0] \in Advisory!Episode
    BY DEF Advisory!Episode, Advisory!Technical, Advisory!Engineering, Advisory!Terminal
  <2> QED
    BY <1>1, <2>1 DEF Advisory!Create, AdvisoryInv, ViewsExist, Advisory!VersionsAreContents
<1>2. ASSUME NEW e \in AdvisoryEpisodes, Advisory!Save(e) PROVE AdvisoryInv'
  BY <1>2 DEF Advisory!Save, AdvisoryInv, ViewsExist, Advisory!VersionsAreContents
<1>3. ASSUME NEW c \in Clients, NEW e \in AdvisoryEpisodes, Advisory!Read(c, e) PROVE AdvisoryInv'
  BY <1>3 DEF Advisory!Read, AdvisoryInv, ViewsExist, Advisory!VersionsAreContents
<1>4. ASSUME NEW c \in Clients, Advisory!Mutate(c) PROVE AdvisoryInv'
  <2> DEFINE e == view[c].episode
  <2>1. /\ e \in AdvisoryEpisodes /\ repository[e] \in Advisory!Episode
        /\ repository[e].version \in Nat /\ repository[e].version < AdvisoryVersions
    BY <1>4 DEF Advisory!Mutate, AdvisoryInv, ViewsExist, Advisory!Episode
  <2>2. PICK x \in Advisory!Episode : /\ repository' = [repository EXCEPT ![e] = x]
                             /\ x.version = repository[e].version + 1
    <3>1. CASE \E t \in Advisory!Technical :
                 repository' = [repository EXCEPT ![e] = Advisory!Changed(repository[e], t, repository[e].engineering)]
      <4>1. PICK t \in Advisory!Technical :
              repository' = [repository EXCEPT ![e] = Advisory!Changed(repository[e], t, repository[e].engineering)]
        BY <3>1
      <4>2. repository[e].engineering \in Advisory!Engineering
        BY <2>1 DEF Advisory!Episode
      <4> QED  BY <4>1, <4>2, <2>1, ChangedEpisode
    <3>2. CASE \E w \in Advisory!Engineering :
                 repository' = [repository EXCEPT ![e] = Advisory!Changed(repository[e], repository[e].technical, w)]
      <4>1. PICK w \in Advisory!Engineering :
              repository' = [repository EXCEPT ![e] = Advisory!Changed(repository[e], repository[e].technical, w)]
        BY <3>2
      <4>2. repository[e].technical \in Advisory!Technical
        BY <2>1 DEF Advisory!Episode
      <4> QED  BY <4>1, <4>2, <2>1, ChangedEpisode
    <3> QED  BY <1>4, <3>1, <3>2 DEF Advisory!Mutate
  <2>3. view' = [view EXCEPT ![c] = None] /\ UNCHANGED <<checkpoints, attention>>
    BY <1>4 DEF Advisory!Mutate
  <2> HIDE DEF e
  <2>4. repository' \in [AdvisoryEpisodes -> Advisory!Episode \cup {None}] /\ \A d \in AdvisoryEpisodes :
          /\ repository[d] # None => repository'[d] # None
          /\ d # e => repository'[d] = repository[d]
    BY <2>1, <2>2 DEF AdvisoryInv
  <2>5. repository'[e] = x
    BY <2>1, <2>2 DEF AdvisoryInv
  <2>6. ASSUME NEW d \in Clients, view'[d] # None
        PROVE  view[d] # None /\ view'[d] = view[d]
    BY <2>3, <2>6 DEF AdvisoryInv
  <2>7. ViewsExist'
    BY <2>4, <2>6 DEF AdvisoryInv, ViewsExist
  <2>8. Advisory!VersionsAreContents'
    <3> SUFFICES ASSUME NEW d \in Clients, view'[d] # None, ~view'[d].restored
                 PROVE  \/ view'[d].content = repository'[view'[d].episode]
                        \/ view'[d].content.version < repository'[view'[d].episode].version
      BY DEF Advisory!VersionsAreContents
    <3>1. /\ view[d] # None /\ view'[d] = view[d] /\ view[d].episode \in AdvisoryEpisodes
          /\ view[d].content.version \in Nat
      BY <2>6 DEF AdvisoryInv, ViewsExist, Advisory!Episode
    <3>2. \/ view[d].content = repository[view[d].episode]
          \/ view[d].content.version < repository[view[d].episode].version
      BY <3>1 DEF AdvisoryInv, Advisory!VersionsAreContents
    <3>3. CASE view[d].episode # e
      BY <3>1, <3>2, <3>3, <2>4
    <3>4. CASE view[d].episode = e
      BY <3>1, <3>2, <3>4, <2>1, <2>2, <2>5
    <3> QED  BY <3>3, <3>4
  <2>9. attention' \subseteq AdvisoryEpisodes /\ \A d \in attention' : repository'[d] # None
    BY <2>3, <2>4 DEF AdvisoryInv
  <2>10. DOMAIN view' = Clients
    BY <2>3 DEF AdvisoryInv
  <2> QED
    BY <2>3, <2>4, <2>7, <2>8, <2>9, <2>10 DEF AdvisoryInv
<1>5. ASSUME NEW c \in Clients, Advisory!Conflict(c) PROVE AdvisoryInv'
  BY <1>5 DEF Advisory!Conflict, AdvisoryInv, ViewsExist, Advisory!VersionsAreContents
<1>6. ASSUME Advisory!QueryAttention PROVE AdvisoryInv'
  BY <1>6 DEF Advisory!QueryAttention, AdvisoryInv, ViewsExist, Advisory!VersionsAreContents
<1>7. ASSUME NEW p \in checkpoints, NEW expected \in AdvisoryEpisodes \cup {None}, Advisory!Restore(p, expected)
      PROVE  AdvisoryInv'
  <2>1. p \in [episode : AdvisoryEpisodes, content : Advisory!Episode]
    BY <1>7 DEF Advisory!Restore, Advisory!Accepts, AdvisoryInv
  <2>2. /\ repository' = [repository EXCEPT ![p.episode] = p.content]
        /\ UNCHANGED <<checkpoints, attention>>
    BY <1>7 DEF Advisory!Restore
  <2>3. p.episode \in AdvisoryEpisodes /\ p.content \in Advisory!Episode /\ p.content # None
    BY <2>1
  <2>4. repository' \in [AdvisoryEpisodes -> Advisory!Episode \cup {None}] /\ \A d \in AdvisoryEpisodes :
          /\ repository[d] # None => repository'[d] # None
          /\ d # p.episode => repository'[d] = repository[d]
    BY <2>2, <2>3 DEF AdvisoryInv
  <2>5. ASSUME NEW d \in Clients, view'[d] # None
        PROVE  /\ view[d] # None
               /\ view'[d].episode = view[d].episode /\ view'[d].content = view[d].content
               /\ view'[d] \in ClientView
               /\ ~view'[d].restored => view'[d] = view[d] /\ view[d].episode # p.episode
    <3>1. view'[d] = IF view[d] # None /\ view[d].episode = p.episode
                     THEN [view[d] EXCEPT !.restored = TRUE] ELSE view[d]
      BY <1>7 DEF Advisory!Restore, AdvisoryInv
    <3>2. view[d] # None /\ view[d] \in ClientView
      BY <2>5, <3>1 DEF AdvisoryInv, ViewsExist
    <3> QED  BY <3>1, <3>2
  <2>6. DOMAIN view' = Clients
    BY <1>7 DEF Advisory!Restore
  <2>7. ViewsExist' /\ Advisory!VersionsAreContents'
    BY <2>4, <2>5 DEF AdvisoryInv, ViewsExist, Advisory!VersionsAreContents
  <2>8. attention' \subseteq AdvisoryEpisodes /\ \A e \in attention' : repository'[e] # None
    BY <2>2, <2>3, <2>4 DEF AdvisoryInv
  <2> QED  BY <2>2, <2>4, <2>6, <2>7, <2>8 DEF AdvisoryInv
<1>8. CASE UNCHANGED advisoryVars
  BY <1>8 DEF advisoryVars, AdvisoryInv, ViewsExist, Advisory!VersionsAreContents
<1> QED
  BY <1>1, <1>2, <1>3, <1>4, <1>5, <1>6, <1>7, <1>8 DEF Advisory!Next

-----------------------------------------------------------------------------
\* Recovery.
Results == [qualified : BOOLEAN, eligible : BOOLEAN, contradictory : BOOLEAN]
Evidence == [id : Ids, sample : Samples, observed : {x.observed : x \in Shapes}, result : Results]

StateOf(count) ==
  CASE Cardinality(count) >= Needed -> "RESOLVED"
    [] count = {} -> "ACTIVE"
    [] OTHER -> "RECOVERING"

\* What counts are the samples of the support, each once: an eligible sample was
\* not known before.
RecoveryInv ==
  /\ submitted \in Seq(Evidence) /\ Len(submitted) <= MaxSubmissions
  /\ counted = {submitted[i].sample : i \in Recovery!Support}
  /\ IsFiniteSet(Recovery!Support) /\ IsFiniteSet(counted)
  /\ Cardinality(Recovery!Support) = Cardinality(counted)
  /\ episode.state = StateOf(counted)
  /\ episode \in [state : {"ACTIVE", "RECOVERING", "RESOLVED"}, assessments : Nat, eligible : Nat]
  /\ episode.eligible = Cardinality(counted) /\ episode.assessments = Len(submitted)
  /\ \A i, j \in DOMAIN submitted : i # j /\ submitted[i].sample = submitted[j].sample =>
       ~(submitted[i].result.qualified /\ submitted[j].result.qualified)

LEMMA RecoveryCardinality == ASSUME NEW S PROVE Recovery!Cardinality(S) = Cardinality(S)
BY DEF Recovery!Cardinality, Cardinality

LEMMA StateOfIs ==
  ASSUME RecoveryAssumption, NEW count, IsFiniteSet(count)
  PROVE  /\ StateOf(count) \in {"ACTIVE", "RECOVERING", "RESOLVED"}
         /\ Cardinality(count) \in Nat
         /\ count = {} => StateOf(count) = "ACTIVE"
         /\ Cardinality(count) = 0 <=> count = {}
<1>1. Cardinality(count) \in Nat /\ (Cardinality(count) = 0 <=> count = {})
  BY FS_CardinalityType, FS_EmptySet
<1> QED  BY <1>1 DEF StateOf, RecoveryAssumption

LEMMA RecoveryImplies ==
  ASSUME RecoveryAssumption, RecoveryInv
  PROVE  Recovery!TypeOK /\ Recovery!RecoveryIsEarned
<1>1. counted \subseteq Samples
  <2>1. \A i \in Recovery!Support : submitted[i] \in Evidence
    BY ElementOfSeq DEF RecoveryInv, Recovery!Support
  <2> QED  BY <2>1 DEF RecoveryInv, Evidence
<1>2. Recovery!Support = {} <=> counted = {}
  BY FS_EmptySet DEF RecoveryInv
<1>3. Recovery!Cardinality(Recovery!Support) = Cardinality(counted)
  BY RecoveryCardinality DEF RecoveryInv
<1>4. Recovery!TypeOK
  BY <1>1 DEF RecoveryInv, Recovery!TypeOK
<1> QED  BY <1>2, <1>3, <1>4 DEF RecoveryInv, Recovery!RecoveryIsEarned, StateOf

LEMMA RecoveryInit == ASSUME RecoveryAssumption PROVE Recovery!Init => RecoveryInv
<1> SUFFICES ASSUME Recovery!Init PROVE RecoveryInv
  OBVIOUS
<1>1. submitted = << >> /\ counted = {} /\ Len(submitted) = 0 /\ DOMAIN submitted = {}
  BY DEF Recovery!Init
<1>2. Recovery!Support = {}
  BY <1>1 DEF Recovery!Support
<1>3. IsFiniteSet({}) /\ Cardinality({}) = 0
  BY FS_EmptySet
<1>4. StateOf({}) = "ACTIVE"
  BY <1>3, StateOfIs
<1> QED
  BY <1>1, <1>2, <1>3, <1>4, EmptySeq DEF Recovery!Init, RecoveryInv, RecoveryAssumption

\* What is counted after a submission is what the state is made of.
LEMMA StateAfterCount ==
  ASSUME RecoveryAssumption, RecoveryInv, NEW result, NEW count, IsFiniteSet(count),
         result.contradictory => count = {},
         ~result.contradictory => counted \subseteq count
  PROVE  Recovery!StateAfter(result, count) = StateOf(count)
<1>1. Recovery!Cardinality(count) = Cardinality(count)
  BY RecoveryCardinality
<1>2. /\ Cardinality(count) \in Nat /\ (Cardinality(count) = 0 <=> count = {})
      /\ count = {} => StateOf(count) = "ACTIVE"
  BY StateOfIs
<1>3. CASE result.contradictory
  BY <1>1, <1>2, <1>3 DEF Recovery!StateAfter, RecoveryAssumption
<1>4. CASE ~result.contradictory /\ Cardinality(count) >= Needed
  BY <1>1, <1>2, <1>4 DEF Recovery!StateAfter, RecoveryAssumption, StateOf
<1>5. CASE ~result.contradictory /\ Cardinality(count) < Needed /\ count # {}
  BY <1>1, <1>2, <1>5 DEF Recovery!StateAfter, RecoveryAssumption, StateOf
<1>6. CASE ~result.contradictory /\ count = {}
  <2>1. counted = {} /\ episode.state = "ACTIVE"
    BY <1>2, <1>6 DEF RecoveryInv
  <2> QED  BY <1>1, <1>2, <1>6, <2>1 DEF Recovery!StateAfter, RecoveryAssumption
<1> QED  BY <1>2, <1>3, <1>4, <1>5, <1>6 DEF RecoveryAssumption

LEMMA SubmitKeeps ==
  ASSUME RecoveryAssumption, RecoveryInv, NEW o, o.id \in Ids, o.sample \in Samples,
         o.observed \in {x.observed : x \in Shapes}, NEW at, Recovery!Submit(o, at)
  PROVE  RecoveryInv'
<1> DEFINE n == Len(submitted)
           result == Recovery!Evaluated(o, at)
           count == Recovery!CountAfter(o, result)
           new == [id |-> o.id, sample |-> o.sample, observed |-> o.observed, result |-> result]
<1>1. /\ result \in Results
      /\ result.eligible => result.qualified
      /\ ~(result.eligible /\ result.contradictory)
      /\ result.qualified => \A s \in Recovery!Submissions : s.sample # o.sample
  BY DEF Recovery!Evaluated, Results, Recovery!IsQualified, Recovery!IsKnown
<1>2. new \in Evidence /\ n \in Nat /\ new.sample = o.sample /\ new.result = result
  BY <1>1, LenProperties DEF Evidence, RecoveryInv
<1>3. /\ submitted' = Append(submitted, new) /\ counted' = count
      /\ n < MaxSubmissions
      /\ episode' = [state |-> Recovery!StateAfter(result, count), assessments |-> n + 1,
                     eligible |-> Recovery!Cardinality(count)]
  BY Zenon DEF Recovery!Submit
<1> HIDE DEF result, count, new
<1>4. /\ submitted' \in Seq(Evidence) /\ Len(submitted') = n + 1
      /\ \A i \in 1 .. n : submitted'[i] = submitted[i]
      /\ submitted'[n + 1] = new
      /\ DOMAIN submitted = 1 .. n /\ DOMAIN submitted' = 1 .. n + 1
  BY <1>2, <1>3, AppendProperties, LenProperties DEF RecoveryInv
<1>5. \A i \in 1 .. n : submitted[i] \in Evidence
  BY <1>4, ElementOfSeq DEF RecoveryInv
<1>6. Recovery!Support \subseteq 1 .. n /\ n + 1 \notin 1 .. n /\ 1 .. n + 1 = (1 .. n) \cup {n + 1}
  BY <1>2, <1>4 DEF Recovery!Support
<1>7. \A i, j \in 1 .. n + 1 : i # j /\ submitted'[i].sample = submitted'[j].sample =>
        ~(submitted'[i].result.qualified /\ submitted'[j].result.qualified)
  <2>1. result.qualified => \A i \in 1 .. n : submitted[i].sample # o.sample
    BY <1>1, <1>4 DEF Recovery!Submissions
  <2>2. \A i \in 1 .. n + 1 : i \in 1 .. n \/ i = n + 1
    BY <1>2
  <2> QED  BY <1>2, <1>4, <2>1, <2>2 DEF RecoveryInv
<1>8. /\ IsFiniteSet(Recovery!Support') /\ IsFiniteSet(count)
      /\ Cardinality(Recovery!Support') = Cardinality(count)
      /\ count = {submitted'[i].sample : i \in Recovery!Support'}
      /\ result.contradictory => count = {}
      /\ ~result.contradictory => counted \subseteq count
  <2>1. CASE result.contradictory
    <3>1. count = {}
      BY <1>1, <2>1 DEF count, Recovery!CountAfter
    <3>2. n + 1 \in Recovery!Contradictions'
      BY <1>2, <1>4, <2>1 DEF Recovery!Contradictions
    <3>3. Recovery!Support' = {}
      <4> SUFFICES ASSUME NEW i \in 1 .. n + 1, submitted'[i].result.eligible,
                          \A c \in Recovery!Contradictions' : c < i
                   PROVE  FALSE
        BY <1>4 DEF Recovery!Support
      <4>1. n + 1 < i
        BY <3>2
      <4> QED  BY <1>2, <4>1
    <3> QED  BY <2>1, <3>1, <3>3, FS_EmptySet
  <2>2. CASE ~result.contradictory
    <3>1. Recovery!Contradictions' = Recovery!Contradictions /\ Recovery!Contradictions \subseteq 1 .. n
      <4>1. n + 1 \notin Recovery!Contradictions' /\ Recovery!Contradictions' \subseteq 1 .. n + 1
        BY <1>2, <1>4, <2>2 DEF Recovery!Contradictions
      <4>2. \A i \in 1 .. n : i \in Recovery!Contradictions' <=> i \in Recovery!Contradictions
        BY <1>2, <1>4 DEF Recovery!Contradictions
      <4>3. Recovery!Contradictions \subseteq 1 .. n
        BY <1>4 DEF Recovery!Contradictions
      <4> QED  BY <1>6, <4>1, <4>2, <4>3
    <3>2. \A i \in 1 .. n : i \in Recovery!Support' <=> i \in Recovery!Support
      BY <1>2, <1>4, <3>1 DEF Recovery!Support
    <3>3. n + 1 \in Recovery!Support' <=> result.eligible
      BY <1>2, <1>4, <3>1 DEF Recovery!Support
    <3>4. Recovery!Support' \subseteq 1 .. n + 1 /\ n + 1 \notin Recovery!Support
      BY <1>2, <1>4, <1>6 DEF Recovery!Support
    <3>5. CASE result.eligible
      <4>1. Recovery!Support' = Recovery!Support \cup {n + 1}
        BY <1>6, <3>2, <3>3, <3>4, <3>5
      <4>2. count = counted \cup {o.sample}
        BY <2>2, <3>5 DEF count, Recovery!CountAfter
      <4>3. o.sample \notin counted
        BY <1>1, <1>4, <1>6, <3>5 DEF RecoveryInv, Recovery!Submissions
      <4>4. counted = {submitted'[i].sample : i \in Recovery!Support}
        BY <1>4, <1>6 DEF RecoveryInv
      <4>5. count = {submitted'[i].sample : i \in Recovery!Support'}
        BY <1>2, <1>4, <4>1, <4>2, <4>4
      <4>6. /\ IsFiniteSet(Recovery!Support) /\ IsFiniteSet(counted)
            /\ Cardinality(Recovery!Support) = Cardinality(counted)
        BY DEF RecoveryInv
      <4>7. /\ IsFiniteSet(Recovery!Support')
            /\ Cardinality(Recovery!Support') = Cardinality(Recovery!Support) + 1
        BY <3>4, <4>1, <4>6, FS_AddElement
      <4>8. IsFiniteSet(count) /\ Cardinality(count) = Cardinality(counted) + 1
        BY <4>2, <4>3, <4>6, FS_AddElement
      <4> QED  BY <2>2, <4>2, <4>5, <4>6, <4>7, <4>8
    <3>6. CASE ~result.eligible
      <4>1. Recovery!Support' = Recovery!Support
        BY <1>6, <3>2, <3>3, <3>4, <3>6
      <4>2. count = counted
        BY <2>2, <3>6 DEF count, Recovery!CountAfter
      <4>3. counted = {submitted'[i].sample : i \in Recovery!Support}
        BY <1>4, <1>6 DEF RecoveryInv
      <4> QED  BY <2>2, <4>1, <4>2, <4>3 DEF RecoveryInv
    <3> QED  BY <3>5, <3>6
  <2> QED  BY <2>1, <2>2
<1>9. /\ Recovery!StateAfter(result, count) = StateOf(count)
      /\ StateOf(count) \in {"ACTIVE", "RECOVERING", "RESOLVED"}
      /\ Recovery!Cardinality(count) = Cardinality(count) /\ Cardinality(count) \in Nat
  BY <1>8, StateAfterCount, StateOfIs, RecoveryCardinality
<1>10. StateOf(count) = StateOf(counted')
  BY <1>3
<1>11. StateOf(counted') = StateOf(counted)'
  BY DEF StateOf
<1>12. /\ episode'.state = StateOf(counted)' /\ episode'.eligible = Cardinality(counted')
       /\ episode'.assessments = Len(submitted')
       /\ episode' \in [state : {"ACTIVE", "RECOVERING", "RESOLVED"}, assessments : Nat, eligible : Nat]
  BY <1>2, <1>3, <1>4, <1>9, <1>10, <1>11
<1>13. Len(submitted') <= MaxSubmissions
  BY <1>2, <1>3, <1>4 DEF RecoveryAssumption
<1>14. counted' = {submitted'[i].sample : i \in Recovery!Support'}
  BY <1>3, <1>8
<1>15. /\ IsFiniteSet(Recovery!Support') /\ IsFiniteSet(counted')
       /\ Cardinality(Recovery!Support') = Cardinality(counted')
  BY <1>3, <1>8
<1>16. \A i, j \in DOMAIN submitted' : i # j /\ submitted'[i].sample = submitted'[j].sample =>
         ~(submitted'[i].result.qualified /\ submitted'[j].result.qualified)
  BY <1>4, <1>7
<1>17. submitted' \in Seq(Evidence)
  BY <1>4
<1> HIDE DEF n
<1> QED  BY <1>12, <1>13, <1>14, <1>15, <1>16, <1>17 DEF RecoveryInv

LEMMA RecoveryKeep ==
  ASSUME RecoveryAssumption
  PROVE  RecoveryInv /\ (Recovery!Next \/ UNCHANGED recoveryVars) => RecoveryInv'
<1> SUFFICES ASSUME RecoveryInv, Recovery!Next \/ UNCHANGED recoveryVars PROVE RecoveryInv'
  OBVIOUS
<1>1. CASE Recovery!Next
  <2>1. PICK i \in Ids, s \in Samples, shape \in Shapes, at \in 0 .. RecoveryClock :
          Recovery!Submit([id |-> i, sample |-> s, event |-> shape.event,
                           observed |-> shape.observed, available |-> shape.available,
                           fits |-> shape.fits, outcome |-> shape.outcome], at)
    BY <1>1 DEF Recovery!Next
  <2> QED  BY <2>1, SubmitKeeps
<1>2. CASE UNCHANGED recoveryVars
  BY <1>2 DEF recoveryVars, RecoveryInv, StateOf, Recovery!Support, Recovery!Contradictions
<1> QED  BY <1>1, <1>2

-----------------------------------------------------------------------------
\* What operations is told.
HealthType ==
  /\ tick \in 0 .. HealthClock
  /\ Health!TypeOK

\* What was lapsed when the cockpit was asked for is now leased beyond it, or
\* has failed.
Mended(j) == jobs[j].lease > cockpit.began \/ jobs[j].status = "FAILED"

\* The steps of a cockpit, from the reading of each axis on.
DoneRead == {"done"}
ArtifactsRead == {"family"} \cup DoneRead
SourceRead == {"artifacts"} \cup ArtifactsRead
RowsRead == {"source", "snapshot"} \cup SourceRead
WorkerRead == {"rows", "receipts"} \cup RowsRead
Asked == {"postgres", "worker"} \cup WorkerRead

\* What a cockpit holds on to of the instant that it was asked for at.
Holds ==
  /\ {"jobs", "bytes", "began", "allowed"} \subseteq DOMAIN cockpit
  /\ cockpit.began \in 0 .. tick
  /\ cockpit.jobs \in [Jobs -> Health!Job]
  /\ cockpit.bytes \in [Blobs -> {"sound", "failed"}]
  /\ granted \subseteq cockpit.allowed
  /\ \A j \in Jobs : cockpit.jobs[j].status = "FAILED" => jobs[j].status = "FAILED"
  /\ \A j \in Health!Lapsed(cockpit.jobs, cockpit.began) : jobs[j] = cockpit.jobs[j] \/ Mended(j)
  /\ \A x \in Blobs : cockpit.bytes[x] = "failed" => bytes[x] = "failed"

\* What each axis says once it was read.
WorkerSays ==
  /\ "worker" \in DOMAIN cockpit
  /\ cockpit.worker = "READY" =>
       /\ Health!Terminal(cockpit.jobs) = {}
       /\ \A j \in Health!Lapsed(cockpit.jobs, cockpit.began) : Mended(j)
RowsSay ==
  /\ "rows" \in DOMAIN cockpit
  /\ \A j \in DOMAIN cockpit.rows : cockpit.rows[j].lease = "EXPIRED" =>
       cockpit.rows[j].was \in Nat /\ cockpit.rows[j].was <= tick
ReceiptsSay ==
  "receipts" \in DOMAIN cockpit => cockpit.receipts \subseteq Jobs /\ \A j \in cockpit.receipts : jobs[j].effect
SourceSays ==
  /\ "source" \in DOMAIN cockpit
  /\ cockpit.source = "READY" =>
       /\ "record" \in DOMAIN cockpit
       /\ cockpit.record.state = "READY"
       /\ cockpit.began - cockpit.record.available <= Freshness
  /\ cockpit.source # "UNAVAILABLE" => "source" \in cockpit.allowed
ArtifactsSay ==
  /\ "artifacts" \in DOMAIN cockpit
  /\ cockpit.artifacts = "READY" => \A x \in Inspected : cockpit.bytes[x] = "sound"
  /\ cockpit.artifacts # "UNAVAILABLE" => "artifacts" \in cockpit.allowed
FamilySays ==
  /\ "family" \in DOMAIN cockpit
  /\ cockpit.family # "UNAVAILABLE" => "family" \in cockpit.allowed

CockpitInv ==
  /\ Holds /\ ReceiptsSay
  /\ cockpit.pc \in {"worker"} \cup WorkerRead => "now" \in DOMAIN cockpit
  /\ "now" \in DOMAIN cockpit /\ cockpit.now # None => cockpit.now \in Nat /\ cockpit.began <= cockpit.now
  /\ cockpit.pc = "rows" => "at" \in DOMAIN cockpit /\ cockpit.at \in 0 .. tick
  /\ cockpit.pc = "snapshot" =>
       "record" \in DOMAIN cockpit /\ cockpit.record \in Health!Source /\ "source" \in cockpit.allowed
  /\ cockpit.pc \in WorkerRead => WorkerSays
  /\ cockpit.pc \in RowsRead \cup {"receipts"} => RowsSay
  /\ cockpit.pc \in SourceRead => SourceSays
  /\ cockpit.pc \in ArtifactsRead => ArtifactsSay
  /\ cockpit.pc \in DoneRead => FamilySays

\* The same of the status command.
StatusInv ==
  /\ cockpit.pc \in {"verify", "count"} =>
       /\ {"jobs", "bytes"} \subseteq DOMAIN cockpit
       /\ cockpit.jobs \in [Jobs -> Health!Job]
       /\ cockpit.bytes \in [Blobs -> {"sound", "failed"}]
       /\ \A x \in Blobs : cockpit.bytes[x] = "failed" => bytes[x] = "failed"
  /\ cockpit.pc \in {"count", "done"} =>
       /\ "artifacts" \in DOMAIN cockpit
       /\ cockpit.artifacts = "READY" => \A x \in Blobs : cockpit.bytes[x] = "sound"
  /\ cockpit.pc = "done" =>
       /\ "worker" \in DOMAIN cockpit
       /\ cockpit.worker = "READY" => Health!Terminal(cockpit.jobs) = {}

HealthInv ==
  /\ HealthType
  /\ "pc" \in DOMAIN cockpit
  /\ IF "allowed" \in DOMAIN cockpit THEN cockpit.pc \in Asked /\ CockpitInv
     ELSE cockpit.pc \in {"idle", "verify", "count", "done"} /\ StatusInv

-----------------------------------------------------------------------------
LEMMA HealthImplies ==
  ASSUME HealthAssumption, HealthInv
  PROVE  Health!TypeOK /\ Health!CockpitIsEarned /\ Health!StatusIsEarned
<1>1. CASE "allowed" \in DOMAIN cockpit
  <2>1. ASSUME cockpit.pc = "done" PROVE Health!CockpitIsEarned
    <3>1. /\ Holds /\ ReceiptsSay /\ WorkerSays /\ RowsSay /\ SourceSays /\ ArtifactsSay /\ FamilySays
      BY <1>1, <2>1 DEF HealthInv, CockpitInv, DoneRead, ArtifactsRead, SourceRead, RowsRead,
                       WorkerRead
    <3>2. ASSUME NEW j \in Health!Lapsed(cockpit.jobs, cockpit.began), Mended(j)
          PROVE  jobs[j] # cockpit.jobs[j]
      BY <3>1, <3>2 DEF Holds, Health!Lapsed, Mended, Health!Job
    <3> QED
      BY <3>1, <3>2 DEF Holds, ReceiptsSay, WorkerSays, RowsSay, SourceSays, ArtifactsSay, FamilySays,
                        Health!CockpitIsEarned, Health!Shown
  <2> QED  BY <1>1, <2>1 DEF HealthInv, HealthType, Health!CockpitIsEarned, Health!StatusIsEarned,
                            Health!Stands
<1>2. CASE "allowed" \notin DOMAIN cockpit
  BY <1>2 DEF HealthAssumption, HealthInv, HealthType, StatusInv, Health!CockpitIsEarned,
             Health!StatusIsEarned, Health!Stands
<1> QED  BY <1>1, <1>2

LEMMA HealthInit == ASSUME HealthAssumption PROVE Health!Init => HealthInv
<1> SUFFICES ASSUME Health!Init PROVE HealthInv
  OBVIOUS
<1>1. HealthType
  BY DEF HealthAssumption, Health!Init, HealthType, Health!TypeOK, Health!Job
<1>2. DOMAIN cockpit = {"pc"} /\ cockpit.pc = "idle"
  BY DEF Health!Init
<1> QED  BY <1>1, <1>2 DEF HealthInv, StatusInv

\* How the authorities move: what has failed stays failed, what has an effect
\* keeps it, and a lease that has lapsed is only renewed.
LEMMA AuthoritiesMove ==
  ASSUME HealthAssumption, HealthType, Health!Authorities
  PROVE  /\ HealthType' /\ tick <= tick'
         /\ \A j \in Jobs :
              /\ jobs[j].status = "FAILED" => jobs'[j].status = "FAILED"
              /\ jobs[j].effect => jobs'[j].effect
              /\ \A t \in 0 .. tick :
                   /\ jobs[j].lease > t => jobs'[j].lease > t
                   /\ jobs[j].status = "RUNNING" /\ jobs[j].lease <= t =>
                        jobs'[j] = jobs[j] \/ jobs'[j].lease > t \/ jobs'[j].status = "FAILED"
         /\ \A x \in Blobs : bytes[x] = "failed" => bytes'[x] = "failed"
<1> USE DEF HealthAssumption, HealthType, Health!TypeOK
<1>0. \A j \in Jobs : jobs[j] \in Health!Job
  OBVIOUS
<1>1. CASE tick < HealthClock /\ tick' = tick + 1 /\ UNCHANGED <<jobs, feed, bytes, gates, promoted, granted>>
  BY <1>0, <1>1 DEF Health!Job
<1>2. CASE Health!JobMoves /\ UNCHANGED <<tick, feed, bytes, gates, promoted, granted>>
  <2>1. PICK j \in Jobs, new \in Health!Job :
          /\ \/ new = [jobs[j] EXCEPT !.status = "RUNNING", !.lease = tick + 1] /\ jobs[j].status # "FAILED"
             \/ /\ new = [jobs[j] EXCEPT !.effect = TRUE]
                /\ jobs[j].status = "RUNNING" /\ tick < jobs[j].lease
             \/ /\ new = [jobs[j] EXCEPT !.status = "QUEUED"]
                /\ jobs[j].status = "RUNNING" /\ tick < jobs[j].lease
             \/ new = [jobs[j] EXCEPT !.status = "FAILED"] /\ jobs[j].status = "RUNNING"
          /\ jobs' = [jobs EXCEPT ![j] = new]
    BY <1>2, Zenon DEF Health!JobMoves
  <2>2. /\ jobs[j].status = "FAILED" => new.status = "FAILED"
        /\ jobs[j].effect => new.effect
        /\ \A t \in 0 .. tick :
             /\ jobs[j].lease > t => new.lease > t
             /\ jobs[j].status = "RUNNING" /\ jobs[j].lease <= t =>
                  new = jobs[j] \/ new.lease > t \/ new.status = "FAILED"
    <3> DEFINE row == jobs[j]
    <3>1. row \in Health!Job /\ tick \in Nat
      BY <1>0
    <3> HIDE DEF row
    <3>2. CASE new = [row EXCEPT !.status = "RUNNING", !.lease = tick + 1] /\ row.status # "FAILED"
      BY <3>1, <3>2 DEF row, Health!Job
    <3>3. CASE new = [row EXCEPT !.effect = TRUE] /\ row.status = "RUNNING" /\ tick < row.lease
      BY <3>1, <3>3 DEF row, Health!Job
    <3>4. CASE new = [row EXCEPT !.status = "QUEUED"] /\ row.status = "RUNNING" /\ tick < row.lease
      BY <3>1, <3>4 DEF row, Health!Job
    <3>5. CASE new = [row EXCEPT !.status = "FAILED"] /\ row.status = "RUNNING"
      BY <3>1, <3>5 DEF row, Health!Job
    <3> QED  BY <2>1, <3>2, <3>3, <3>4, <3>5 DEF row
  <2>3. \A k \in Jobs : jobs'[k] = IF k = j THEN new ELSE jobs[k]
    BY <2>1
  <2>4. jobs' \in [Jobs -> Health!Job]
    BY <2>1
  <2> QED  BY <1>0, <1>2, <2>2, <2>3, <2>4 DEF Health!Job
<1>3. CASE Health!SourceMoves /\ UNCHANGED <<tick, jobs, bytes, gates, promoted, granted>>
  BY <1>0, <1>3 DEF Health!SourceMoves, Health!Source, Health!Job
<1>4. CASE (\E x \in Blobs : bytes' = [bytes EXCEPT ![x] = "failed"])
           /\ UNCHANGED <<tick, jobs, feed, gates, promoted, granted>>
  BY <1>0, <1>4 DEF Health!Job
<1>5. CASE Health!GateMoves /\ UNCHANGED <<tick, jobs, feed, bytes, granted>>
  BY <1>0, <1>5 DEF Health!GateMoves, Health!Job
<1>6. CASE (\E c \in Health!Capabilities : granted' = granted \ {c} \/ granted' = granted \cup {c})
           /\ UNCHANGED <<tick, jobs, feed, bytes, gates, promoted>>
  BY <1>0, <1>6 DEF Health!Job
<1> QED  BY <1>1, <1>2, <1>3, <1>4, <1>5, <1>6 DEF Health!Authorities

LEMMA AuthoritiesKeep ==
  ASSUME HealthAssumption, HealthInv, Health!Authorities
  PROVE  HealthInv'
<1>1. HealthType
  BY DEF HealthInv
<1>2. cockpit.pc # "done" /\ cockpit' = IF "allowed" \notin DOMAIN cockpit THEN cockpit
                ELSE [cockpit EXCEPT !.allowed = @ \cup granted']
  BY DEF Health!Authorities
<1>3. CASE "allowed" \notin DOMAIN cockpit
  <2>1. cockpit' = cockpit
    BY <1>2, <1>3
  <2> QED  BY <1>1, <1>2, <1>3, <2>1, AuthoritiesMove DEF HealthInv, StatusInv
<1>4. CASE "allowed" \in DOMAIN cockpit
  <2>1. /\ DOMAIN cockpit' = DOMAIN cockpit
        /\ cockpit'.allowed = cockpit.allowed \cup granted'
        /\ \A f \in DOMAIN cockpit \ {"allowed"} : cockpit'[f] = cockpit[f]
    BY <1>2, <1>4
  <2>2. cockpit.pc \in Asked /\ CockpitInv /\ Holds /\ "pc" \in DOMAIN cockpit
    BY <1>4 DEF HealthInv, CockpitInv
  <2>3. /\ cockpit'.pc = cockpit.pc /\ cockpit'.jobs = cockpit.jobs /\ cockpit'.bytes = cockpit.bytes
        /\ cockpit'.began = cockpit.began
    BY <2>1, <2>2 DEF Holds
  <2>4. /\ tick \in Nat /\ tick' \in Nat /\ tick <= tick' /\ cockpit.began \in 0 .. tick
        /\ jobs \in [Jobs -> Health!Job] /\ jobs' \in [Jobs -> Health!Job]
    BY <1>1, <2>2, AuthoritiesMove DEF Holds, HealthType, Health!TypeOK
  <2>5. ASSUME NEW j \in Jobs, Mended(j) PROVE Mended(j)'
    BY <1>1, <2>3, <2>4, <2>5, AuthoritiesMove DEF Mended
  <2>6. Holds'
    <3>1. ASSUME NEW j \in Health!Lapsed(cockpit.jobs, cockpit.began)
          PROVE  jobs'[j] = cockpit.jobs[j] \/ Mended(j)'
      <4>1. j \in Jobs /\ (jobs[j] = cockpit.jobs[j] \/ Mended(j))
        BY <2>2 DEF Holds, Health!Lapsed
      <4>2. CASE jobs[j] = cockpit.jobs[j]
        <5>1. jobs[j].status = "RUNNING" /\ jobs[j].lease <= cockpit.began
          BY <4>2 DEF Health!Lapsed
        <5> QED  BY <1>1, <2>3, <2>4, <4>1, <4>2, <5>1, AuthoritiesMove DEF Mended
      <4> QED  BY <2>5, <4>1, <4>2
    <3>2. granted' \subseteq cockpit'.allowed
      BY <2>1
    <3> QED  BY <1>1, <2>1, <2>2, <2>3, <2>4, <3>1, <3>2, AuthoritiesMove DEF Holds, Health!Lapsed
  <2>7. ReceiptsSay'
    BY <1>1, <2>1, <2>2, AuthoritiesMove DEF CockpitInv, ReceiptsSay
  <2>8. cockpit.pc \in WorkerRead => WorkerSays'
    BY <2>1, <2>2, <2>3, <2>5 DEF CockpitInv, WorkerSays, Health!Lapsed, Health!Terminal
  <2>9. cockpit.pc \in RowsRead \cup {"receipts"} => RowsSay'
    <3> SUFFICES ASSUME cockpit.pc \in RowsRead \cup {"receipts"} PROVE RowsSay'
      OBVIOUS
    <3>1. RowsSay /\ cockpit'.rows = cockpit.rows
      BY <2>1, <2>2 DEF CockpitInv, RowsSay
    <3> QED  BY <2>1, <2>4, <3>1 DEF RowsSay
  <2>10. cockpit.pc \in SourceRead => SourceSays'
    BY <2>1, <2>2, <2>3 DEF CockpitInv, SourceSays
  <2>11. cockpit.pc \in ArtifactsRead => ArtifactsSay'
    BY <2>1, <2>2, <2>3 DEF CockpitInv, ArtifactsSay
  <2>12. cockpit.pc \notin DoneRead
    BY <1>2 DEF DoneRead
  <2>13. CockpitInv'
    BY <2>1, <2>2, <2>3, <2>4, <2>6, <2>7, <2>8, <2>9, <2>10, <2>11, <2>12 DEF CockpitInv
  <2> QED  BY <1>1, <1>4, <2>1, <2>2, <2>3, <2>13, AuthoritiesMove DEF HealthInv
<1> QED  BY <1>3, <1>4

-----------------------------------------------------------------------------
\* What With makes of a cockpit.
LEMMA WithIs ==
  ASSUME NEW pc, NEW fields, "pc" \in DOMAIN cockpit, "pc" \notin DOMAIN fields,
         Health!With(pc, fields)
  PROVE  /\ DOMAIN cockpit' = DOMAIN cockpit \cup DOMAIN fields
         /\ cockpit'.pc = pc
         /\ \A f \in DOMAIN fields : cockpit'[f] = fields[f]
         /\ \A f \in DOMAIN cockpit \ (DOMAIN fields \cup {"pc"}) : cockpit'[f] = cockpit[f]
BY DEF Health!With

LEMMA TypeKeeps == ASSUME HealthType, UNCHANGED Health!authorities PROVE HealthType'
BY DEF HealthType, Health!TypeOK, Health!authorities

\* What was gathered stays, when a step gathers something else.
LEMMA GatheredKeeps ==
  ASSUME HealthAssumption, HealthInv, "allowed" \in DOMAIN cockpit, UNCHANGED Health!authorities,
         NEW pc, NEW fields, Health!With(pc, fields),
         {"pc", "jobs", "bytes", "began", "allowed"} \cap DOMAIN fields = {}
  PROVE  /\ DOMAIN cockpit' = DOMAIN cockpit \cup DOMAIN fields
         /\ cockpit'.pc = pc
         /\ \A f \in DOMAIN fields : cockpit'[f] = fields[f]
         /\ HealthType' /\ Holds'
         /\ "receipts" \notin DOMAIN fields => ReceiptsSay'
         /\ "now" \notin DOMAIN fields /\ "now" \in DOMAIN cockpit => cockpit'.now = cockpit.now
         /\ "worker" \notin DOMAIN fields /\ WorkerSays => WorkerSays'
         /\ "rows" \notin DOMAIN fields /\ RowsSay => RowsSay'
         /\ {"source", "record"} \cap DOMAIN fields = {} /\ SourceSays => SourceSays'
         /\ "artifacts" \notin DOMAIN fields /\ ArtifactsSay => ArtifactsSay'
         /\ tick' = tick /\ jobs' = jobs
         /\ cockpit'.began = cockpit.began /\ cockpit'.jobs = cockpit.jobs
         /\ cockpit'.bytes = cockpit.bytes /\ cockpit'.allowed = cockpit.allowed
<1>1. /\ HealthType /\ "pc" \in DOMAIN cockpit /\ Holds /\ ReceiptsSay
  BY DEF HealthInv, CockpitInv
<1>2. UNCHANGED <<tick, jobs, feed, bytes, gates, promoted, granted>>
  BY DEF Health!authorities
<1>3. /\ DOMAIN cockpit' = DOMAIN cockpit \cup DOMAIN fields
      /\ cockpit'.pc = pc
      /\ \A f \in DOMAIN fields : cockpit'[f] = fields[f]
      /\ \A f \in DOMAIN cockpit \ (DOMAIN fields \cup {"pc"}) : cockpit'[f] = cockpit[f]
  BY <1>1, WithIs
<1>4. /\ cockpit'.began = cockpit.began /\ cockpit'.jobs = cockpit.jobs
      /\ cockpit'.bytes = cockpit.bytes /\ cockpit'.allowed = cockpit.allowed
  BY <1>1, <1>3 DEF Holds
<1>5. HealthType'
  BY <1>1, TypeKeeps
<1>6. \A j : Mended(j)' <=> Mended(j)
  BY <1>2, <1>4 DEF Mended
<1>7. Holds'
  BY <1>1, <1>2, <1>3, <1>4, <1>6 DEF Holds, Health!Lapsed
<1>8. "receipts" \notin DOMAIN fields => ReceiptsSay'
  BY <1>1, <1>2, <1>3 DEF ReceiptsSay
<1>9. "worker" \notin DOMAIN fields /\ WorkerSays => WorkerSays'
  BY <1>2, <1>3, <1>4, <1>6 DEF WorkerSays, Health!Lapsed, Health!Terminal
<1>10. "rows" \notin DOMAIN fields /\ RowsSay => RowsSay'
  BY <1>2, <1>3 DEF RowsSay
<1>11. {"source", "record"} \cap DOMAIN fields = {} /\ SourceSays => SourceSays'
  BY <1>3, <1>4 DEF SourceSays
<1>12. "artifacts" \notin DOMAIN fields /\ ArtifactsSay => ArtifactsSay'
  BY <1>3, <1>4 DEF ArtifactsSay
<1> QED
  BY <1>2, <1>3, <1>4, <1>5, <1>7, <1>8, <1>9, <1>10, <1>11, <1>12

LEMMA ReadKeeps ==
  ASSUME HealthAssumption, HealthInv, Health!Read, UNCHANGED Health!authorities
  PROVE  HealthInv'
<1>1. /\ cockpit' = [pc |-> "postgres", began |-> tick, jobs |-> jobs, bytes |-> bytes, allowed |-> granted]
      /\ UNCHANGED <<tick, jobs, feed, bytes, gates, promoted, granted>>
  BY DEF Health!Read, Health!authorities
<1>2. HealthType /\ HealthType'
  BY TypeKeeps DEF HealthInv
<1>3. Holds'
  BY <1>1, <1>2 DEF Holds, HealthType, Health!TypeOK, Health!Lapsed
<1> QED
  BY <1>1, <1>2, <1>3 DEF HealthInv, CockpitInv, ReceiptsSay, Asked, WorkerRead, RowsRead, SourceRead,
                          ArtifactsRead, DoneRead

\* At a step of a cockpit.
LEMMA Asks ==
  ASSUME HealthInv, cockpit.pc \in Asked \ {"done"}
  PROVE  "allowed" \in DOMAIN cockpit /\ CockpitInv /\ HealthType /\ "pc" \in DOMAIN cockpit /\ Holds
BY DEF HealthInv, Asked, WorkerRead, RowsRead, SourceRead, ArtifactsRead, DoneRead, CockpitInv

LEMMA PostgresKeeps ==
  ASSUME HealthAssumption, HealthInv, NEW reachable \in BOOLEAN, Health!PostgresAxis(reachable),
         UNCHANGED Health!authorities
  PROVE  HealthInv'
<1> DEFINE time == IF reachable THEN tick ELSE None
           fields == [postgres |-> IF reachable THEN "READY" ELSE "UNAVAILABLE", now |-> time]
<1>1. cockpit.pc = "postgres" /\ Health!With("worker", fields)
  BY DEF Health!PostgresAxis, Health!Stands
<1>2. DOMAIN fields = {"postgres", "now"} /\ fields.now = time
  OBVIOUS
<1> HIDE DEF fields
<1>3. "allowed" \in DOMAIN cockpit /\ CockpitInv /\ HealthType /\ Holds
  BY <1>1, Asks DEF Asked
<1>4. /\ DOMAIN cockpit' = DOMAIN cockpit \cup DOMAIN fields /\ cockpit'.pc = "worker"
      /\ cockpit'.now = time /\ HealthType' /\ Holds' /\ ReceiptsSay' /\ cockpit'.began = cockpit.began
  BY <1>1, <1>2, <1>3, GatheredKeeps
<1>5. time # None => time \in Nat /\ cockpit.began <= time
  BY <1>3 DEF Holds, HealthType, HealthAssumption
<1> HIDE DEF time
<1> QED
  BY <1>2, <1>3, <1>4, <1>5 DEF HealthInv, CockpitInv, Asked, WorkerRead, RowsRead, SourceRead,
                                ArtifactsRead, DoneRead

\* A cockpit whose worker axis could not be read.
LEMMA UnavailableKeeps ==
  ASSUME HealthAssumption, HealthInv, cockpit.pc \in {"worker", "rows"},
         Health!With("source", [worker |-> "UNAVAILABLE", rows |-> << >>]), UNCHANGED Health!authorities
  PROVE  HealthInv'
<1> DEFINE fields == [worker |-> "UNAVAILABLE", rows |-> << >>]
<1>1. Health!With("source", fields)
  OBVIOUS
<1>2. DOMAIN fields = {"worker", "rows"} /\ fields.worker = "UNAVAILABLE" /\ fields.rows = << >>
  OBVIOUS
<1> HIDE DEF fields
<1>3. "allowed" \in DOMAIN cockpit /\ CockpitInv /\ HealthType /\ Holds
  BY Asks DEF Asked, WorkerRead
<1>4. /\ DOMAIN cockpit' = DOMAIN cockpit \cup DOMAIN fields /\ cockpit'.pc = "source"
      /\ cockpit'.worker = "UNAVAILABLE" /\ cockpit'.rows = << >>
      /\ HealthType' /\ Holds' /\ ReceiptsSay' /\ cockpit'.began = cockpit.began
      /\ "now" \in DOMAIN cockpit => cockpit'.now = cockpit.now
  BY <1>1, <1>2, <1>3, GatheredKeeps
<1>5. WorkerSays' /\ RowsSay'
  BY <1>2, <1>4 DEF WorkerSays, RowsSay
<1> QED
  BY <1>2, <1>3, <1>4, <1>5 DEF HealthInv, CockpitInv, Asked, WorkerRead, RowsRead, SourceRead,
                                ArtifactsRead, DoneRead

LEMMA FactsKeeps ==
  ASSUME HealthAssumption, HealthInv, NEW reachable \in BOOLEAN, Health!WorkerFacts(reachable),
         UNCHANGED Health!authorities
  PROVE  HealthInv'
<1>1. cockpit.pc = "worker"
  BY DEF Health!WorkerFacts, Health!Stands
<1>2. CASE Health!With("source", [worker |-> "UNAVAILABLE", rows |-> << >>])
  BY <1>1, <1>2, UnavailableKeeps
<1>3. CASE Health!With("rows", [worker |-> Health!QueueState(jobs, tick), at |-> tick])
  <2> DEFINE state == Health!QueueState(jobs, tick)
             fields == [worker |-> state, at |-> tick]
  <2>1. DOMAIN fields = {"worker", "at"} /\ fields.worker = state /\ fields.at = tick
    OBVIOUS
  <2>2. Health!With("rows", fields)
    BY <1>3
  <2>3. state = "READY" => Health!Terminal(jobs) = {} /\ Health!Lapsed(jobs, tick) = {}
    BY DEF Health!QueueState
  <2> HIDE DEF fields, state
  <2>4. "allowed" \in DOMAIN cockpit /\ CockpitInv /\ HealthType /\ Holds
    BY <1>1, Asks DEF Asked
  <2>9. {"pc", "jobs", "bytes", "began", "allowed"} \cap DOMAIN fields = {}
    BY <2>1
  <2>5. /\ DOMAIN cockpit' = DOMAIN cockpit \cup DOMAIN fields /\ cockpit'.pc = "rows"
        /\ cockpit'.worker = state /\ cockpit'.at = tick
        /\ HealthType' /\ Holds' /\ ReceiptsSay' /\ cockpit'.began = cockpit.began
        /\ cockpit'.jobs = cockpit.jobs
        /\ "now" \in DOMAIN cockpit => cockpit'.now = cockpit.now
    BY <2>1, <2>2, <2>4, <2>9, GatheredKeeps
  <2>8. tick' = tick /\ jobs' = jobs
    BY DEF Health!authorities
  <2>6. WorkerSays'
    <3> SUFFICES ASSUME state = "READY"
                 PROVE  /\ Health!Terminal(cockpit.jobs) = {}
                        /\ \A j \in Health!Lapsed(cockpit.jobs, cockpit.began) : Mended(j)
      BY <2>1, <2>5, <2>8 DEF WorkerSays, Mended, Health!Lapsed, Health!Terminal
    <3>1. /\ tick \in Nat /\ cockpit.began \in Nat /\ cockpit.began <= tick
          /\ jobs \in [Jobs -> Health!Job]
      BY <2>4 DEF Holds, HealthType, Health!TypeOK, HealthAssumption
    <3>2. Health!Terminal(cockpit.jobs) = {}
      BY <2>3, <2>4 DEF Holds, Health!Terminal
    <3>3. ASSUME NEW j \in Health!Lapsed(cockpit.jobs, cockpit.began), jobs[j] = cockpit.jobs[j]
          PROVE  FALSE
      <4>1. j \in Jobs /\ jobs[j].status = "RUNNING" /\ jobs[j].lease <= cockpit.began
        BY <3>3 DEF Health!Lapsed
      <4>2. jobs[j].lease <= tick
        BY <3>1, <4>1 DEF Health!Job
      <4> QED  BY <2>3, <4>1, <4>2 DEF Health!Lapsed
    <3> QED  BY <2>4, <3>2, <3>3 DEF Holds
  <2>7. tick \in 0 .. tick'
    BY <2>4, <2>8 DEF HealthType, HealthAssumption
  <2> QED
    BY <1>1, <2>1, <2>4, <2>5, <2>6, <2>7, <2>8 DEF HealthInv, CockpitInv, Asked, WorkerRead, RowsRead,
                                        SourceRead, ArtifactsRead, DoneRead
<1> QED  BY <1>2, <1>3, Zenon DEF Health!WorkerFacts

LEMMA RowsKeeps ==
  ASSUME HealthAssumption, HealthInv, NEW reachable \in BOOLEAN, Health!WorkerRows(reachable),
         UNCHANGED Health!authorities
  PROVE  HealthInv'
<1>1. cockpit.pc = "rows"
  BY DEF Health!WorkerRows, Health!Stands
<1>2. CASE Health!With("source", [worker |-> "UNAVAILABLE", rows |-> << >>])
  BY <1>1, <1>2, UnavailableKeeps
<1>3. CASE Health!With("receipts", [rows |-> [j \in Jobs |->
             [status |-> jobs[j].status, lease |-> Health!LeaseState(jobs[j], cockpit.at),
              was |-> jobs[j].lease]]])
  <2> DEFINE rows == [j \in Jobs |->
               [status |-> jobs[j].status, lease |-> Health!LeaseState(jobs[j], cockpit.at),
                was |-> jobs[j].lease]]
             fields == [rows |-> rows]
  <2>1. DOMAIN fields = {"rows"} /\ fields.rows = rows
    OBVIOUS
  <2>2. Health!With("receipts", fields)
    BY <1>3
  <2> HIDE DEF fields
  <2>3. "allowed" \in DOMAIN cockpit /\ CockpitInv /\ HealthType /\ WorkerSays
    BY <1>1, Asks DEF Asked, WorkerRead, CockpitInv
  <2>4. ASSUME NEW j \in Jobs, rows[j].lease = "EXPIRED"
        PROVE  rows[j].was \in Nat /\ rows[j].was <= tick
    <3>1. rows[j].was = jobs[j].lease /\ Health!LeaseState(jobs[j], cockpit.at) = "EXPIRED"
      BY <2>4
    <3>2. jobs[j].lease <= cockpit.at
      BY <3>1 DEF Health!LeaseState
    <3>3. jobs[j].lease \in Nat /\ cockpit.at \in 0 .. tick /\ tick \in Nat
      BY <1>1, <2>3 DEF CockpitInv, HealthType, Health!TypeOK, Health!Job, HealthAssumption
    <3> QED  BY <3>1, <3>2, <3>3
  <2>5. DOMAIN rows = Jobs
    OBVIOUS
  <2> HIDE DEF rows
  <2>9. {"pc", "jobs", "bytes", "began", "allowed"} \cap DOMAIN fields = {}
    BY <2>1
  <2>6. /\ DOMAIN cockpit' = DOMAIN cockpit \cup DOMAIN fields /\ cockpit'.pc = "receipts"
        /\ cockpit'.rows = rows /\ WorkerSays'
        /\ HealthType' /\ Holds' /\ ReceiptsSay' /\ cockpit'.began = cockpit.began
        /\ "now" \in DOMAIN cockpit => cockpit'.now = cockpit.now
    BY <2>1, <2>2, <2>3, <2>9, GatheredKeeps
  <2>8. tick' = tick /\ jobs' = jobs
    BY DEF Health!authorities
  <2>7. RowsSay'
    BY <2>1, <2>4, <2>5, <2>6, <2>8 DEF RowsSay
  <2> QED
    BY <1>1, <2>1, <2>3, <2>6, <2>7 DEF HealthInv, CockpitInv, Asked, WorkerRead, RowsRead,
                                        SourceRead, ArtifactsRead, DoneRead
<1> QED  BY <1>2, <1>3, Zenon DEF Health!WorkerRows

LEMMA ReceiptsKeeps ==
  ASSUME HealthAssumption, HealthInv, NEW reachable \in BOOLEAN, Health!WorkerReceipts(reachable),
         UNCHANGED Health!authorities
  PROVE  HealthInv'
<1> DEFINE found == IF reachable THEN {j \in Jobs : jobs[j].effect} ELSE {}
           fields == [receipts |-> found]
<1>1. cockpit.pc = "receipts" /\ Health!With("source", fields)
  BY DEF Health!WorkerReceipts, Health!Stands
<1>2. DOMAIN fields = {"receipts"} /\ fields.receipts = found
  OBVIOUS
<1>3. found \subseteq Jobs /\ \A j \in found : jobs[j].effect
  OBVIOUS
<1> HIDE DEF fields, found
<1>4. "allowed" \in DOMAIN cockpit /\ CockpitInv /\ WorkerSays /\ RowsSay
  BY <1>1, Asks DEF Asked, WorkerRead, CockpitInv
<1>5. /\ DOMAIN cockpit' = DOMAIN cockpit \cup DOMAIN fields /\ cockpit'.pc = "source"
      /\ cockpit'.receipts = found /\ WorkerSays' /\ RowsSay'
      /\ HealthType' /\ Holds' /\ cockpit'.began = cockpit.began
      /\ "now" \in DOMAIN cockpit => cockpit'.now = cockpit.now
  BY <1>1, <1>2, <1>4, GatheredKeeps
<1>6. ReceiptsSay'
  BY <1>3, <1>5 DEF ReceiptsSay, Health!authorities
<1> QED
  BY <1>1, <1>2, <1>4, <1>5, <1>6 DEF HealthInv, CockpitInv, Asked, WorkerRead, RowsRead, SourceRead,
                                ArtifactsRead, DoneRead

\* A source axis that could not be read.
LEMMA SourcelessKeeps ==
  ASSUME HealthAssumption, HealthInv, cockpit.pc \in {"source", "snapshot"},
         Health!With("artifacts", [source |-> "UNAVAILABLE"]), UNCHANGED Health!authorities
  PROVE  HealthInv'
<1> DEFINE fields == [source |-> "UNAVAILABLE"]
<1>1. Health!With("artifacts", fields)
  OBVIOUS
<1>2. DOMAIN fields = {"source"} /\ fields.source = "UNAVAILABLE"
  OBVIOUS
<1> HIDE DEF fields
<1>3. /\ "allowed" \in DOMAIN cockpit /\ CockpitInv /\ WorkerSays /\ RowsSay
      /\ {"pc", "jobs", "bytes", "began", "allowed"} \cap DOMAIN fields = {}
  BY <1>2, Asks DEF Asked, WorkerRead, RowsRead, CockpitInv
<1>4. /\ DOMAIN cockpit' = DOMAIN cockpit \cup DOMAIN fields /\ cockpit'.pc = "artifacts"
      /\ cockpit'.source = "UNAVAILABLE"
      /\ HealthType' /\ Holds' /\ ReceiptsSay' /\ cockpit'.began = cockpit.began
      /\ "now" \in DOMAIN cockpit => cockpit'.now = cockpit.now
      /\ WorkerSays' /\ RowsSay'
  BY <1>1, <1>2, <1>3, GatheredKeeps
<1>5. SourceSays'
  BY <1>2, <1>4 DEF SourceSays
<1> QED
  BY <1>2, <1>3, <1>4, <1>5 DEF HealthInv, CockpitInv, Asked, WorkerRead, RowsRead, SourceRead,
                                ArtifactsRead, DoneRead

LEMMA SourceCapabilityKeeps ==
  ASSUME HealthAssumption, HealthInv, NEW reachable \in BOOLEAN, Health!SourceCapability(reachable),
         UNCHANGED Health!authorities
  PROVE  HealthInv'
<1>1. cockpit.pc = "source"
  BY DEF Health!SourceCapability, Health!Stands
<1>2. CASE Health!With("artifacts", [source |-> "UNAVAILABLE"])
  BY <1>1, <1>2, SourcelessKeeps
<1>3. CASE "source" \in granted /\ feed # None /\ Health!With("snapshot", [record |-> feed])
  <2> DEFINE fields == [record |-> feed]
  <2>1. DOMAIN fields = {"record"} /\ fields.record = feed
    OBVIOUS
  <2>2. Health!With("snapshot", fields)
    BY <1>3
  <2> HIDE DEF fields
  <2>3. /\ "allowed" \in DOMAIN cockpit /\ CockpitInv /\ WorkerSays /\ RowsSay
        /\ {"pc", "jobs", "bytes", "began", "allowed"} \cap DOMAIN fields = {}
    BY <1>1, <2>1, Asks DEF Asked, WorkerRead, RowsRead, CockpitInv
  <2>4. /\ DOMAIN cockpit' = DOMAIN cockpit \cup DOMAIN fields /\ cockpit'.pc = "snapshot"
        /\ cockpit'.record = feed
        /\ HealthType' /\ Holds' /\ ReceiptsSay' /\ cockpit'.began = cockpit.began
        /\ "now" \in DOMAIN cockpit => cockpit'.now = cockpit.now
        /\ WorkerSays' /\ RowsSay' /\ cockpit'.allowed = cockpit.allowed
    BY <2>1, <2>2, <2>3, GatheredKeeps
  <2>5. feed \in Health!Source /\ "source" \in cockpit.allowed
    BY <1>3, <2>3 DEF HealthInv, HealthType, Health!TypeOK, CockpitInv, Holds
  <2> QED
    BY <1>1, <2>1, <2>3, <2>4, <2>5 DEF HealthInv, CockpitInv, Asked, WorkerRead, RowsRead,
                                        SourceRead, ArtifactsRead, DoneRead
<1> QED  BY <1>2, <1>3, Zenon DEF Health!SourceCapability, Health!MaySee

LEMMA SourceSnapshotKeeps ==
  ASSUME HealthAssumption, HealthInv, NEW reachable \in BOOLEAN, Health!SourceSnapshot(reachable),
         UNCHANGED Health!authorities
  PROVE  HealthInv'
<1>1. cockpit.pc = "snapshot"
  BY DEF Health!SourceSnapshot, Health!Stands
<1>2. CASE Health!With("artifacts", [source |-> "UNAVAILABLE"])
  BY <1>1, <1>2, SourcelessKeeps
<1>3. CASE Health!With("artifacts", [source |->
             Health!SourceState(cockpit.record, IF cockpit.now = None THEN tick ELSE cockpit.now)])
  <2> DEFINE time == IF cockpit.now = None THEN tick ELSE cockpit.now
             state == Health!SourceState(cockpit.record, time)
             fields == [source |-> state]
  <2>1. DOMAIN fields = {"source"} /\ fields.source = state
    OBVIOUS
  <2>2. Health!With("artifacts", fields)
    BY <1>3
  <2> HIDE DEF fields
  <2>3. /\ "allowed" \in DOMAIN cockpit /\ CockpitInv /\ WorkerSays /\ RowsSay /\ HealthType /\ Holds
        /\ {"pc", "jobs", "bytes", "began", "allowed"} \cap DOMAIN fields = {}
        /\ cockpit.record \in Health!Source /\ "record" \in DOMAIN cockpit /\ "source" \in cockpit.allowed
    BY <1>1, <2>1, Asks DEF Asked, WorkerRead, RowsRead, CockpitInv
  <2>4. time \in Nat /\ cockpit.began \in Nat /\ cockpit.began <= time
    BY <1>1, <2>3 DEF CockpitInv, Holds, WorkerRead, RowsRead, HealthType, HealthAssumption
  <2> HIDE DEF time
  <2>5. state = "READY" =>
          cockpit.record.state = "READY" /\ cockpit.began - cockpit.record.available <= Freshness
    <3> SUFFICES ASSUME state = "READY"
                 PROVE  cockpit.record.state = "READY" /\ cockpit.began - cockpit.record.available <= Freshness
      OBVIOUS
    <3>2. cockpit.record.available \in Nat
      BY <2>3 DEF Health!Source
    <3>1. cockpit.record.state = "READY" /\ ~(time - cockpit.record.available > Freshness)
      BY <2>4, <3>2 DEF Health!SourceState
    <3> QED  BY <2>4, <3>1, <3>2 DEF HealthAssumption
  <2> HIDE DEF state
  <2>6. /\ DOMAIN cockpit' = DOMAIN cockpit \cup DOMAIN fields /\ cockpit'.pc = "artifacts"
        /\ cockpit'.source = state
        /\ HealthType' /\ Holds' /\ ReceiptsSay' /\ cockpit'.began = cockpit.began
        /\ "now" \in DOMAIN cockpit => cockpit'.now = cockpit.now
        /\ WorkerSays' /\ RowsSay' /\ cockpit'.allowed = cockpit.allowed
    BY <2>1, <2>2, <2>3, GatheredKeeps
  <2>7. cockpit'.record = cockpit.record
    BY <2>1, <2>2, <2>3, WithIs DEF HealthInv
  <2>8. SourceSays'
    BY <2>1, <2>3, <2>5, <2>6, <2>7 DEF SourceSays
  <2> QED
    BY <1>1, <2>1, <2>3, <2>6, <2>8 DEF HealthInv, CockpitInv, Asked, WorkerRead, RowsRead,
                                        SourceRead, ArtifactsRead, DoneRead
<1> QED  BY <1>2, <1>3, Zenon DEF Health!SourceSnapshot

LEMMA ArtifactKeeps ==
  ASSUME HealthAssumption, HealthInv, NEW reachable \in BOOLEAN, Health!ArtifactAxis(reachable),
         UNCHANGED Health!authorities
  PROVE  HealthInv'
<1> DEFINE state == IF ~Health!MaySee("artifacts") \/ ~reachable THEN "UNAVAILABLE"
                    ELSE IF Health!Failed(bytes) # {} THEN "ERROR" ELSE "READY"
           fields == [artifacts |-> state]
<1>1. cockpit.pc = "artifacts" /\ Health!With("family", fields)
  BY DEF Health!ArtifactAxis, Health!Stands
<1>2. DOMAIN fields = {"artifacts"} /\ fields.artifacts = state
  OBVIOUS
<1>3. /\ state = "READY" => Health!Failed(bytes) = {}
      /\ state # "UNAVAILABLE" => "artifacts" \in granted
  BY DEF Health!MaySee
<1> HIDE DEF fields, state
<1>4. /\ "allowed" \in DOMAIN cockpit /\ CockpitInv /\ WorkerSays /\ RowsSay /\ SourceSays /\ Holds
      /\ {"pc", "jobs", "bytes", "began", "allowed"} \cap DOMAIN fields = {}
  BY <1>1, <1>2, Asks DEF Asked, WorkerRead, RowsRead, SourceRead, CockpitInv
<1>5. /\ DOMAIN cockpit' = DOMAIN cockpit \cup DOMAIN fields /\ cockpit'.pc = "family"
      /\ cockpit'.artifacts = state
      /\ HealthType' /\ Holds' /\ ReceiptsSay' /\ cockpit'.began = cockpit.began
      /\ "now" \in DOMAIN cockpit => cockpit'.now = cockpit.now
      /\ WorkerSays' /\ RowsSay' /\ SourceSays'
      /\ cockpit'.allowed = cockpit.allowed /\ cockpit'.bytes = cockpit.bytes
  BY <1>1, <1>2, <1>4, GatheredKeeps
<1>6. state = "READY" => \A x \in Inspected : cockpit.bytes[x] = "sound"
  BY <1>3, <1>4 DEF Holds, Health!Failed, HealthAssumption
<1>7. state # "UNAVAILABLE" => "artifacts" \in cockpit.allowed
  BY <1>3, <1>4 DEF Holds
<1>8. ArtifactsSay'
  BY <1>2, <1>5, <1>6, <1>7 DEF ArtifactsSay
<1> QED
  BY <1>1, <1>2, <1>4, <1>5, <1>8 DEF HealthInv, CockpitInv, Asked, WorkerRead, RowsRead, SourceRead,
                                ArtifactsRead, DoneRead

LEMMA QualificationKeeps ==
  ASSUME HealthAssumption, HealthInv, NEW reachable \in BOOLEAN, Health!QualificationAxis(reachable),
         UNCHANGED Health!authorities
  PROVE  HealthInv'
<1> DEFINE state == IF Health!MaySee("family") /\ reachable THEN Health!QualificationState
                    ELSE "UNAVAILABLE"
           fields == [family |-> state]
<1>1. cockpit.pc = "family" /\ Health!With("done", fields)
  BY DEF Health!QualificationAxis, Health!Stands
<1>2. DOMAIN fields = {"family"} /\ fields.family = state
  OBVIOUS
<1>3. state # "UNAVAILABLE" => "family" \in granted
  BY DEF Health!MaySee
<1> HIDE DEF fields, state
<1>4. /\ "allowed" \in DOMAIN cockpit /\ CockpitInv /\ WorkerSays /\ RowsSay /\ SourceSays
      /\ ArtifactsSay /\ Holds
      /\ {"pc", "jobs", "bytes", "began", "allowed"} \cap DOMAIN fields = {}
  BY <1>1, <1>2, Asks DEF Asked, WorkerRead, RowsRead, SourceRead, ArtifactsRead, CockpitInv
<1>5. /\ DOMAIN cockpit' = DOMAIN cockpit \cup DOMAIN fields /\ cockpit'.pc = "done"
      /\ cockpit'.family = state
      /\ HealthType' /\ Holds' /\ ReceiptsSay' /\ cockpit'.began = cockpit.began
      /\ "now" \in DOMAIN cockpit => cockpit'.now = cockpit.now
      /\ WorkerSays' /\ RowsSay' /\ SourceSays' /\ ArtifactsSay'
      /\ cockpit'.allowed = cockpit.allowed
  BY <1>1, <1>2, <1>4, GatheredKeeps
<1>6. FamilySays'
  BY <1>2, <1>3, <1>4, <1>5 DEF FamilySays, Holds
<1> QED
  BY <1>1, <1>2, <1>4, <1>5, <1>6 DEF HealthInv, CockpitInv, Asked, WorkerRead, RowsRead, SourceRead,
                                ArtifactsRead, DoneRead

-----------------------------------------------------------------------------
LEMMA StatusKeeps ==
  ASSUME HealthAssumption, HealthInv, NEW reachable \in BOOLEAN, UNCHANGED Health!authorities,
         Health!Connect(reachable) \/ Health!StatusArtifacts(reachable) \/ Health!StatusWorker(reachable)
  PROVE  HealthInv'
<1>1. HealthType /\ HealthType' /\ bytes' = bytes /\ "pc" \in DOMAIN cockpit
  BY TypeKeeps DEF HealthInv, Health!authorities
<1>2. CASE Health!Connect(reachable)
  <2>1. CASE cockpit' = [pc |-> "verify", jobs |-> jobs, bytes |-> bytes]
    BY <1>1, <2>1 DEF HealthInv, StatusInv, HealthType, Health!TypeOK
  <2>2. CASE cockpit' = [pc |-> "done", artifacts |-> "UNAVAILABLE", worker |-> "UNAVAILABLE"]
    BY <1>1, <2>2 DEF HealthInv, StatusInv
  <2> QED  BY <1>2, <2>1, <2>2, Zenon DEF Health!Connect
<1>3. CASE Health!StatusArtifacts(reachable)
  <2> DEFINE state == IF ~reachable THEN "UNAVAILABLE"
                      ELSE IF \E x \in Blobs : bytes[x] = "failed" THEN "ERROR" ELSE "READY"
             fields == [artifacts |-> state]
  <2>1. cockpit.pc = "verify" /\ Health!With("count", fields)
    BY <1>3 DEF Health!StatusArtifacts, Health!Stands
  <2>2. DOMAIN fields = {"artifacts"} /\ fields.artifacts = state
    OBVIOUS
  <2>3. state = "READY" => \A x \in Blobs : bytes[x] # "failed"
    OBVIOUS
  <2> HIDE DEF fields, state
  <2>4. "allowed" \notin DOMAIN cockpit /\ StatusInv
    BY <2>1 DEF HealthInv, Asked, WorkerRead, RowsRead, SourceRead, ArtifactsRead, DoneRead
  <2>5. /\ DOMAIN cockpit' = DOMAIN cockpit \cup DOMAIN fields /\ cockpit'.pc = "count"
        /\ cockpit'.artifacts = state
        /\ cockpit'.jobs = cockpit.jobs /\ cockpit'.bytes = cockpit.bytes
    <3>1. /\ DOMAIN cockpit' = DOMAIN cockpit \cup DOMAIN fields /\ cockpit'.pc = "count"
          /\ \A f \in DOMAIN fields : cockpit'[f] = fields[f]
          /\ \A f \in DOMAIN cockpit \ (DOMAIN fields \cup {"pc"}) : cockpit'[f] = cockpit[f]
      BY <1>1, <2>1, <2>2, WithIs
    <3> QED  BY <2>1, <2>2, <2>4, <3>1 DEF StatusInv
  <2>6. state = "READY" => \A x \in Blobs : cockpit.bytes[x] = "sound"
    BY <2>1, <2>3, <2>4 DEF StatusInv
  <2> QED  BY <1>1, <2>1, <2>2, <2>4, <2>5, <2>6 DEF HealthInv, StatusInv
<1>4. CASE Health!StatusWorker(reachable)
  <2> DEFINE state == IF reachable THEN Health!QueueState(cockpit.jobs, tick) ELSE "UNAVAILABLE"
             fields == [worker |-> state]
  <2>1. cockpit.pc = "count" /\ Health!With("done", fields)
    BY <1>4 DEF Health!StatusWorker, Health!Stands
  <2>2. DOMAIN fields = {"worker"} /\ fields.worker = state
    OBVIOUS
  <2>3. state = "READY" => Health!Terminal(cockpit.jobs) = {}
    BY DEF Health!QueueState
  <2> HIDE DEF fields, state
  <2>4. "allowed" \notin DOMAIN cockpit /\ StatusInv
    BY <2>1 DEF HealthInv, Asked, WorkerRead, RowsRead, SourceRead, ArtifactsRead, DoneRead
  <2>5. /\ DOMAIN cockpit' = DOMAIN cockpit \cup DOMAIN fields /\ cockpit'.pc = "done"
        /\ cockpit'.worker = state /\ cockpit'.artifacts = cockpit.artifacts
        /\ cockpit'.jobs = cockpit.jobs /\ cockpit'.bytes = cockpit.bytes
    <3>1. /\ DOMAIN cockpit' = DOMAIN cockpit \cup DOMAIN fields /\ cockpit'.pc = "done"
          /\ \A f \in DOMAIN fields : cockpit'[f] = fields[f]
          /\ \A f \in DOMAIN cockpit \ (DOMAIN fields \cup {"pc"}) : cockpit'[f] = cockpit[f]
      BY <1>1, <2>1, <2>2, WithIs
    <3> QED  BY <2>1, <2>2, <2>4, <3>1 DEF StatusInv
  <2>6. Health!Terminal(cockpit.jobs)' = Health!Terminal(cockpit.jobs)
    BY <2>5 DEF Health!Terminal
  <2> QED  BY <1>1, <2>1, <2>2, <2>3, <2>4, <2>5, <2>6 DEF HealthInv, StatusInv
<1> QED  BY <1>2, <1>3, <1>4

LEMMA HealthKeep ==
  ASSUME HealthAssumption
  PROVE  HealthInv /\ (Health!Next \/ UNCHANGED healthVars) => HealthInv'
<1> SUFFICES ASSUME HealthInv, Health!Next \/ UNCHANGED healthVars PROVE HealthInv'
  OBVIOUS
<1>1. CASE Health!Authorities
  BY <1>1, AuthoritiesKeep
<1>2. CASE Health!Cockpit
  <2>1. UNCHANGED Health!authorities
    BY <1>2 DEF Health!Cockpit
  <2>2. CASE Health!Read
    BY <2>1, <2>2, ReadKeeps
  <2>3. ASSUME NEW reachable \in BOOLEAN,
               \/ Health!PostgresAxis(reachable) \/ Health!WorkerFacts(reachable)
               \/ Health!WorkerRows(reachable) \/ Health!WorkerReceipts(reachable)
               \/ Health!SourceCapability(reachable) \/ Health!SourceSnapshot(reachable)
               \/ Health!ArtifactAxis(reachable) \/ Health!QualificationAxis(reachable)
        PROVE  HealthInv'
    BY <2>1, <2>3, PostgresKeeps, FactsKeeps, RowsKeeps, ReceiptsKeeps, SourceCapabilityKeeps,
       SourceSnapshotKeeps, ArtifactKeeps, QualificationKeeps
  <2> QED  BY <1>2, <2>2, <2>3 DEF Health!Cockpit
<1>3. CASE Health!Status
  BY <1>3, StatusKeeps DEF Health!Status
<1>4. CASE UNCHANGED healthVars
  <2>1. UNCHANGED <<tick, jobs, feed, bytes, gates, promoted, granted, cockpit>>
    BY <1>4 DEF healthVars
  <2>2. HealthType'
    BY <2>1, TypeKeeps DEF HealthInv, Health!authorities
  <2>3. CockpitInv' <=> CockpitInv
    BY <2>1 DEF CockpitInv, Holds, ReceiptsSay, WorkerSays, RowsSay, SourceSays, ArtifactsSay,
                FamilySays, Mended, Health!Lapsed, Health!Terminal
  <2>4. StatusInv' <=> StatusInv
    BY <2>1 DEF StatusInv, Health!Terminal
  <2> QED  BY <2>1, <2>2, <2>3, <2>4 DEF HealthInv
<1> QED  BY <1>1, <1>2, <1>3, <1>4 DEF Health!Next

LEMMA AdvisoryImply ==
  ASSUME AdvisoryInv PROVE Advisory!TypeOK /\ Advisory!VersionsAreContents
BY DEF AdvisoryInv, Advisory!TypeOK

LEMMA OfflineImply == ASSUME OfflineInv PROVE Offline!OfflineIsSound
BY DEF OfflineInv, OfflineType, Offline!OfflineIsSound

-----------------------------------------------------------------------------
\* The pages of a retained query are one answer of one instant, each read under
\* the revision that it was selected under, and none is skipped (list_attention
\* over postgresql_reads.py).
THEOREM OneAnswer == Spec => []PagesAreOneAnswer
<1>1. Init => PagesInv
  BY PagesInit, ReadSideAssumption DEF Init
<1>2. PagesInv /\ [Next]_vars => PagesInv'
  BY PagesKeep, ComponentSteps, ReadSideAssumption
<1>3. PagesInv => PagesAreOneAnswer
  BY PagesImply, ReadSideAssumption DEF PagesAreOneAnswer
<1> QED  BY <1>1, <1>2, <1>3, PTL DEF Spec

\* No publication is lost, none overwrites one that it has not seen, and a
\* bundle shows a revision beside the version that there was with it (publish and
\* the bundle reads of postgresql_reads.py).
THEOREM Linearity == Spec => []HeadsAreLinear
<1>1. Init => HeadsInv
  BY HeadsInit, ReadSideAssumption DEF Init
<1>2. HeadsInv /\ [Next]_vars => HeadsInv'
  BY HeadsKeep, ComponentSteps, ReadSideAssumption
<1>3. HeadsInv => HeadsAreLinear
  BY HeadsImply, ReadSideAssumption DEF HeadsAreLinear
<1> QED  BY <1>1, <1>2, <1>3, PTL DEF Spec

\* The capability row is that of the latest snapshot and READY is earned, whatever
\* two publishers do (source_ingress), and what the cockpit and the status say of
\* it, of the queue, the artifacts and the gates was so when they were asked
\* (operations_health).
THEOREM Capabilities == Spec => []CapabilityIsEarned
<1>1. Init => IngressInv /\ HealthInv
  BY IngressInit, HealthInit, ReadSideAssumption DEF Init
<1>2. IngressInv /\ HealthInv /\ [Next]_vars => IngressInv' /\ HealthInv'
  BY IngressKeep, HealthKeep, ComponentSteps, ReadSideAssumption
<1>3. IngressInv /\ HealthInv => CapabilityIsEarned
  BY IngressImplies, HealthImplies, ReadSideAssumption DEF CapabilityIsEarned
<1> QED  BY <1>1, <1>2, <1>3, PTL DEF Spec

\* However threads, adapters, busy timeouts and crashes interleave, the file holds
\* one revision of each version, one event and one receipt of each command, and
\* groups are read whole (infrastructure/sqlite.py).
THEOREM OfflineSound == Spec => []OfflineIsSound
<1>1. Init => OfflineInv
  BY OfflineInit, ReadSideAssumption DEF Init
<1>2. OfflineInv /\ [Next]_vars => OfflineInv'
  BY OfflineKeep, ComponentSteps, ReadSideAssumption
<1>3. OfflineInv => OfflineIsSound
  BY OfflineImply, ReadSideAssumption DEF OfflineIsSound
<1> QED  BY <1>1, <1>2, <1>3, PTL DEF Spec

\* The offline store takes the steps of the commands that are accepted and
\* answered at once: its statements, locks and crashes are invisible.
THEOREM OfflineCommands == Spec => StepsAreCommands
<1>1. Init => OfflineInv
  BY OfflineInit, ReadSideAssumption DEF Init
<1>2. OfflineInv /\ [Next]_vars => OfflineInv'
  BY OfflineKeep, ComponentSteps, ReadSideAssumption
<1>3. OfflineInv /\ [Next]_vars => [Offline!Atomic!Next]_<<file.version, file.receipt, told>>
  BY OfflineRefines, ComponentSteps, ReadSideAssumption
<1> QED  BY <1>1, <1>2, <1>3, PTL DEF Spec, StepsAreCommands, Offline!StepsAreCommands

\* However evidence is ordered, repeated and late, the state of a recovery is what
\* its counted samples make of it (recovery.py), and an advisory episode never
\* has one version with two contents (advisory/model.py).
THEOREM CountedOnce == Spec => []EvidenceCountsOnce
<1>1. Init => RecoveryInv /\ AdvisoryInv
  BY RecoveryInit, AdvisoryInit, ReadSideAssumption DEF Init
<1>2. RecoveryInv /\ AdvisoryInv /\ [Next]_vars => RecoveryInv' /\ AdvisoryInv'
  BY RecoveryKeep, AdvisoryKeep, ComponentSteps, ReadSideAssumption
<1>3. RecoveryInv /\ AdvisoryInv => EvidenceCountsOnce
  BY RecoveryImplies, AdvisoryImply, ReadSideAssumption DEF EvidenceCountsOnce
<1> QED  BY <1>1, <1>2, <1>3, PTL DEF Spec

=============================================================================

------------------------------ MODULE ReadHeads ------------------------------
(***************************************************************************)
(* Published revisions and coherent reads: the head half of                *)
(* infrastructure/postgresql_reads.py, the readers of application/         *)
(* episodes.py and the asset reads of infrastructure/postgresql_o3.py.     *)
(*                                                                         *)
(* A revision is immutable; the head of an entity names one and moves by   *)
(* compare-and-set.  A publication stamps known_at when it inserts the     *)
(* revision, and is seen by others when it commits.  Definitions marked    *)
(* "Mistake" are as in QuerySnapshots.                                     *)
(***************************************************************************)
EXTENDS Integers, FiniteSets

CONSTANTS Entities,      \* Episodes; the workflow aggregate has the same id
          Revisions,     \* revision ids that publishers choose
          Publishers, Readers,
          MaxWorkflow, MaxClock,   \* bounds of the model
          None

VARIABLES clock,       \* the database's clock_timestamp()
          workflow,    \* version of each workflow aggregate
          revision,    \* read_revision: committed rows
          head,        \* read_head
          publishing,  \* each publisher's transaction
          reading,     \* each reader's REPEATABLE READ transaction
          bundles,     \* history: the current bundles that were returned
          instants     \* history: the heads and versions that there were at once

vars == <<clock, workflow, revision, head, publishing, reading, bundles, instants>>

\* A row's workflow is the state of the aggregate that the draft was made of.
\* over: the head version that the publisher replaced, 0 if there was none.
Row == [entity : Entities, workflow : 0 .. MaxWorkflow, known : 0 .. MaxClock, over : Nat]
Head == [revision : Revisions, version : Nat \ {0}]

TypeOK ==
  /\ clock \in 0 .. MaxClock
  /\ workflow \in [Entities -> 0 .. MaxWorkflow]
  /\ revision \in [Revisions -> Row \cup {None}]
  /\ head \in [Entities -> Head \cup {None}]
  /\ \A p \in Publishers : publishing[p] # None =>
       publishing[p].revision \in Revisions /\ publishing[p].row \in Row

Init ==
  /\ clock = 0
  /\ workflow = [e \in Entities |-> 0]
  /\ revision = [r \in Revisions |-> None]
  /\ head = [e \in Entities |-> None]
  /\ publishing = [p \in Publishers |-> None]
  /\ reading = [r \in Readers |-> None]
  /\ bundles = {}
  /\ instants = {<<head, workflow>>}

Remember == instants' = instants \cup {<<head', workflow'>>}

Tick ==
  /\ clock < MaxClock
  /\ clock' = clock + 1
  /\ UNCHANGED <<workflow, revision, head, publishing, reading, bundles, instants>>

\* A command on the Episode.
WorkflowMoves(e) ==
  /\ workflow[e] < MaxWorkflow
  /\ workflow' = [workflow EXCEPT ![e] = @ + 1]
  /\ UNCHANGED <<clock, revision, head, publishing, reading, bundles>>
  /\ Remember

-----------------------------------------------------------------------------
\* Publication.

VersionOf(h) == IF h = None THEN 0 ELSE h.version

\* A publisher builds a draft over the workflow aggregate and over the head as
\* it read them, at any time before, and inserts the revision.  A revision id
\* that is taken is a conflict.
InsertRevision(p) ==
  /\ publishing[p] = None
  /\ \E r \in Revisions, e \in Entities, w \in 0 .. MaxWorkflow, seen \in instants :
       /\ revision[r] = None
       /\ w <= workflow[e]
       /\ publishing' = [publishing EXCEPT ![p] =
            [revision |-> r, expected |-> seen[1][e],
             row |-> [entity |-> e, workflow |-> w, known |-> clock,
                      over |-> VersionOf(seen[1][e])]]]
  /\ UNCHANGED <<clock, workflow, revision, head, reading, bundles, instants>>

\* Mistake: the head's revision is compared only when it is given, and its
\* version never.
MatchesRevision(h, expected, byId) ==
  IF expected = None THEN h = None ELSE h # None /\ (byId => h.revision = expected.revision)

\* The UPDATE's condition, or the INSERT's when no head is expected; byId:
\* the caller gave expected_revision_id too.
Matches(h, expected, byId) ==
  IF expected = None THEN h = None
  ELSE /\ h # None
       /\ h.version = expected.version
       /\ byId => h.revision = expected.revision

\* The head row is locked from the UPDATE on, and a revision id from its
\* INSERT on: the second of two publishers waits, and finds what the first
\* has committed.  So the conditional statement and COMMIT are one step.
PublishRevision(p) ==
  /\ publishing[p] # None
  /\ LET r == publishing[p].revision
         e == publishing[p].row.entity
         expected == publishing[p].expected
     IN /\ revision[r] = None
        /\ \E byId \in BOOLEAN : Matches(head[e], expected, byId)
        /\ revision' = [revision EXCEPT ![r] = publishing[p].row]
        /\ head' = [head EXCEPT ![e] = [revision |-> r, version |-> VersionOf(@) + 1]]
  /\ publishing' = [publishing EXCEPT ![p] = None]
  /\ UNCHANGED <<clock, workflow, reading, bundles>>
  /\ Remember

\* A taken id, a stale head, a failure or the death of the publisher: nothing
\* of the transaction remains.
RollBack(p) ==
  /\ publishing[p] # None
  /\ publishing' = [publishing EXCEPT ![p] = None]
  /\ UNCHANGED <<clock, workflow, revision, head, reading, bundles, instants>>

-----------------------------------------------------------------------------
\* Reading.

\* read_current_bundle: the snapshot of the database is that of the first
\* statement, which reads the head and its revision.
ReadHead(x, e) ==
  /\ reading[x] = None
  /\ head[e] # None
  /\ reading' = [reading EXCEPT ![x] =
       [entity |-> e, revision |-> head[e].revision, workflow |-> workflow]]
  /\ UNCHANGED <<clock, workflow, revision, head, publishing, bundles, instants>>

\* Mistake: the second statement reads what is committed by then.
ReadCommitted(x) == workflow

\* REPEATABLE READ
Visible(x) == reading[x].workflow

\* The brief of a bundle: the revision's own vector, but for the version of the
\* workflow, which is that of the aggregate beside it.
Brief(e, r, version) == [entity |-> e, revision |-> r, workflow |-> version]

\* The second statement reads the aggregate.
ReadWorkflow(x) ==
  /\ reading[x] # None
  /\ LET e == reading[x].entity IN
       bundles' = bundles \cup {Brief(e, reading[x].revision, Visible(x)[e])}
  /\ reading' = [reading EXCEPT ![x] = None]
  /\ UNCHANGED <<clock, workflow, revision, head, publishing, instants>>

\* fetch_asset_episode_heads: every head beside its aggregate, in one statement.
AssetHeads ==
  {Brief(e, head[e].revision, workflow[e]) : e \in {x \in Entities : head[x] # None}}

ReadAssets ==
  /\ AssetHeads # {}
  /\ bundles' = bundles \cup AssetHeads
  /\ UNCHANGED <<clock, workflow, revision, head, publishing, reading, instants>>

\* fetch_asset_episode_history and fetch_episode_history_window: committed
\* revisions that were known by a cutoff; not cut by a LIMIT here.
KnownBy(cutoff) == {r \in Revisions : revision[r] # None /\ revision[r].known <= cutoff}

-----------------------------------------------------------------------------
Next ==
  \/ Tick
  \/ \E e \in Entities : WorkflowMoves(e)
  \/ \E p \in Publishers : InsertRevision(p) \/ PublishRevision(p) \/ RollBack(p)
  \/ ReadAssets
  \/ \E x \in Readers : ReadWorkflow(x) \/ \E e \in Entities : ReadHead(x, e)

Spec == Init /\ [][Next]_vars

-----------------------------------------------------------------------------
\* No publication is lost: of all publishers that computed over one head, one
\* gets through, and the head is the revision that was published over the last.
Published(e) == {r \in Revisions : revision[r] # None /\ revision[r].entity = e}

HeadsAreLinear ==
  \A e \in Entities :
    /\ \A r, s \in Published(e) : revision[r].over = revision[s].over => r = s
    /\ VersionOf(head[e]) = Cardinality(Published(e))
    /\ \A r \in Published(e) :
         head[e].revision = r <=> revision[r].over = head[e].version - 1

\* What a bundle puts side by side was current side by side: no reader acts on
\* a revision and a version that never were the Episode's at once.
BundlesAreInstants ==
  \A b \in bundles : \E t \in instants :
    t[1][b.entity] # None /\ t[1][b.entity].revision = b.revision /\ t[2][b.entity] = b.workflow

\* Point-in-time replay: what is known by an instant that has passed stays what
\* it was, for whoever asks again.
ReplayIsStable ==
  [][\A cutoff \in 0 .. clock - 1 : KnownBy(cutoff)' = KnownBy(cutoff)]_vars
=============================================================================

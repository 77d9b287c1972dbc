---------------------------- MODULE AssetHistory ----------------------------
(***************************************************************************)
(* Asset 360: application/assets.py on the revisions of Episodes, the      *)
(* receipts of their commands and the snapshots of one metrology source.   *)
(*                                                                         *)
(* All three are immutable rows.  The database's clock stamps revisions    *)
(* and snapshots, the clock of its process stamps a receipt, and each row  *)
(* is seen by others when its transaction commits.  A reader asks for one  *)
(* asset as it was known by a cutoff, in four transactions; it may also    *)
(* list the assets as they are.  Pages of a list are QuerySnapshots'.      *)
(* A workflow state stands for its version and the instants at which its   *)
(* actions were recorded; each command records one.                        *)
(***************************************************************************)
EXTENDS Integers, FiniteSets, FiniteSetsExt

CONSTANTS Drafts,       \* the revisions that may be published
          Snapshots,    \* the source snapshots that may be published
          Points,       \* what the provider has for each snapshot
          Bound,        \* the target that the source binding measures; others are of
                        \* another family or unit
          Questions,    \* what may be asked of an asset
          HistoryLimit, \* MAX_ASSET_HISTORY_REVISIONS
          Skews,        \* how far a process's clock may be ahead
          MaxClock, MaxVersion,   \* bounds of the model; MaxVersion of each Episode
          None

Instants == 0..MaxClock

\* A target is the family, the context, the characteristic and the unit.
Draft == [id: Nat, episode: Nat, asset: STRING, target: STRING]
Snapshot == [id: Nat, available: Instants, rows: BOOLEAN, limit: Instants \cup {None},
             status: {"PUBLISHED", "PARTIAL", "INSUFFICIENT", "QUARANTINED"}]

\* qualified: of the population that the binding compares with.
Point == [snapshot: Nat, asset: STRING, event: Instants, available: Instants, qualified: BOOLEAN]

\* target: asked for, or that of the latest Episode.
Question == [asset: STRING, target: STRING \cup {None}, peer: STRING \cup {None},
             start: Instants, end: Instants, cutoff: Instants]

Episodes == {d.episode : d \in Drafts}

VARIABLES clock,      \* the database's
          revisions,  \* read_revision: drafts with their stamp and workflow version
          receipts,   \* command_receipt of the Episodes' workflows
          snapshots,  \* source_snapshot
          flight,     \* the transaction that has stamped its row and not committed
          inquiry,    \* what the reader has read
          outcome     \* what it has answered; it asks once

vars == <<clock, revisions, receipts, snapshots, flight, inquiry, outcome>>

Init ==
  /\ clock = 0
  /\ revisions = {} /\ receipts = {} /\ snapshots = {}
  /\ flight = None /\ inquiry = None /\ outcome = None

Tick ==
  /\ clock < MaxClock
  /\ clock' = clock + 1
  /\ UNCHANGED <<revisions, receipts, snapshots, flight, inquiry, outcome>>

-----------------------------------------------------------------------------
\* The writers, one at a time between its stamp and its commit.

Version(e) == Max({0} \cup {r.version : r \in {x \in receipts : x.episode = e}})
ActionsOf(e, version) == {r.at : r \in {x \in receipts : x.episode = e /\ x.version <= version}}

\* A draft is of the workflow that its publisher has read.
StampRevision(d) ==
  /\ flight = None
  /\ ~\E r \in revisions : r.id = d.id
  /\ \E v \in 0..Version(d.episode) :
       flight' = [table |-> "read_revision",
                  row |-> [id |-> d.id, episode |-> d.episode, asset |-> d.asset,
                           target |-> d.target, at |-> clock, version |-> v]]
  /\ UNCHANGED <<clock, revisions, receipts, snapshots, inquiry, outcome>>

StampCommand(e) ==
  /\ flight = None
  /\ Version(e) < MaxVersion[e]
  /\ \E ahead \in Skews :
       flight' = [table |-> "command_receipt",
                  row |-> [episode |-> e, version |-> Version(e) + 1, at |-> clock + ahead]]
  /\ UNCHANGED <<clock, revisions, receipts, snapshots, inquiry, outcome>>

StampSnapshot(s) ==
  /\ flight = None
  /\ ~\E x \in snapshots : x.of = s
  /\ s.available <= clock
  /\ flight' = [table |-> "source_snapshot", row |-> [of |-> s, at |-> clock]]
  /\ UNCHANGED <<clock, revisions, receipts, snapshots, inquiry, outcome>>

\* History: settled, when no row that is stamped by the cutoff has come later.
Disturbed(answer, at) ==
  IF answer # None /\ at <= answer.cutoff THEN [answer EXCEPT !.settled = FALSE] ELSE answer

Commit ==
  /\ flight # None
  /\ revisions' = revisions \cup (IF flight.table = "read_revision" THEN {flight.row} ELSE {})
  /\ receipts' = receipts \cup (IF flight.table = "command_receipt" THEN {flight.row} ELSE {})
  /\ snapshots' = snapshots \cup (IF flight.table = "source_snapshot" THEN {flight.row} ELSE {})
  /\ flight' = None
  /\ inquiry' = Disturbed(inquiry, flight.row.at)
  /\ outcome' = Disturbed(outcome, flight.row.at)
  /\ UNCHANGED clock

\* A conflict, a failure or the death of the writer.
RollBack ==
  /\ flight # None
  /\ flight' = None
  /\ UNCHANGED <<clock, revisions, receipts, snapshots, inquiry, outcome>>

-----------------------------------------------------------------------------
\* One asset by a cutoff.

\* fetch_asset_episode_history
History(asset, cutoff) == {r \in revisions : r.asset = asset /\ r.at <= cutoff}

\* The sort key of revisions: known_at, published_at, entity_id, revision_id.
Later(r, s) ==
  \/ r.at > s.at
  \/ r.at = s.at /\ r.episode > s.episode
  \/ r.at = s.at /\ r.episode = s.episode /\ r.id > s.id
Latest(rows) == CHOOSE r \in rows : \A s \in rows : s = r \/ Later(r, s)
OfEpisode(rows, e) == {r \in rows : r.episode = e}

\* What is asked for, or what the latest Episode is about.
Selected(q, rows) == IF q.target # None THEN q.target ELSE Latest(rows).target

\* The Episode heads are read first, for their number only.  An asset without
\* history, a history over the limit and a target that is not in it are refused.
Ask(q) ==
  /\ inquiry = None /\ outcome = None
  /\ LET rows == History(q.asset, q.cutoff) IN
       /\ rows # {} /\ Cardinality(rows) <= HistoryLimit
       /\ \E r \in rows : r.target = Selected(q, rows)
       /\ inquiry' = [pc |-> "source", question |-> q, cutoff |-> q.cutoff, settled |-> TRUE,
                      rows |-> rows, target |-> Selected(q, rows)]
  /\ UNCHANGED <<clock, revisions, receipts, snapshots, flight, outcome>>

\* get_latest_snapshot_as_of: ORDER BY published_at, available_cutoff, snapshot_id.
NewerSnapshot(x, y) ==
  \/ x.at > y.at
  \/ x.at = y.at /\ x.of.available > y.of.available
  \/ x.at = y.at /\ x.of.available = y.of.available /\ x.of.id > y.of.id
Eligible(cutoff) == {x \in snapshots : x.at <= cutoff /\ x.of.available <= cutoff}
SnapshotAsOf(cutoff) ==
  LET eligible == Eligible(cutoff)
  IN  IF eligible = {} THEN None
      ELSE (CHOOSE x \in eligible : \A y \in eligible : y = x \/ NewerSnapshot(x, y)).of

\* _source_view; s is None without a snapshot or the permission to read it.
SourceState(s, cutoff) ==
  IF s = None THEN "UNAVAILABLE"
  ELSE IF ~s.rows \/ s.status \notin {"PUBLISHED", "PARTIAL"} THEN "UNAVAILABLE"
  ELSE IF s.status = "PARTIAL" THEN "PARTIAL"
  ELSE IF s.limit = None THEN "UNAVAILABLE"
  ELSE IF cutoff - s.available > s.limit THEN "STALE" ELSE "READY"

ReadSource ==
  /\ inquiry # None /\ inquiry.pc = "source"
  /\ \E s \in {SnapshotAsOf(inquiry.cutoff), None} :
       inquiry' = [pc |-> "workflow", question |-> inquiry.question, cutoff |-> inquiry.cutoff,
                   settled |-> inquiry.settled, rows |-> inquiry.rows, target |-> inquiry.target,
                   snapshot |-> s]
  /\ UNCHANGED <<clock, revisions, receipts, snapshots, flight, outcome>>

\* Mistake: the newest receipt is the workflow, whatever the revision knew.
LastReceipt(seed, known) == IF known = {} THEN seed ELSE Max(known)

\* A receipt takes the place of what is at least as old as it.
LastVersion(seed, known) == Max({seed} \cup known)

\* Mistake: what the state has is told.
EveryAction(e, version, cutoff) == ActionsOf(e, version)

ActionsBy(e, version, cutoff) == {at \in ActionsOf(e, version) : at <= cutoff}

\* _workflow_as_of and _timeline: of each Episode the latest revision has the
\* workflow by the cutoff, and the others what they were published with.
VersionsBy(e, cutoff) == {r.version : r \in {x \in receipts : x.episode = e /\ x.at <= cutoff}}
Timeline(rows, cutoff) ==
  {LET e == r.episode
       version == LastVersion(r.version, VersionsBy(e, cutoff))
   IN  IF r = Latest(OfEpisode(rows, e))
       THEN [id |-> r.id, episode |-> e, latest |-> TRUE, version |-> version,
             actions |-> ActionsBy(e, version, cutoff)]
       ELSE [id |-> r.id, episode |-> e, latest |-> FALSE, version |-> r.version, actions |-> {}]
   : r \in rows}

ReadWorkflow ==
  /\ inquiry # None /\ inquiry.pc = "workflow"
  /\ inquiry' = [pc |-> "measure", question |-> inquiry.question, cutoff |-> inquiry.cutoff,
                 settled |-> inquiry.settled, target |-> inquiry.target,
                 snapshot |-> inquiry.snapshot, timeline |-> Timeline(inquiry.rows, inquiry.cutoff)]
  /\ UNCHANGED <<clock, revisions, receipts, snapshots, flight, outcome>>

\* Mistake: rows of the window are told, whenever they became available.
HadHappened(p, q) == q.start <= p.event /\ p.event <= q.end

InWindow(p, q) == q.start <= p.event /\ p.event <= q.end /\ p.available <= q.cutoff

Unavailable == [state |-> "UNAVAILABLE", points |-> {}]

\* _measure.  given: reading is permitted, and the provider gives a batch that is
\* of the revision and the binding that were asked for, and not over the limit.
Measured(asset, given) ==
  LET s == inquiry.snapshot
      points == {p \in Points : p.snapshot = s.id /\ p.asset = asset /\ InWindow(p, inquiry.question)}
  IN  IF inquiry.target = Bound /\ s # None /\ given
           /\ s.status \in {"PUBLISHED", "PARTIAL"} /\ s.rows
      THEN [state |-> IF points = {} THEN "PARTIAL" ELSE "READY", points |-> points]
      ELSE Unavailable

Proves(measurement) == \E p \in measurement.points : p.qualified

\* _compare: the latest revision of the peer is of the same target, whichever its
\* Episode.
Comparable(q, primary, peerRows, peer) ==
  /\ q.peer # q.asset
  /\ SourceState(inquiry.snapshot, q.cutoff) = "READY"
  /\ primary.state # "UNAVAILABLE"
  /\ peerRows # {} /\ Cardinality(peerRows) <= HistoryLimit
  /\ \E r \in peerRows :
       /\ \A s \in peerRows : s.at < r.at \/ (s.at = r.at /\ s.id <= r.id)
       /\ r.target = inquiry.target
  /\ peer.state # "UNAVAILABLE"
  /\ Proves(primary) /\ Proves(peer)

Answer ==
  /\ inquiry # None /\ inquiry.pc = "measure"
  /\ \E given, givenPeer \in BOOLEAN :
       LET q == inquiry.question
           primary == Measured(q.asset, given)
           peer == IF q.peer = None THEN Unavailable ELSE Measured(q.peer, givenPeer)
           peerRows == IF q.peer = None THEN {} ELSE History(q.peer, q.cutoff)
       IN  outcome' = [kind |-> "asset", question |-> q, cutoff |-> q.cutoff,
                       settled |-> inquiry.settled, timeline |-> inquiry.timeline,
                       target |-> inquiry.target, snapshot |-> inquiry.snapshot,
                       primary |-> primary,
                       peer |-> IF Comparable(q, primary, peerRows, peer) THEN peer ELSE Unavailable]
  /\ inquiry' = None
  /\ UNCHANGED <<clock, revisions, receipts, snapshots, flight>>

\* Authorization is withdrawn, or a read fails or is over its limit.
Refuse ==
  /\ inquiry # None
  /\ inquiry' = None
  /\ UNCHANGED <<clock, revisions, receipts, snapshots, flight, outcome>>

-----------------------------------------------------------------------------
\* list_assets: the heads with the workflow as it is, of one statement.

Head(e) == Latest(OfEpisode(revisions, e))
Heads == {Head(e) : e \in {r.episode : r \in revisions}}

ListHeads ==
  /\ inquiry = None /\ outcome = None
  /\ Heads # {}
  /\ inquiry' = [pc |-> "list", cutoff |-> MaxClock + 1, settled |-> TRUE,
                 rows |-> {[head |-> h, version |-> Version(h.episode)] : h \in Heads}]
  /\ UNCHANGED <<clock, revisions, receipts, snapshots, flight, outcome>>

\* The last one of each asset, with the source as it is by now.
Rows(facts) ==
  {[asset |-> f.head.asset, id |-> f.head.id, version |-> f.version]
     : f \in {g \in facts : \A h \in facts :
                h = g \/ h.head.asset # g.head.asset \/ Later(g.head, h.head)}}

ListAssets ==
  /\ inquiry # None /\ inquiry.pc = "list"
  /\ outcome' = [kind |-> "list", cutoff |-> clock, settled |-> inquiry.settled,
                 rows |-> Rows(inquiry.rows),
                 source |-> SourceState(SnapshotAsOf(clock), clock)]
  /\ inquiry' = None
  /\ UNCHANGED <<clock, revisions, receipts, snapshots, flight>>

Next ==
  \/ Tick \/ Commit \/ RollBack
  \/ \E d \in Drafts : StampRevision(d)
  \/ \E e \in Episodes : StampCommand(e)
  \/ \E s \in Snapshots : StampSnapshot(s)
  \/ \E q \in Questions : Ask(q)
  \/ ReadSource \/ ReadWorkflow \/ Answer \/ Refuse
  \/ ListHeads \/ ListAssets

Spec == Init /\ [][Next]_vars

-----------------------------------------------------------------------------
TypeOK ==
  /\ clock \in Instants
  /\ \A r \in revisions : r.at \in Instants /\ r.version \in 0..MaxVersion[r.episode]
  /\ \A r \in receipts : r.at \in 0..(MaxClock + Max(Skews)) /\ r.version \in 1..MaxVersion[r.episode]
  /\ \A x \in snapshots : x.of \in Snapshots /\ x.at \in Instants

Settled(kind) == outcome # None /\ outcome.kind = kind /\ outcome.settled

\* The view of an asset is what was known by its cutoff, whatever was written
\* between its reads: every revision once, one of each Episode the latest, with
\* no workflow older than its own or than a command by then, with every action
\* that was recorded by then and none that was recorded later.
TimelineIsAsKnown ==
  Settled("asset") =>
    LET told == outcome.timeline
        by(e) == {r \in receipts : r.episode = e /\ r.at <= outcome.cutoff}
    IN  /\ {t.id : t \in told} = {r.id : r \in History(outcome.question.asset, outcome.cutoff)}
        /\ \A t \in told : \E u \in told : u.episode = t.episode /\ u.latest
        /\ \A t, u \in told : t.latest /\ u.latest /\ t.episode = u.episode => t = u
        /\ \A t \in told : t.latest =>
             /\ \A r \in by(t.episode) : r.version <= t.version /\ r.at \in t.actions
             /\ t.actions \subseteq 0..outcome.cutoff
             /\ \E r \in revisions :
                  /\ r.id = t.id /\ r.version <= t.version
                  /\ r.version # t.version => \E x \in by(t.episode) : x.version = t.version

\* Measurements are of the snapshot that the view shows, and by the cutoff; those
\* of the peer are of the same one, which was fresh then.
MeasurementsAreAsKnown ==
  outcome # None /\ outcome.kind = "asset" =>
    /\ outcome.settled /\ outcome.snapshot # None =>
         ~\E x, y \in Eligible(outcome.cutoff) :
            x.of = outcome.snapshot /\ y # x /\ NewerSnapshot(y, x)
    /\ \A p \in outcome.primary.points \cup outcome.peer.points :
         /\ outcome.snapshot # None /\ p.snapshot = outcome.snapshot.id
         /\ p.event <= outcome.cutoff /\ p.available <= outcome.cutoff
    /\ outcome.peer.state # "UNAVAILABLE" =>
         /\ Proves(outcome.primary) /\ Proves(outcome.peer)
         /\ outcome.snapshot.limit # None
         /\ outcome.cutoff - outcome.snapshot.available <= outcome.snapshot.limit

\* The list of assets and the view of one of them by that instant agree on the
\* latest revision of an Episode, and the list has no older workflow of it.
ListAgrees ==
  Settled("list") =>
    \A row \in outcome.rows :
      \E t \in Timeline(History(row.asset, outcome.cutoff), outcome.cutoff) :
        t.id = row.id /\ t.latest /\ t.version <= row.version

AssetIsAsKnown == TypeOK /\ TimelineIsAsKnown /\ MeasurementsAreAsKnown /\ ListAgrees
=============================================================================

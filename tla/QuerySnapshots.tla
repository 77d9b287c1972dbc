--------------------------- MODULE QuerySnapshots ---------------------------
(***************************************************************************)
(* Retained query pages: application/attention.py over the snapshot half   *)
(* of infrastructure/postgresql_reads.py.                                  *)
(*                                                                         *)
(* A query is answered once, from the Attention projection as it is; the   *)
(* answer is retained and handed out page by page for as long as it lives, *)
(* to its subject, under the security revision that it was made under.     *)
(* A retained row is the episode and the state of its joined row.  Time    *)
(* appears only as what is left of each snapshot's life.  Definitions      *)
(* marked "Mistake" are plausible errors that a property must notice.      *)
(***************************************************************************)
EXTENDS Integers, Sequences, FiniteSets

CONSTANTS Episodes,      \* a set of integers, ordered as episode ids are
          Subjects,
          Snapshots,     \* the uuids that create_query_snapshot draws
          PageSizes,     \* page sizes that are asked for
          MaxRows,       \* MAX_ATTENTION_ROWS
          Ttl,           \* life of a snapshot, in ticks
          MaxState, MaxRevision,   \* bounds of the model
          None

VARIABLES table,      \* each episode's row of the projection joined with its
                      \* workflow aggregate; 0: not projected
          authority,  \* what the authority now holds for each subject
          snapshot,   \* query_snapshot and query_snapshot_row
          call,       \* each subject's call of list_attention
          shown,      \* history: the pages that were returned
          instants    \* history: the tables that there were

vars == <<table, authority, snapshot, call, shown, instants>>

Principal == [subject : Subjects, revision : 0 .. MaxRevision, granted : BOOLEAN]
Presented(s) == [subject |-> s, revision |-> authority[s].revision,
                 granted |-> authority[s].granted]

\* A query is its normalized filters and order: "all" of them, or those in a
\* "later" state.  Rows come by descending state; the order that is asked for
\* is completed by the episode id.  The i-th row is the one that i - 1 precede.
Queries == {"all", "later"}
Selects(query, state) == state > (IF query = "all" THEN 0 ELSE 1)
Precedes(t, d, e) == t[d] > t[e] \/ (t[d] = t[e] /\ d < e)
Selection(query, t) ==
  LET found == {e \in Episodes : Selects(query, t[e])}
      row(e) == [episode |-> e, state |-> t[e]]
  IN  [i \in 1 .. Cardinality(found) |->
         row(CHOOSE e \in found : Cardinality({d \in found : Precedes(t, d, e)}) = i - 1)]

Cursor == [snapshot : Snapshots, query : Queries, next : 1 .. MaxRows]

\* What a call carries: its arguments, its principal, the rows it fetched.
Idle == [pc |-> "idle"]
Call(s, query, snap, cursor, size) ==
  [pc |-> "start", principal |-> Presented(s), query |-> query, snapshot |-> snap,
   cursor |-> cursor, size |-> size, rows |-> <<>>]

TypeOK ==
  /\ table \in [Episodes -> 0 .. MaxState]
  /\ authority \in [Subjects -> [revision : 0 .. MaxRevision, granted : BOOLEAN]]
  /\ \A i \in Snapshots : snapshot[i] # None =>
       /\ snapshot[i].owner \in Principal /\ snapshot[i].query \in Queries
       /\ snapshot[i].left \in 0 .. Ttl /\ Len(snapshot[i].rows) <= MaxRows
  /\ \A s \in Subjects : call[s] # Idle =>
       /\ call[s].principal \in Principal /\ call[s].snapshot \in Snapshots \cup {None}
       /\ call[s].cursor \in Cursor \cup {None}

Init ==
  /\ table = [e \in Episodes |-> 0]
  /\ authority = [s \in Subjects |-> [revision |-> 0, granted |-> TRUE]]
  /\ snapshot = [i \in Snapshots |-> None]
  /\ call = [s \in Subjects |-> Idle]
  /\ shown = {}
  /\ instants = {table}

-----------------------------------------------------------------------------
\* The world around a call.

\* seed_attention_projection, or a command on the workflow of a projected row.
RowChanges(e) ==
  /\ table[e] < MaxState
  /\ table' = [table EXCEPT ![e] = @ + 1]
  /\ instants' = instants \cup {table'}
  /\ UNCHANGED <<authority, snapshot, call, shown>>

\* Grants change with the security revision that says so.
GrantsChange(s) ==
  /\ authority[s].revision < MaxRevision
  /\ \E granted \in BOOLEAN :
       authority' = [authority EXCEPT ![s] = [revision |-> @.revision + 1, granted |-> granted]]
  /\ UNCHANGED <<table, snapshot, call, shown, instants>>

Tick ==
  /\ \E i \in Snapshots : snapshot[i] # None /\ snapshot[i].left > 0
  /\ snapshot' = [i \in Snapshots |->
       IF snapshot[i] = None \/ snapshot[i].left = 0 THEN snapshot[i]
       ELSE [snapshot[i] EXCEPT !.left = @ - 1]]
  /\ UNCHANGED <<table, authority, call, shown, instants>>

-----------------------------------------------------------------------------
\* list_attention, step by step.

\* The cursors that this subject was given.
Given(s) == {p.next : p \in {q \in shown : q.reader.subject = s}} \ {None}

\* Any snapshot id may be asked for (addresses are passed on, tabs mixed up); a
\* cursor without one is refused.
StartCall(s) ==
  /\ call[s] = Idle
  /\ \E query \in Queries, size \in PageSizes :
       \/ call' = [call EXCEPT ![s] = Call(s, query, None, None, size)]
       \/ \E snap \in Snapshots, cursor \in Given(s) \cup {None} :
            call' = [call EXCEPT ![s] = Call(s, query, snap, cursor, size)]
  /\ UNCHANGED <<table, authority, snapshot, shown, instants>>

\* Mistake: only the principal that was presented is asked for its grants.
AuthorizedAsPresented(p) == p.granted

\* CurrentAuthorizationAuthority.authorize
Authorized(p) == p.granted /\ p = Presented(p.subject)

At(s, pc) == call[s] # Idle /\ call[s].pc = pc
Goto(s, pc) == call' = [call EXCEPT ![s].pc = pc]
\* Any exception ends the call.
Refuse(s) == call' = [call EXCEPT ![s] = Idle]

\* Before anything is looked up, before the rows are retained, and before a
\* page is read.
Authorize(s) ==
  /\ \E from \in {"start", "fetched", "created"} :
       /\ At(s, from)
       /\ IF Authorized(call[s].principal)
          THEN Goto(s, CASE from = "start" -> IF call[s].snapshot = None THEN "fetch" ELSE "read"
                         [] from = "fetched" -> "create"
                         [] from = "created" -> "read")
          ELSE Refuse(s)
  /\ UNCHANGED <<table, authority, snapshot, shown, instants>>

\* One SELECT with a LIMIT one above the bound.
FetchRows(s) ==
  /\ At(s, "fetch")
  /\ LET rows == Selection(call[s].query, table) IN
       IF Len(rows) > MaxRows THEN Refuse(s)
       ELSE call' = [call EXCEPT ![s].rows = rows, ![s].pc = "fetched"]
  /\ UNCHANGED <<table, authority, snapshot, shown, instants>>

\* create_query_snapshot: the snapshot and its rows in one transaction.
CreateSnapshot(s) ==
  /\ At(s, "create")
  /\ \E i \in Snapshots :
       /\ snapshot[i] = None
       /\ snapshot' = [snapshot EXCEPT ![i] =
            [owner |-> call[s].principal, query |-> call[s].query, left |-> Ttl,
             rows |-> call[s].rows]]
       /\ call' = [call EXCEPT ![s].snapshot = i, ![s].pc = "created"]
  /\ UNCHANGED <<table, authority, shown, instants>>

\* Mistake: the snapshot belongs to its subject, whatever the subject may now see.
AuthorizesSubject(p, snap) == p.granted /\ p.subject = snap.owner.subject

\* _authorize_snapshot
AuthorizesSnapshot(p, snap) ==
  p.granted /\ p.subject = snap.owner.subject /\ p.revision = snap.owner.revision

\* The ordinal that the next page starts at.
NextOrdinal(first, count) == first + count

\* CursorPageToken.verify: the digest is over the snapshot, its query, the
\* ordinal, and a secret of the snapshot.
Verifies(cursor, i) == cursor.snapshot = i /\ cursor.query = snapshot[i].query

Readable(s, i) ==
  /\ snapshot[i] # None
  /\ snapshot[i].left > 0
  /\ AuthorizesSnapshot(call[s].principal, snapshot[i])
  /\ call[s].query = snapshot[i].query
  /\ call[s].cursor # None =>
       Verifies(call[s].cursor, i) /\ call[s].cursor.next <= Len(snapshot[i].rows)

Smaller(a, b) == IF a < b THEN a ELSE b

\* Mistake: every page is selected afresh.
SelectedAfresh(i) == Selection(snapshot[i].query, table)

\* query_snapshot_row
Retained(i) == snapshot[i].rows

\* read_query_snapshot_page and the AttentionPage made of it.
Page(s, i) ==
  LET rows == Retained(i)
      first == IF call[s].cursor = None THEN 1 ELSE call[s].cursor.next
      count == Smaller(call[s].size, Len(rows) - first + 1)
      next == NextOrdinal(first, count)
  IN [reader |-> call[s].principal, query |-> call[s].query, snapshot |-> i, first |-> first,
      rows |-> SubSeq(rows, first, first + count - 1), total |-> Len(rows),
      next |-> IF next > Len(rows) THEN None
               ELSE [snapshot |-> i, query |-> snapshot[i].query, next |-> next]]

ReadPage(s) ==
  /\ At(s, "read")
  /\ LET i == call[s].snapshot IN
       shown' = shown \cup (IF Readable(s, i) THEN {Page(s, i)} ELSE {})
  /\ call' = [call EXCEPT ![s] = Idle]
  /\ UNCHANGED <<table, authority, snapshot, instants>>

Next ==
  \/ \E e \in Episodes : RowChanges(e)
  \/ Tick
  \/ \E s \in Subjects :
       GrantsChange(s) \/ StartCall(s) \/ Authorize(s) \/ FetchRows(s) \/ CreateSnapshot(s)
         \/ ReadPage(s)

Spec == Init /\ [][Next]_vars

-----------------------------------------------------------------------------
\* All pages of one snapshot are one answer: what its query selected at one
\* instant, cut into pages, however the projection moved between two of them.
OfOneInstant(i) ==
  \E t \in instants : \A p \in shown : p.snapshot = i =>
    LET answer == Selection(p.query, t) IN
      /\ p.total = Len(answer)
      /\ p.rows = SubSeq(answer, p.first, p.first + Len(p.rows) - 1)

\* A page follows pages that its reader was given before: nobody is shown the
\* end of an answer and never its middle.
FollowsItsCursor(p) ==
  \A ordinal \in 1 .. p.first - 1 : \E q \in shown :
    /\ q.snapshot = p.snapshot /\ q.reader = p.reader
    /\ ordinal \in q.first .. q.first + Len(q.rows) - 1

\* An answer has one reader, and one security revision: a page is never shown
\* under grants other than those its rows were selected under.
PagesAreOneAnswer ==
  /\ \A i \in Snapshots : OfOneInstant(i)
  /\ \A p \in shown : FollowsItsCursor(p)
  /\ \A p, q \in shown : p.snapshot = q.snapshot => p.reader = q.reader /\ p.query = q.query
=============================================================================

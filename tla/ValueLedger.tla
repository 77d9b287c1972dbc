----------------------------- MODULE ValueLedger -----------------------------
(***************************************************************************)
(* One outcome claim group: OutcomesService of value/service.py over the   *)
(* value revisions of value/repository.py and of migration 010.            *)
(*                                                                         *)
(* Values, claims and reviews are only ever added, each at the instant     *)
(* that its command read from the clock of its host; a query says what was *)
(* known at a cutoff.  A command holds the row of the group from before it *)
(* reads the clock until it commits, so commands follow one another, but   *)
(* readers do not wait for them.  Nothing makes the clocks of hosts agree: *)
(* now is that of the slowest, and a command is executed by any other.     *)
(* Who may command, and on which version, is CommandCore's.  Definitions   *)
(* marked "Mistake" are as in ArtifactStore.                               *)
(***************************************************************************)
EXTENDS Integers, FiniteSets

CONSTANTS Categories,   \* each with its currency
          Subjects,
          Ahead,        \* how far the clocks of hosts are ahead of the slowest
          MaxClock, MaxEntries, MaxReviews,   \* bounds of the model
          None

VARIABLES now, entries, reviews, pending

vars == <<now, entries, reviews, pending>>

\* A ValueEntry together with its ClaimRevision: each is made with the other,
\* and supersedes the other's predecessor.  Ids count.
Entry == [id : 1 .. MaxEntries, category : Categories, kind : {"VALUE", "VOID"},
          maturity : {"OBSERVED", "PENDING"}, known : Nat, supersedes : Nat \cup {None},
          claimant : Subjects]
Review == [id : 1 .. MaxReviews, entry : 1 .. MaxEntries, decision : {"APPROVED", "REJECTED"},
           cutoff : Nat, reviewer : Subjects, known : Nat, supersedes : Nat \cup {None}]

TypeOK ==
  /\ now \in 0 .. MaxClock
  /\ entries \subseteq Entry
  /\ reviews \subseteq Review
  /\ pending \in Entry \cup Review \cup {None}

Init ==
  /\ now = 0
  /\ entries = {}
  /\ reviews = {}
  /\ pending = None

\* Mistake: the leaves of today, without what is of later.
PresentLeaves(items, cutoff) ==
  {x \in items : x.known <= cutoff /\ \A y \in items : y.supersedes # x.id}

\* active_leaves_as_of and _append_only_leaf
LeavesAsOf(items, cutoff) ==
  LET known == {x \in items : x.known <= cutoff} IN
    {x \in known : \A y \in known : y.supersedes # x.id}

-----------------------------------------------------------------------------
\* Commands, up to their commit.  at: the clock of the host that executes one.
Begin(item) == pending' = item /\ UNCHANGED <<now, entries, reviews>>

Matching(category, at) == {e \in LeavesAsOf(entries, at) : e.category = category}

\* Mistake: that nothing known to this host has superseded it is taken for enough.
ExtendsKnown(old, at) == old.known < at /\ old \in LeavesAsOf(entries, at)

\* InMemoryValueRepository.append, and the claim beside it: a predecessor is
\* known before its successor, and has no other.
Extends(old, at) ==
  old.known < at /\ \A e \in entries : e.supersedes # old.id

\* Mistake: a correction of any revision of the group.
SupersedesAny(category, at, supersedes) == TRUE

\* The first value of a category supersedes none; a later one its active leaf.
\* What is not known yet by the clock of this host is no leaf to it.
SupersedesLeaf(category, at, supersedes) ==
  IF supersedes = None THEN Matching(category, at) = {}
  ELSE Matching(category, at) = {supersedes}

\* submit_claim, which creates the group, and record_value_revision
RecordValue(s, at) ==
  \E category \in Categories, maturity \in {"OBSERVED", "PENDING"},
     old \in entries \cup {None} :
    /\ SupersedesLeaf(category, at, old)
    /\ old # None => old.category = category /\ Extends(old, at)
    /\ Begin([id |-> Cardinality(entries) + 1, category |-> category, kind |-> "VALUE",
              maturity |-> maturity, known |-> at, claimant |-> s,
              supersedes |-> IF old = None THEN None ELSE old.id])

\* Of several leaves only the first can be voided, in the order of the rows.
VoidValue(s, at) ==
  \E old \in entries :
    /\ old.kind = "VALUE"
    /\ old \in Matching(old.category, at)
    /\ \A e \in Matching(old.category, at) : old.known <= e.known
    /\ Extends(old, at)
    /\ Begin([old EXCEPT !.id = Cardinality(entries) + 1, !.kind = "VOID", !.known = at,
                         !.claimant = s, !.supersedes = old.id])

\* A review binds to a revision that was active at its own cutoff.  Only what
\* was observed is approved, and never by its claimant.
MayReview(s, e, decision, cutoff) ==
  /\ e.kind = "VALUE"
  /\ e \in LeavesAsOf(entries, cutoff)
  /\ s # e.claimant
  /\ e.category = "benefit"     \* or an operating cost
  /\ decision = "APPROVED" => e.maturity = "OBSERVED"

\* Mistake: a second review of a revision stands beside the first.
SucceedsNothing(e, at, old) == IF old = None THEN TRUE ELSE old.entry = e.id /\ old.known < at

\* The first review of a revision supersedes none; a later one the last.
SucceedsReview(e, at, old) ==
  IF old = None
  THEN \A r \in reviews : r.entry = e.id /\ r.known <= at => r.supersedes # None
  ELSE old.entry = e.id /\ old.known < at /\ \A r \in reviews : r.supersedes # old.id

ReviewValue(s, at) ==
  \E e \in entries, decision \in {"APPROVED", "REJECTED"}, cutoff \in 0 .. at,
     old \in reviews \cup {None} :
    /\ MayReview(s, e, decision, cutoff)
    /\ SucceedsReview(e, at, old)
    /\ Begin([id |-> Cardinality(reviews) + 1, entry |-> e.id, decision |-> decision,
              cutoff |-> cutoff, reviewer |-> s, known |-> at,
              supersedes |-> IF old = None THEN None ELSE old.id])

Execute(s, ahead) ==
  /\ pending = None
  /\ \/ Cardinality(entries) < MaxEntries
          /\ (RecordValue(s, now + ahead) \/ VoidValue(s, now + ahead))
     \/ Cardinality(reviews) < MaxReviews /\ ReviewValue(s, now + ahead)

Commit ==
  /\ pending # None
  /\ IF pending \in Entry
     THEN entries' = entries \cup {pending} /\ UNCHANGED reviews
     ELSE reviews' = reviews \cup {pending} /\ UNCHANGED entries
  /\ pending' = None
  /\ UNCHANGED now

RollBack == pending # None /\ pending' = None /\ UNCHANGED <<now, entries, reviews>>

Tick == now < MaxClock /\ now' = now + 1 /\ UNCHANGED <<entries, reviews, pending>>

Next ==
  \/ \E s \in Subjects, ahead \in Ahead : Execute(s, ahead)
  \/ Commit \/ RollBack \/ Tick

Spec == Init /\ [][Next]_vars

-----------------------------------------------------------------------------
\* query, before it filters by period, currency and maturity.

\* _state_label
Label(e, verdicts) ==
  CASE e.kind = "VOID" -> "VOID"
    [] e.kind = "VALUE" /\ e.maturity = "PENDING" -> "PENDING"
    [] OTHER ->
         IF \E r \in verdicts : r.decision = "APPROVED" THEN "VALIDATED"
         ELSE IF verdicts # {} THEN "REJECTED"
         ELSE IF e.category = "benefit" THEN "PENDING" ELSE "OBSERVED_NOT_VALIDATED"

\* Mistake: a verdict is one on the value, whatever revision of it.
CarriesOver(e, cutoff) ==
  {r \in LeavesAsOf(reviews, cutoff) : r.entry \in {e.id, e.supersedes} /\ r.reviewer # e.claimant}

\* review_by_value, which keeps the last, and the binding that is checked again.
VerdictsOn(e, cutoff) ==
  LET on == {r \in LeavesAsOf(reviews, cutoff) : r.entry = e.id} IN
    {r \in on : r.reviewer # e.claimant /\ \A q \in on : q.id <= r.id}

Report(cutoff) ==
  {[value |-> e, state |-> Label(e, VerdictsOn(e, cutoff))] : e \in LeavesAsOf(entries, cutoff)}

-----------------------------------------------------------------------------
\* The cutoffs that some host answers.
Cutoffs == UNION {0 .. now + ahead : ahead \in Ahead}

Firsts(items) == {x \in items : x.supersedes = None}

\* A line has one end, at every cutoff: as many of one key are active as firsts
\* of it are known.  A second first was entered by a host whose clock was behind
\* the instants of all the firsts before it, so that it could not know them.
EachLineCountsOnce(items, key) ==
  /\ \A cutoff \in Cutoffs, x \in items :
       Cardinality({y \in LeavesAsOf(items, cutoff) : y[key] = x[key]})
         = Cardinality({y \in Firsts(items) : y[key] = x[key] /\ y.known <= cutoff})
  /\ \A x, y \in Firsts(items) : x[key] = y[key] /\ x.id < y.id => y.known < x.known

\* Nothing is counted twice that the host which entered it could know of: no
\* sequence of corrections and voids makes a second active value of a category,
\* and no sequence of reviews of reviews a second verdict on a value.
NothingCountsTwice ==
  EachLineCountsOnce(entries, "category") /\ EachLineCountsOnce(reviews, "entry")

\* Benefit that is reported as validated was approved by somebody else than the
\* claimant of that very revision, on what was then observed.
ValidatedIsIndependent ==
  \A cutoff \in Cutoffs : \A row \in Report(cutoff) : row.state = "VALIDATED" =>
    /\ row.value.maturity = "OBSERVED"
    /\ \E r \in reviews : r.entry = row.value.id /\ r.decision = "APPROVED"
         /\ r.known <= cutoff /\ r.reviewer # row.value.claimant
         /\ \A q \in reviews : q.supersedes = r.id => q.known > cutoff

\* An as-known report does not change, once the slowest clock is past its cutoff
\* and every command that read its clock by then has ended.
Horizon == IF pending = None THEN now ELSE IF pending.known < now THEN pending.known ELSE now
AsKnownStands == [][\A cutoff \in 0 .. Horizon - 1 : Report(cutoff)' = Report(cutoff)]_vars

\* What the documents ask for, and what the code does only where the clocks of
\* hosts agree: a category has one active value (README, section 3).
NeverTwice ==
  \A cutoff \in Cutoffs : \A d, e \in LeavesAsOf(entries, cutoff) :
    d.category = e.category => d = e
=============================================================================

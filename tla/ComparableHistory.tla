-------------------------- MODULE ComparableHistory -------------------------
(***************************************************************************)
(* Retrieval of comparable cases: application/comparable_history.py on the *)
(* window of Episode revisions of infrastructure/postgresql_reads.py.      *)
(*                                                                         *)
(* One Episode asks, at one knowledge cutoff, for the Episodes that it can *)
(* be compared with.  Revisions and source manifests are immutable and are *)
(* published while the query is answered; the head of the Episode that     *)
(* asks may move.  A reader reads the head, the source of its profile, the *)
(* window and the head again, each in a transaction of its own.  Pages of  *)
(* what is retained are QuerySnapshots'.  Digests are equality.            *)
(***************************************************************************)
EXTENDS Integers, FiniteSets, SequencesExt

CONSTANTS Episodes,     \* numbers of the other Episodes of the scope
          Sources,      \* identities of source manifests
          Features,     \* feature identities
          Drafts,       \* the revisions that may be published
          Manifests,    \* the manifests that may be published, one for a source
          Current,      \* the profile of the Episode that asks
          Cutoff,       \* its knowledge cutoff
          CandidateLimit,
          Policies,     \* versions of the retrieval policy in use
          MaxClock, MaxVersion, MaxAnswers,  \* bounds; at most MaxVersion moves
          None

Instants == 0..MaxClock

\* A claim matures at its outcome cutoff, or is not an outcome.
Claim == [known: Instants, available: Instants, curated: BOOLEAN, matures: Instants \cup {None}]

\* ok: family and context are those of the query.
Profile == [source: Sources, ok: BOOLEAN, eligibility: {"QUALIFIED", "LIMITED", "UNQUALIFIED"},
            curated: BOOLEAN, features: UNION {[S -> {1, 2}] : S \in SUBSET Features},
            claims: SUBSET Claim]

\* A revision without a profile that is complete and valid cannot be compared.
Draft == [episode: Episodes, id: Nat, known: Instants, profile: Profile \cup {None}]

Manifest == [source: Sources, ok: BOOLEAN, available: Instants,
             status: {"PUBLISHED", "PARTIAL", "INSUFFICIENT", "QUARANTINED"}]

VARIABLES now,
          published,   \* published[d]: the instant of publication of draft d, or None
          manifests,   \* the same of manifests
          head,        \* the Episode that asks: its current revision, version and cycle
          reading,     \* what the reader is doing
          answers      \* history: what was answered

vars == <<now, published, manifests, head, reading, answers>>

View == [revision: 0..MaxVersion, published: Instants, version: 0..MaxVersion, cycle: Nat]
Idle == [pc |-> "idle"]

Init ==
  /\ now = 0
  /\ published = [d \in Drafts |-> None]
  /\ manifests = [m \in Manifests |-> None]
  /\ head = [revision |-> 0, published |-> 0, version |-> 0, cycle |-> 1]
  /\ reading = Idle
  /\ answers = {}

-----------------------------------------------------------------------------
\* External: the other writers of the read model.
Tick == now < MaxClock /\ now' = now + 1 /\ UNCHANGED <<published, manifests, head, reading, answers>>

\* The INSERT reads the database's clock twice.  It commits in the instant that it
\* stamps; what a later commit does to such reads is AssetHistory's.
Publish(d) ==
  /\ published[d] = None
  /\ d.known <= now
  /\ published' = [published EXCEPT ![d] = now]
  /\ UNCHANGED <<now, manifests, head, reading, answers>>

PublishSource(m) ==
  /\ manifests[m] = None
  /\ m.available <= now
  /\ manifests' = [manifests EXCEPT ![m] = now]
  /\ UNCHANGED <<now, published, head, reading, answers>>

\* A new revision, or a command on the workflow, which may start a cycle.
MoveHead ==
  /\ head.revision + head.version < MaxVersion
  /\ \/ head' = [head EXCEPT !.revision = @ + 1, !.published = now]
     \/ \E c \in {head.cycle, head.cycle + 1} : head' = [head EXCEPT !.version = @ + 1, !.cycle = c]
  /\ UNCHANGED <<now, published, manifests, reading, answers>>

-----------------------------------------------------------------------------
\* Mistake: what is known by the cutoff counts, whenever it was published.
KnownOnly(d) == published[d] # None /\ d.known <= Cutoff

\* What one read of the window finds.
Known(d) == published[d] # None /\ d.known <= Cutoff /\ published[d] <= Cutoff

\* The source_snapshot row that a profile refers to.
SourceOf(p) == {m \in Manifests : p # None /\ m.source = p.source /\ manifests[m] # None}

InTime(m) == m.available <= Cutoff /\ manifests[m] <= Cutoff

\* A revision whose source is in the table but was not known by the cutoff is
\* left out; one whose source is not in the table is not.
InWindow(d) == Known(d) /\ \A m \in SourceOf(d.profile) : InTime(m)

\* d is later than e, and of revisions of the same instants the lower id.
Later(d, e) ==
  \/ d.known > e.known
  \/ d.known = e.known /\ published[d] > published[e]
  \/ d.known = e.known /\ published[d] = published[e] /\ d.id < e.id

\* ORDER BY known_at DESC, published_at DESC, entity_id, revision_id LIMIT n.
InOrder(d, e) ==
  IF <<d.known, published[d]>> # <<e.known, published[e]>> THEN Later(d, e)
  ELSE d.episode < e.episode \/ (d.episode = e.episode /\ d.id < e.id)

First(n, drafts) == {d \in drafts : Cardinality({e \in drafts : InOrder(e, d)}) < n}

\* Mistake: no row beyond the limit is read.
UptoLimit == First(CandidateLimit, {d \in Drafts : InWindow(d)})

Window == First(CandidateLimit + 1, {d \in Drafts : InWindow(d)})

\* The latest revision of each other Episode.
Latest(window) == {d \in window : ~\E e \in window : e.episode = d.episode /\ Later(e, d)}

\* Why a revision cannot be compared.
Reasons(d) ==
  LET p == d.profile
      s == SourceOf(p)
  IN  {r \in {"INVALID_PROFILE", "CONTEXT_MISMATCH", "UNQUALIFIED", "MISSING_SOURCE",
              "SOURCE_FAMILY_MISMATCH", "SOURCE_NOT_QUALIFIED"} :
         CASE r = "INVALID_PROFILE" -> p = None
           [] r = "CONTEXT_MISMATCH" -> p # None /\ ~p.ok
           [] r = "UNQUALIFIED" -> p # None /\ p.eligibility = "UNQUALIFIED"
           [] r = "MISSING_SOURCE" -> s = {}
           [] r = "SOURCE_FAMILY_MISMATCH" -> \E m \in s : ~m.ok
           [] OTHER -> \E m \in s : m.ok /\ m.status \notin {"PUBLISHED", "PARTIAL"}}

\* Exact matches, compared features and differences with the Episode that asks.
Same(p) == {f \in DOMAIN p.features \cap DOMAIN Current.features : p.features[f] = Current.features[f]}
Compared(p) == DOMAIN p.features \cap DOMAIN Current.features

\* Mistake: any claim of a case is told.
EveryClaim(c) == TRUE

\* What is told of the past was curated, and known and mature, by the cutoff.
Tellable(c) ==
  /\ c.curated /\ c.known <= Cutoff /\ c.available <= Cutoff
  /\ c.matures # None => c.matures <= Cutoff

Limitations(d) ==
  LET p == d.profile
  IN  {l \in {"QUALIFICATION", "CURATION", "PARTIAL_SOURCE", "CLAIM_CURATION"} :
         CASE l = "QUALIFICATION" -> p.eligibility = "LIMITED"
           [] l = "CURATION" -> ~p.curated
           [] l = "PARTIAL_SOURCE" -> \E m \in SourceOf(p) : m.status = "PARTIAL"
           [] OTHER -> \E c \in p.claims : c.known <= Cutoff /\ c.available <= Cutoff /\ ~c.curated}

Case(d) ==
  [episode |-> d.episode, id |-> d.id, known |-> d.known,
   same |-> Cardinality(Same(d.profile)), compared |-> Cardinality(Compared(d.profile)),
   limitations |-> Limitations(d), claims |-> {c \in d.profile.claims : Tellable(c)}]

\* The order of the three stable sorts.  Version 2 of the policy prefers what was
\* known last.
Before(policy, a, b) ==
  LET differences(c) == c.compared - c.same IN
  IF a.same # b.same THEN a.same > b.same
  ELSE IF a.compared # b.compared THEN a.compared > b.compared
  ELSE IF differences(a) # differences(b) THEN differences(a) < differences(b)
  ELSE IF policy = 2 /\ a.known # b.known THEN a.known > b.known
  ELSE a.episode < b.episode \/ (a.episode = b.episode /\ a.id < b.id)

Ranked(policy, drafts) ==
  LET cases == {Case(d) : d \in {e \in drafts : Reasons(e) = {}}}
  IN  CHOOSE s \in SetToSeqs(cases) :
        \A i, j \in DOMAIN s : i < j => Before(policy, s[i], s[j])

\* A window over the limit is not answered in part.  seen is history.
Result(q, window) ==
  IF Cardinality(window) > CandidateLimit
  THEN [query |-> q, state |-> "CANDIDATE_LIMIT_EXCEEDED", seen |-> head]
  ELSE LET latest == Latest(window)
       IN  [query |-> q, state |-> "READY", seen |-> head, cases |-> Ranked(q.policy, latest),
            excluded |-> {[episode |-> d.episode, id |-> d.id, reasons |-> Reasons(d)] :
                            d \in {e \in latest : Reasons(e) # {}}}]

-----------------------------------------------------------------------------
\* retrieve, for the view that the caller has; a query is bound to the head's
\* revision, version and cycle and asks about the past.
CurrentSource == {m \in Manifests : m.source = Current.source /\ manifests[m] # None}

Ask(policy) ==
  /\ reading = Idle
  /\ Cutoff < now
  /\ Cardinality(answers) < MaxAnswers
  /\ head.published <= Cutoff
  /\ Current.ok /\ Current.eligibility = "QUALIFIED"
  /\ reading' = [pc |-> "source", query |-> [head |-> head, policy |-> policy]]
  /\ UNCHANGED <<now, published, manifests, head, answers>>

FetchSource ==
  /\ reading.pc = "source"
  /\ \E m \in CurrentSource : m.ok /\ m.status = "PUBLISHED" /\ InTime(m)
  /\ reading' = [reading EXCEPT !.pc = "window"]
  /\ UNCHANGED <<now, published, manifests, head, answers>>

FetchWindow ==
  /\ reading.pc = "window"
  /\ LET r == Result(reading.query, Window)
     IN  IF r.state = "READY"
         THEN /\ reading' = [pc |-> "recheck", query |-> reading.query, result |-> r]
              /\ UNCHANGED answers
         ELSE reading' = Idle /\ answers' = answers \cup {r}
  /\ UNCHANGED <<now, published, manifests, head>>

\* Mistake: the head has been checked already.
TrustsFirstRead(q) == TRUE

\* The revision and the workflow version are those of the query.
StillCurrent(q) == head.revision = q.head.revision /\ head.version = q.head.version

Recheck ==
  /\ reading.pc = "recheck"
  /\ StillCurrent(reading.query)
  /\ reading' = [reading EXCEPT !.pc = "retain"]
  /\ UNCHANGED <<now, published, manifests, head, answers>>

\* create_query_snapshot.
Retain ==
  /\ reading.pc = "retain"
  /\ answers' = answers \cup {reading.result}
  /\ reading' = Idle
  /\ UNCHANGED <<now, published, manifests, head>>

\* Authorization is withdrawn, the view is stale, the storage fails, or the window
\* exceeds its time budget, which is answered without any case.
Fail == reading # Idle /\ reading' = Idle /\ UNCHANGED <<now, published, manifests, head, answers>>

Next ==
  \/ Tick \/ MoveHead
  \/ \E d \in Drafts : Publish(d)
  \/ \E m \in Manifests : PublishSource(m)
  \/ \E p \in Policies : Ask(p)
  \/ FetchSource \/ FetchWindow \/ Recheck \/ Retain \/ Fail

Spec == Init /\ [][Next]_vars

-----------------------------------------------------------------------------
TypeOK ==
  /\ now \in Instants
  /\ published \in [Drafts -> Instants \cup {None}]
  /\ manifests \in [Manifests -> Instants \cup {None}]
  /\ head \in View

Ready == {a \in answers : a.state = "READY"}

\* An answer is of one view of the Episode that asks, whatever moved meanwhile.
OfOneView == \A a \in Ready : a.seen = a.query.head

\* Revisions that were known by the cutoff, with the evidence that they rest on.
Evidenced == {d \in Drafts : Known(d) /\ \E m \in SourceOf(d.profile) : InTime(m)}

\* An answer is whole and in order: each Episode with evidence of the cutoff is a
\* case or is said to be excluded, in one revision that no such evidence
\* supersedes; and no case tells what was not known, mature and curated then.
AnswersAreWhole ==
  \A a \in Ready :
    LET cases == Range(a.cases)
        told == cases \cup a.excluded
    IN  /\ \A d \in Evidenced : \E c \in told : c.episode = d.episode
        /\ \A b, c \in told : b.episode = c.episode => b = c
        /\ \A c \in cases : \A e \in {d \in Evidenced : d.episode = c.episode} :
             e.id = c.id \/ \E d \in Evidenced : d.id = c.id /\ Later(d, e)
        /\ \A c \in cases : \A t \in c.claims : t.curated /\ t.known <= Cutoff /\ t.matures \in {None} \cup 0..Cutoff
        /\ \A i, j \in DOMAIN a.cases : i < j => Before(a.query.policy, a.cases[i], a.cases[j])

\* A manifest of a revision of the past that came to the table after the cutoff.
LateSource == \E d \in Drafts : Known(d) /\ \E m \in Manifests :
  d.profile # None /\ m.source = d.profile.source /\ manifests[m] # None /\ ~InTime(m)

\* "future evidence cannot cause an overflow state or displace an as-of-cutoff
\* candidate": one question has one answer, whenever it is asked.
OneAnswer ==
  \A a, b \in answers : a.query = b.query => [a EXCEPT !.seen = b.seen] = b

\* It does, unless a manifest came late.
OneAnswerInTime == LateSource \/ OneAnswer

HistoryIsAsKnown == TypeOK /\ OfOneView /\ AnswersAreWhole /\ OneAnswerInTime
=============================================================================

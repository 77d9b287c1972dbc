----------------------------- MODULE RcaAnalysis ----------------------------
(***************************************************************************)
(* The observational RCA of application/rca.py: from the cohort facts that *)
(* an Episode revision carries to a descriptive comparison of the affected *)
(* cohort with its controls.  A behaviour is a sequence of revisions, each *)
(* with one more fact; the answers are those of a query at one cutoff, by  *)
(* a read and by a durable job.                                            *)
(***************************************************************************)
EXTENDS Integers, FiniteSets

CONSTANTS Controls,      \* control cohorts; "affected" is the affected one
          Groups,        \* dependence identities: what varies together
          Samples,
          Factors,
          Instants,
          Cutoff,        \* the query's knowledge cutoff
          Onset,         \* the observed onset
          AffectedEnd,   \* the end of the affected cohort's interval
          ReadLimit,     \* MAX_RCA_SYNCHRONOUS_SAMPLE_FACTS
          JobLimit,      \* MAX_RCA_SAMPLE_FACTS
          MaxFactors,    \* MAX_RCA_FACT_IDENTITIES, the bound on associations
          Facts,         \* the facts and
          Claims         \* the claims that revisions may add

MinGroups == 2           \* MIN_INDEPENDENT_AFFECTED_GROUPS, _CONTROL_GROUPS

Cohorts == Controls \cup {"affected"}

Fact == {f \in [cohort: Cohorts, group: Groups, sample: Samples,
                factors: SUBSET Factors, event: Instants, available: Instants] :
           f.event <= f.available}

\* Claims about time: a candidate change, the start of a control regime, an
\* intervention said to precede or follow what it is linked to, and a claim of
\* another Episode that matures at the instant it is linked to.
Claim == {c \in [kind: {"CANDIDATE_CHANGE", "CONTROL_REGIME_START", "INTERVENTION_CLAIM",
                        "HISTORICAL_CLAIM"},
                 event: Instants, available: Instants, linked: Instants,
                order: {"PRECEDES", "FOLLOWS"}] :
            c.event <= c.available}

Qualities == [eligibility: {"QUALIFIED", "UNQUALIFIED", "INVALID"}, matches: BOOLEAN]

VARIABLES facts,    \* the evidence facts of the latest revision
          claims,   \* its temporal facts
          quality   \* eligibility of each control cohort, and whether its context,
                    \* characteristic, unit and dimensions match the affected one's

vars == <<facts, claims, quality>>

-----------------------------------------------------------------------------
\* Mistake: what had happened by the cutoff counts, known or not.
HadHappened(f) == f.event <= Cutoff

\* What had happened and was known by the cutoff.
Visible(f) == f.event <= Cutoff /\ f.available <= Cutoff

Seen == {f \in facts : Visible(f)}
SeenClaims == {c \in claims : c.available <= Cutoff}

\* One dependence identity of a cohort cannot span distinct samples.
Consistent ==
  \A f, g \in Seen : (f.cohort = g.cohort /\ f.group = g.group) => f.sample = g.sample

\* Mistake: every fact counts.
EachFact(cohorts) ==
  {[group |-> f, factors |-> f.factors] : f \in {x \in Seen : x.cohort \in cohorts}}

\* The independent groups of some cohorts.  A group that several control
\* cohorts repeat is one group, with the factors of all its facts.
GroupsOf(cohorts) ==
  {[group |-> g, factors |-> UNION {f.factors : f \in {x \in Seen : x.cohort \in cohorts /\ x.group = g}}] :
     g \in {f.group : f \in {x \in Seen : x.cohort \in cohorts}}}

With(groups, factor) == Cardinality({g \in groups : factor \in g.factors})

Affected == GroupsOf({"affected"})
Control == GroupsOf(Controls)
CommonFactors == UNION {g.factors : g \in Affected \cup Control}

\* Counts among the affected and the control groups, and the difference of the
\* two rates over the product of their denominators.
Commonality(factor) ==
  LET a == Cardinality(Affected)
      c == Cardinality(Control)
  IN  [affected |-> With(Affected, factor), controls |-> With(Control, factor),
       difference |-> With(Affected, factor) * c - With(Control, factor) * a]

\* Mistake: an invalid control cohort among valid ones is overlooked.
SomeQualified == \E c \in Controls : quality[c].eligibility = "QUALIFIED" /\ quality[c].matches

AllQualified == \A c \in Controls : quality[c].eligibility = "QUALIFIED" /\ quality[c].matches

\* Invalid controls come before unqualified or unmatched ones, and these before
\* too few independent groups.
State ==
  IF \E c \in Controls : quality[c].eligibility = "INVALID" THEN "INVALID_CONTROLS"
  ELSE IF ~AllQualified THEN "UNQUALIFIED_CONTROLS"
  ELSE IF \/ Controls = {}
          \/ Cardinality(Affected) < MinGroups
          \/ Cardinality(Control) < MinGroups THEN "INSUFFICIENT_CONTROLS"
  ELSE "READY"

Associations ==
  IF State = "READY" THEN [x \in CommonFactors |-> Commonality(x)] ELSE <<>>

\* Claims that what is known of the times contradicts.
Contradicted(c) ==
  \/ c.kind = "CANDIDATE_CHANGE" /\ c.event > Onset
  \/ c.kind = "CONTROL_REGIME_START" /\ c.event > AffectedEnd
  \/ /\ c.kind = "INTERVENTION_CLAIM"
     /\ IF c.order = "PRECEDES" THEN c.event > c.linked ELSE c.event < c.linked
  \/ c.kind = "HISTORICAL_CLAIM" /\ c.linked > Cutoff

\* What a result may be, when it is made and when it is read back: no comparison
\* unless it is READY, and no more factors than it holds.
Acceptable(result) ==
  /\ Cardinality(DOMAIN result.associations) <= MaxFactors
  /\ result.state # "READY" => result.associations = <<>>

\* The result, or why there is none: too much for a read, which a job then does,
\* too much for a job, inconsistent facts, or a result that is not acceptable.
Analyze(limit, exceeded) ==
  LET result == [state |-> State, affected |-> Cardinality(Affected),
                 controls |-> Cardinality(Control), associations |-> Associations,
                 included |-> Cardinality(Seen),
                 contradictions |-> {c \in SeenClaims : Contradicted(c)}]
  IN  CASE Cardinality(Seen) > limit -> [state |-> exceeded]
        [] Cardinality(Seen) <= limit /\ ~(Consistent /\ Acceptable(result)) -> [state |-> "REJECTED"]
        [] OTHER -> result

Read == Analyze(ReadLimit, "MATERIALIZATION_REQUIRED")
Job == Analyze(JobLimit, "REJECTED")

-----------------------------------------------------------------------------
Init == facts = {} /\ claims = {} /\ quality \in [Controls -> Qualities]

\* The next revision of the Episode has one more fact, or one more claim.
Learn(f) == facts' = facts \cup {f} /\ UNCHANGED <<claims, quality>>
Claimed(c) == claims' = claims \cup {c} /\ UNCHANGED <<facts, quality>>

Next ==
  \/ Cardinality(facts) <= JobLimit /\ \E f \in Facts \ facts : Learn(f)
  \/ claims = {} /\ \E c \in Claims : Claimed(c)

Spec == Init /\ [][Next]_vars

-----------------------------------------------------------------------------
TypeOK == facts \subseteq Fact /\ claims \subseteq Claim /\ quality \in [Controls -> Qualities]

\* A comparison is only given with qualified, matching controls and two groups
\* on either side that are independent; repeating a measurement does not make
\* it two, and no rate is out of range.
ReadyIsEarned ==
  Job.state = "READY" =>
    /\ \A c \in Controls : quality[c] = [eligibility |-> "QUALIFIED", matches |-> TRUE]
    /\ \E f, g \in Seen : f.cohort = "affected" /\ g.cohort = "affected" /\ f.group # g.group
    /\ \E f, g \in Seen : f.cohort \in Controls /\ g.cohort \in Controls /\ f.group # g.group
    /\ \A x \in DOMAIN Job.associations :
         LET n == Job.associations[x]
         IN  /\ n.affected \in 0..Job.affected /\ n.controls \in 0..Job.controls
             /\ n.affected + n.controls > 0
             /\ n.difference \in -(Job.affected * Job.controls)..(Job.affected * Job.controls)

\* "Run the larger, still hard-bounded contract": what a read can answer, the
\* job answers in the same way.
JobAgreesWithRead == Read.state # "MATERIALIZATION_REQUIRED" => Job = Read

\* A fact that was not known by the cutoff changes nothing that is told, and a
\* repetition of a group's fact changes no count.
FactsCountOnce ==
  [][LET new == facts' \ facts
     IN  /\ (\E f \in new : f.event > Cutoff \/ f.available > Cutoff) => Job' = Job
         /\ (/\ \E f \in new, g \in Seen : f.cohort = g.cohort /\ f.group = g.group
                                             /\ f.factors \subseteq g.factors
             /\ Job.state \notin {"REJECTED"} /\ Job'.state \notin {"REJECTED"}) =>
              /\ Job'.state = Job.state
              /\ Job'.associations = Job.associations
              /\ <<Job'.affected, Job'.controls>> = <<Job.affected, Job.controls>>]_vars

AnalysisIsSound == TypeOK /\ ReadyIsEarned /\ JobAgreesWithRead
=============================================================================

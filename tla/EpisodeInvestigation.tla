------------------------ MODULE EpisodeInvestigation ------------------------
(***************************************************************************)
(* The composed view of one Episode: application/investigation.py over     *)
(* application/episodes.py.  A reader takes the brief and then composes    *)
(* four components for it, each by reads of its own, while revisions are   *)
(* published and commands move the workflow.  Each component fails alone.  *)
(*                                                                         *)
(* What the components compute is NextCheckPlanner's, ComparableHistory's, *)
(* RcaAnalysis's and RcaMaterialization's; here they read and check the    *)
(* view that they are asked about.                                         *)
(***************************************************************************)
EXTENDS Naturals, Sequences

CONSTANTS MaxRevision, MaxVersion,  \* bounds of the model
          None

States == {"READY", "UNAVAILABLE", "STALE", "MATERIALIZATION_REQUIRED", "PENDING", "FAILED"}
Components == {"workflow", "profile", "planner", "history", "rca"}

\* The profile that a revision carries: none, one that is malformed or not bound
\* to its revision, or one of a cycle.
Kinds == {"none", "unbound", "bound"}
Profile == [kind: Kinds, cycle: Nat]

VARIABLES head,      \* current revision and, of the workflow, version, cycle and the
                     \* revision that its last command viewed
          services,  \* which of "history" and "jobs" this deployment binds
          profiles,  \* profiles[r]: the profile of revision r
          jobs,      \* status of the RCA job of each query that has one
          reading,   \* what the reader is doing
          given,     \* the last investigation given, or None
          quiet      \* history: has nothing moved or failed since the reader began?

vars == <<head, services, profiles, jobs, reading, given, quiet>>

Queries == [revision: 1..MaxRevision, version: 0..MaxVersion]
Statuses == {"PENDING", "RUNNING", "READY", "STALE", "FAILED"}
Idle == [pc |-> "idle"]

Init ==
  /\ head = [revision |-> 1, version |-> 0, cycle |-> 1, viewed |-> 1]
  /\ services \in SUBSET {"history", "jobs"}
  /\ \E k \in Kinds : profiles = <<[kind |-> k, cycle |-> 1]>>
  /\ jobs = [q \in {} |-> None]
  /\ reading = Idle /\ given = None /\ quiet = FALSE

-----------------------------------------------------------------------------
\* External: a publication, whose profile may be of an earlier cycle, a command,
\* and the worker of the RCA jobs.
Publish ==
  /\ head.revision < MaxRevision
  /\ head' = [head EXCEPT !.revision = @ + 1]
  /\ \E k \in Kinds, c \in 1..head.cycle :
       profiles' = Append(profiles, [kind |-> k, cycle |-> c])
  /\ quiet' = FALSE
  /\ UNCHANGED <<jobs, reading, given>>

Command ==
  /\ head.version < MaxVersion
  /\ \E c \in {head.cycle, head.cycle + 1}, r \in 1..head.revision :
       head' = [head EXCEPT !.version = @ + 1, !.cycle = c, !.viewed = r]
  /\ quiet' = FALSE
  /\ UNCHANGED <<profiles, jobs, reading, given>>

Work(q) ==
  /\ jobs[q] \in {"PENDING", "RUNNING"}
  /\ \E s \in Statuses \ {jobs[q], "PENDING"} : jobs' = [jobs EXCEPT ![q] = s]
  /\ UNCHANGED <<head, profiles, reading, given, quiet>>

-----------------------------------------------------------------------------
At(pc) == reading.pc = pc
Goto(pc) == reading' = [reading EXCEPT !.pc = pc]

\* A component and, for history, the view that it was read at.
Is(state) == [state |-> state, of |-> None]
Read(state) == [state |-> state, of |-> [head EXCEPT !.viewed = None]]
With(name, c) == [reading.parts EXCEPT ![name] = c]

Give(parts) ==
  /\ given' = [brief |-> reading.brief, parts |-> parts, quiet |-> quiet']
  /\ reading' = Idle

\* get_episode_brief: the current revision and workflow, in one transaction.
ReadBrief ==
  /\ At("idle")
  /\ reading' = [pc |-> "workflow",
                 brief |-> [revision |-> head.revision, version |-> head.version],
                 parts |-> [c \in Components |-> Is("UNAVAILABLE")]]
  /\ quiet' = TRUE /\ given' = None
  /\ UNCHANGED <<head, profiles, jobs>>

\* Mistake: the versions need not agree.
SameRevision == head.viewed = reading.brief.revision

\* The revision vector of the workflow is its version and the revision that its
\* last command viewed.
SameVector == head.version = reading.brief.version /\ head.viewed = reading.brief.revision

\* The workflow, the profile, and whether both are of one cycle.  A workflow that
\* is stale is still known to have its cycle; one that cannot be read is not.
ComposeOn(workflow, known) ==
  LET p == profiles[reading.brief.revision]
      parts == With("workflow", workflow)
      both == [parts EXCEPT !["profile"] = Read("READY")]
  IN  CASE p.kind = "none" -> Give(parts)
        [] p.kind = "unbound" ->
             \E s \in {"STALE", "FAILED"} : Give([parts EXCEPT !["profile"] = Is(s)])
        [] p.kind = "bound" /\ ~known -> Give([both EXCEPT !["planner"] = Is("STALE")])
        [] p.kind = "bound" /\ known /\ p.cycle # head.cycle ->
             Give([c \in Components |-> IF c = "workflow" THEN workflow ELSE Is("STALE")])
        [] OTHER -> reading' = [reading EXCEPT !.pc = "planner", !.parts = both] /\ UNCHANGED given

ReadWorkflow ==
  /\ At("workflow")
  /\ \/ /\ UNCHANGED quiet
        /\ ComposeOn(Read(IF SameVector THEN "READY" ELSE "STALE"), TRUE)
     \/ /\ quiet' = FALSE
        /\ ComposeOn(Is("FAILED"), FALSE)
  /\ UNCHANGED <<head, profiles, jobs>>

-----------------------------------------------------------------------------
Cycle == profiles[reading.brief.revision].cycle

\* A component is there, or another one is next.
Done(name, c, pc) == reading' = [reading EXCEPT !.pc = pc, !.parts = With(name, c)]

\* Any of its calls may fail, which is told of this component only.
Fails(name, pc) == quiet' = FALSE /\ Done(name, Is("FAILED"), pc)

\* The planner's two reads of the workflow, NextCheckPlanner.
SameView == SameVector /\ head.cycle = Cycle

ReadForPlan(pc, next, done) ==
  /\ At(pc)
  /\ \/ SameView /\ UNCHANGED quiet /\ (IF done THEN Done("planner", Read("READY"), next) ELSE Goto(next))
     \/ ~SameView /\ UNCHANGED quiet /\ Done("planner", Is("STALE"), "history")
     \/ Fails("planner", "history")
  /\ UNCHANGED <<head, profiles, jobs, given>>

SameBundle ==
  head.revision = reading.brief.revision /\ head.version = reading.brief.version

\* The two reads of the current bundle, ComparableHistory; the second one does not
\* look at the cycle.
BundleOf(pc) == SameBundle /\ (pc = "history" => head.cycle = Cycle)

ReadForHistory(pc, next, done) ==
  /\ At(pc) /\ "history" \in services
  /\ \/ BundleOf(pc) /\ UNCHANGED quiet /\ (IF done THEN Done("history", Read("READY"), next) ELSE Goto(next))
     \/ ~BundleOf(pc) /\ UNCHANGED quiet /\ Done("history", Is("STALE"), "rca")
     \/ Fails("history", "rca")
  /\ UNCHANGED <<head, profiles, jobs, given>>

\* There are too many candidates, or there is no such service.
NoHistory ==
  /\ At("history")
  /\ Done("history", Is(IF "history" \in services THEN "MATERIALIZATION_REQUIRED" ELSE "UNAVAILABLE"), "rca")
  /\ UNCHANGED <<head, profiles, jobs, given, quiet>>

-----------------------------------------------------------------------------
Query == [revision |-> reading.brief.revision, version |-> reading.brief.version]

GiveRca(c) == Give(With("rca", c))

\* A job in progress or one that ended without a result is told as it is; a result
\* of a job, or an analysis, needs the current facts.
RcaStatus ==
  /\ At("rca") /\ UNCHANGED quiet
  /\ IF "jobs" \in services /\ Query \in DOMAIN jobs /\ jobs[Query] # "READY"
     THEN GiveRca(Is(IF jobs[Query] = "RUNNING" THEN "PENDING" ELSE jobs[Query]))
     ELSE Goto("facts") /\ UNCHANGED given
  /\ UNCHANGED <<head, profiles, jobs>>

\* load_current_rca_facts: the brief and its profile...
ReadFacts ==
  /\ At("facts") /\ UNCHANGED quiet
  /\ IF head.revision = reading.brief.revision
     THEN Goto("loop") /\ UNCHANGED given
     ELSE GiveRca(Is("STALE"))
  /\ UNCHANGED <<head, profiles, jobs>>

\* Mistake: the facts are of the revision, whatever the workflow did.
CycleOnly == head.cycle = Cycle

\* ... then the workflow: cycle and version must be those of the query.
FactsCurrent == head.cycle = Cycle /\ head.version = reading.brief.version

\* Small samples are analyzed, larger ones by a job if there are jobs.
ReadLoop ==
  /\ At("loop") /\ UNCHANGED quiet
  /\ IF ~FactsCurrent THEN GiveRca(Is("STALE")) /\ UNCHANGED jobs
     ELSE \/ GiveRca(Read("READY")) /\ UNCHANGED jobs
          \/ /\ Query \notin DOMAIN jobs /\ "jobs" \in services
             /\ jobs' = [q \in DOMAIN jobs \cup {Query} |-> IF q = Query THEN "PENDING" ELSE jobs[q]]
             /\ GiveRca(Is("PENDING"))
          \/ /\ "jobs" \notin services
             /\ GiveRca(Is("MATERIALIZATION_REQUIRED")) /\ UNCHANGED jobs
  /\ UNCHANGED <<head, profiles>>

RcaFails ==
  /\ reading.pc \in {"rca", "facts", "loop"}
  /\ quiet' = FALSE
  /\ GiveRca(Is("FAILED"))
  /\ UNCHANGED <<head, profiles, jobs>>

Step ==
  \/ Publish \/ Command \/ \E q \in DOMAIN jobs : Work(q)
  \/ ReadBrief \/ ReadWorkflow
  \/ ReadForPlan("planner", "planned", FALSE) \/ ReadForPlan("planned", "history", TRUE)
  \/ ReadForHistory("history", "retrieved", FALSE) \/ ReadForHistory("retrieved", "rca", TRUE)
  \/ NoHistory \/ RcaStatus \/ ReadFacts \/ ReadLoop \/ RcaFails

Next == UNCHANGED services /\ Step

Spec == Init /\ [][Next]_vars

-----------------------------------------------------------------------------
TypeOK ==
  /\ services \subseteq {"history", "jobs"}
  /\ head.revision \in 1..MaxRevision /\ head.version \in 0..MaxVersion
  /\ profiles \in Seq(Profile) /\ Len(profiles) = head.revision
  /\ DOMAIN jobs \subseteq Queries /\ \A q \in DOMAIN jobs : jobs[q] \in Statuses
  /\ given # None => \A c \in Components : given.parts[c].state \in States

\* Whatever is READY side by side was read while the Episode was at the brief that
\* it is shown with, in version and in cycle; an analysis rests on the brief's
\* revision, and what is planned on a command that had seen it.
ReadyIsOfTheBrief ==
  given # None =>
    LET p == given.parts
        ready == {c \in Components : p[c].state = "READY"}
        cycle == profiles[given.brief.revision].cycle
    IN  /\ \A c \in ready \ {"profile"} : p[c].of.version = given.brief.version
        /\ \A c \in ready \cap {"planner", "history", "rca"} :
             p[c].of.cycle = cycle /\ profiles[given.brief.revision].kind = "bound"
        /\ "history" \in ready => p["history"].of.revision = given.brief.revision
        /\ ready \cap {"planner", "history", "rca"} # {} => "profile" \in ready

\* Nothing is called stale or failed when nothing moved and nothing failed.
QuietIsReady ==
  given # None /\ given.quiet /\ head.viewed = head.revision /\ given.brief.revision = head.revision
    /\ profiles[head.revision] = [kind |-> "bound", cycle |-> head.cycle]
    /\ quiet /\ given.brief.version = head.version =>
      \A c \in Components :
        c # "rca" => given.parts[c].state \notin {"STALE", "FAILED"}

InvestigationIsCoherent == TypeOK /\ ReadyIsOfTheBrief /\ QuietIsReady
=============================================================================

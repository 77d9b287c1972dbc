----------------------------- MODULE FamilyCenter -----------------------------
(***************************************************************************)
(* The qualification of one family: FamilyCenterService of                 *)
(* application/family_center.py for one workspace identity.                *)
(*                                                                         *)
(* Gates are recorded, judged and promoted while the source publishes and  *)
(* fails beside them, and instants are read from the clocks of several     *)
(* hosts.  The state of a gate is derived whenever somebody looks.  A      *)
(* command holds the row of the workspace, so that it is one step: what    *)
(* the source does before its commit, it could have done just after; the   *)
(* clock that it reads more than once stands still meanwhile, and so does  *)
(* the row of a workspace while somebody looks at the source for it.  Who  *)
(* may command and on which version is CommandCore's; fingerprints of an   *)
(* identity cannot change without its workspace; FAIL stands for BLOCKED   *)
(* too.  Definitions marked "Mistake" are as in ArtifactStore.             *)
(***************************************************************************)
EXTENDS Integers, SequencesExt

CONSTANTS Stages,       \* the required stages, in their order
          NotApplicable, Independent,   \* stages that policy exempts, that others judge
          Subjects,
          Ahead,        \* how far the clocks of hosts are ahead
          Freshness,    \* of the source
          Lifetimes,    \* of evidence
          MaxClock, MaxVersion, MaxSnapshots,   \* bounds of the model
          None

VARIABLES now,
          source,       \* the capability of O4 and its latest snapshot
          version,      \* of the workspace
          gates,        \* the latest of gate_revisions for each stage
          promotions    \* promotion_records

vars == <<now, source, version, gates, promotions>>

Position(stage) == CHOOSE n \in DOMAIN Stages : Stages[n] = stage
Before(stage) == {Stages[n] : n \in 1 .. Position(stage) - 1}
AfterReality(stage) == "DATA_REALITY" \in Before(stage)

GateStages == {"DISCOVER_MAP", "DATA_REALITY", "REPLAY", "GOLDEN", "SHADOW", "QUALIFY"}

\* Each stage occurs once, in the order of all stages, which DISCOVER_MAP and
\* DATA_REALITY open; DATA_REALITY is observed, never exempted or judged.
StagesAreValid ==
  /\ Stages \in Seq(GateStages) /\ IsInjective(Stages)
  /\ {"DISCOVER_MAP", "DATA_REALITY"} \subseteq ToSet(Stages)
  /\ \A stage \in ToSet(Stages) \ {"DISCOVER_MAP", "DATA_REALITY"} : AfterReality(stage)
  /\ NotApplicable \cap Independent = {}
  /\ "DATA_REALITY" \notin NotApplicable \cup Independent

\* _source_record_identity
Reality == [snapshot : 0 .. MaxSnapshots, state : {"READY", "STALE", "UNAVAILABLE", "BLOCKED"}]

\* An id is the version of the workspace that it was made for.
Revision == [id : 2 .. MaxVersion, stage : ToSet(Stages), state : {"PENDING", "PASS", "FAIL", "STALE", "NOT_APPLICABLE"},
             author : Subjects \cup {"O4"}, judge : Subjects \cup {None},
             reality : Reality \cup {None}, published : Nat, expires : Nat \cup {None},
             inputs : UNION {[S -> 2 .. MaxVersion] : S \in SUBSET ToSet(Stages)},
             snapshot : 0 .. MaxSnapshots]
Promotion == [revisions : [ToSet(Stages) -> 2 .. MaxVersion], reality : Reality,
              version : 2 .. MaxVersion]

TypeOK ==
  /\ now \in 0 .. MaxClock
  /\ source \in [snapshot : 0 .. MaxSnapshots, available : 0 .. MaxClock, up : BOOLEAN]
  /\ version \in 1 .. MaxVersion
  /\ gates \in [ToSet(Stages) -> Revision \cup {None}]
  /\ promotions \subseteq Promotion

Init ==
  /\ now = 0
  /\ source = [snapshot |-> 0, available |-> 0, up |-> FALSE]
  /\ version = 1
  /\ gates = [s \in ToSet(Stages) |-> None]
  /\ promotions = {}

\* The source publishes a snapshot, or comes and goes.
PublishSnapshot ==
  /\ source.snapshot < MaxSnapshots
  /\ source' = [snapshot |-> source.snapshot + 1, available |-> now, up |-> TRUE]
  /\ UNCHANGED <<now, version, gates, promotions>>

SwitchCapability ==
  /\ source.snapshot > 0
  /\ source' = [source EXCEPT !.up = ~source.up]
  /\ UNCHANGED <<now, version, gates, promotions>>

-----------------------------------------------------------------------------
\* current_source_reality: what O4 has at the instant of a host.
CurrentReality(at) ==
  [snapshot |-> source.snapshot,
   state |-> CASE source.available > at -> "BLOCKED"
               [] source.available <= at /\ ~source.up -> "UNAVAILABLE"
               [] OTHER -> IF at - source.available <= Freshness THEN "READY" ELSE "STALE"]

Exempt(gate) == gate.state = "NOT_APPLICABLE" /\ gate.stage \in NotApplicable
Expired(gate, at) == gate.expires # None /\ gate.expires <= at

\* _require_predecessors_ready
PredecessorsReady(stage, at) ==
  /\ \A p \in Before(stage) :
       /\ gates[p] # None
       /\ LET gate == gates[p] IN
            /\ gate.published <= at
            /\ gate.state = "PASS" \/ Exempt(gate)
            /\ ~Expired(gate, at)
  /\ AfterReality(stage) =>
       LET gate == gates["DATA_REALITY"] IN
         gate.state = "PASS" /\ gate.reality = CurrentReality(at)

\* The prior stages whose evidence a stage must name among its inputs.
InputStages(stage) == Before(stage) \cap {"REPLAY", "GOLDEN", "SHADOW"}

-----------------------------------------------------------------------------
\* Commands.  at: the clock of the host that executes one.

\* _append_gate
AppendGate(revision) ==
  /\ version < MaxVersion
  /\ version' = version + 1
  /\ gates' = [gates EXCEPT ![revision.stage] = revision]
  /\ UNCHANGED <<now, source, promotions>>

\* What may be recorded for a stage by the author of its evidence.
Recordable(stage, state) ==
  /\ stage # "DATA_REALITY"
  /\ state = "PASS" => stage \notin Independent
  /\ state = "NOT_APPLICABLE" => stage \in NotApplicable /\ stage # "DISCOVER_MAP"

\* record_gate_evidence.  What fails or is blocked needs neither predecessors nor
\* inputs; with the artifact and the expiration that are given here it can be judged.
\* Who records says when the evidence was published, not after the host's instant,
\* and until when it is good, which may be over already.
RecordEvidence(s, stage, state, at) ==
  LET claims == state # "FAIL" IN
    /\ Recordable(stage, state)
    /\ claims => PredecessorsReady(stage, at)
    /\ claims /\ AfterReality(stage) => CurrentReality(at).state = "READY"
    /\ \E published \in 0 .. at, life \in Lifetimes :
         AppendGate([id |-> version + 1, stage |-> stage, state |-> state, author |-> s, judge |-> None,
                reality |-> IF AfterReality(stage) THEN CurrentReality(at) ELSE None,
                published |-> published, expires |-> published + life,
                inputs |-> [p \in IF claims THEN InputStages(stage) ELSE {} |-> gates[p].id],
                snapshot |-> IF claims /\ AfterReality(stage) THEN source.snapshot ELSE 0])

\* record_current_data_reality
RecordReality(at) ==
  LET reality == CurrentReality(at)
      ready == reality.state = "READY"
      expires == source.available + Freshness
  IN /\ PredecessorsReady("DATA_REALITY", at)
     /\ ready => expires > at
     /\ AppendGate([id |-> version + 1, stage |-> "DATA_REALITY", author |-> "O4", judge |-> None, reality |-> reality,
               state |-> IF ready THEN "PASS" ELSE IF reality.state = "STALE" THEN "STALE" ELSE "FAIL",
               published |-> at, expires |-> IF ready THEN expires ELSE None,
               inputs |-> <<>>, snapshot |-> source.snapshot])

\* Mistake: anybody with the capability may judge.
AnyJudge(s, gate, at) ==
  /\ gate.stage \in Independent /\ gate.state \in {"PENDING", "FAIL"}
  /\ gate.published <= at /\ gate.expires # None /\ ~Expired(gate, at)
  /\ AfterReality(gate.stage) => gate.reality = CurrentReality(at)

\* Who may judge which revision.
MayJudge(s, gate, at) ==
  /\ gate.stage \in Independent /\ gate.state \in {"PENDING", "FAIL"}
  /\ gate.author # s
  /\ gate.published <= at /\ gate.expires # None /\ ~Expired(gate, at)
  /\ AfterReality(gate.stage) => gate.reality = CurrentReality(at)

\* adjudicate_gate, of the latest revision of its stage.
Adjudicate(s, stage, decision, at) ==
  /\ gates[stage] # None
  /\ LET gate == gates[stage] IN
       /\ MayJudge(s, gate, at)
       /\ decision = "PASS" => PredecessorsReady(stage, at)
       /\ AppendGate([gate EXCEPT !.id = version + 1, !.judge = s, !.state = decision, !.published = at])

-----------------------------------------------------------------------------
\* _view: the state of a gate as of an instant.
Derived(stage, at) ==
  IF gates[stage] = None THEN "NOT_STARTED" ELSE
    LET gate == gates[stage]
        bound == stage = "DATA_REALITY" \/ AfterReality(stage)
    IN CASE gate.published > at -> "BLOCKED"
         [] gate.published <= at /\ bound /\ gate.reality # CurrentReality(at) -> "STALE"
         [] OTHER -> IF gate.state \in {"PENDING", "PASS", "NOT_APPLICABLE"} /\ Expired(gate, at)
                     THEN "EXPIRED" ELSE gate.state

PromotionReady(at) ==
  /\ \A stage \in ToSet(Stages) :
       \/ Derived(stage, at) = "PASS"
       \/ Derived(stage, at) = "NOT_APPLICABLE" /\ stage \in NotApplicable
  /\ CurrentReality(at).state = "READY"

CurrentRevisions == [s \in ToSet(Stages) |-> gates[s].id]

\* promote
Promote(at) ==
  /\ PromotionReady(at)
  /\ version < MaxVersion
  /\ version' = version + 1
  /\ promotions' = promotions \cup {[revisions |-> CurrentRevisions, reality |-> CurrentReality(at),
                                     version |-> version']}
  /\ UNCHANGED <<now, source, gates>>

\* Mistake: what was promoted stays promoted.
PromotedOnce(promotion, at) == TRUE

\* _promotion_views
CurrentPromotion(promotion, at) ==
  /\ promotion.revisions = CurrentRevisions
  /\ promotion.reality = CurrentReality(at)
  /\ CurrentReality(at).state = "READY"
  /\ promotion.version = version

\* The qualification axis of operations.py: CURRENT.
Qualified(at) ==
  PromotionReady(at) /\ \E p \in promotions : CurrentPromotion(p, at)

-----------------------------------------------------------------------------
Tick == now < MaxClock /\ now' = now + 1 /\ UNCHANGED <<source, version, gates, promotions>>

Next ==
  \/ PublishSnapshot \/ SwitchCapability \/ Tick
  \/ \E ahead \in Ahead :
       \/ \E s \in Subjects, stage \in ToSet(Stages) :
            \/ \E state \in {"PENDING", "PASS", "FAIL", "NOT_APPLICABLE"} :
                 RecordEvidence(s, stage, state, now + ahead)
            \/ \E decision \in {"PASS", "FAIL"} : Adjudicate(s, stage, decision, now + ahead)
       \/ RecordReality(now + ahead)
       \/ Promote(now + ahead)

Spec == Init /\ [][Next]_vars

-----------------------------------------------------------------------------
\* A family is reported as qualified only while all of this holds at once:
\* every stage has passed or is exempt, on the snapshot that the source has
\* now, and is not expired; evidence that others judge was judged by somebody
\* who is not its author; and nothing was recorded since it was promoted.
QualifiedIsEarned ==
  \A ahead \in Ahead : LET at == now + ahead IN Qualified(at) =>
    /\ source.up /\ at - source.available <= Freshness
    /\ \A stage \in ToSet(Stages) : LET gate == gates[stage] IN
         /\ gate.state = "PASS" \/ Exempt(gate)
         /\ gate.published <= at /\ gate.expires > at
         /\ stage # "DISCOVER_MAP" => gate.reality.snapshot = source.snapshot
         /\ stage \in Independent => gate.judge \notin {None, gate.author}
    /\ \E p \in promotions : p.version = version

\* What passed after the replay names the source snapshot and the revisions of
\* the stages before it that it was passed on.
PassesOnItsInputs ==
  \A stage \in ToSet(Stages) : gates[stage] # None => LET gate == gates[stage] IN
    gate.state = "PASS" /\ AfterReality(stage) =>
      gate.snapshot = gate.reality.snapshot /\ DOMAIN gate.inputs = InputStages(stage)
=============================================================================

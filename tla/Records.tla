-------------------------------- MODULE Records -------------------------------
(***************************************************************************)
(* What is kept for good, side by side: artifacts, release slots, the      *)
(* value ledger, the family centre, decision snapshots, backups, release   *)
(* identity, and how a deployment is composed and started.  They share no  *)
(* state; each step is one of one of them.                                 *)
(***************************************************************************)
EXTENDS Integers, Sequences, FiniteSets

CONSTANTS Digests, Scopes, Metadata, Clients, Catalogs,
          Slots, Roots, Releases, Inputs, Operators, MaxGeneration,
          Subjects, Ahead, Categories, ValueClock, MaxEntries, MaxReviews,
          Stages, NotApplicable, Independent, FamilyAhead, Freshness, Lifetimes, FamilyClock, FamilyVersion,
          MaxSnapshots,
          Engineers, Selectors, Texts, EpisodeVersion,
          Rows, Critical, Blobs, Backups, Rehearsals, Reviews, MaxCommits,
          Contents, Preparers, Targets, MaxEdits, MaxDrifts,
          Callers, Versions, Published,
          MaxSettings,
          None

VARIABLES catalog, file, lock, row, client, answers,
          installed, selection, disk, holder, operator, acks,
          now, entries, reviews, pending,
          time, source, version, gates, promotions,
          episode, snapshots, intents, directory, work, told,
          database, store, release, bundle, backup, target, rehearsal, review,
          checkout, preparation, inputs, environment, preflight, edits, drifts,
          binding, policy, call, opened, stuck,
          settings, report, server, admitted

Artifacts == INSTANCE ArtifactStore

Selections == INSTANCE ReleaseSlots WITH file <- selection, lock <- holder

Values == INSTANCE ValueLedger WITH MaxClock <- ValueClock

Family == INSTANCE FamilyCenter WITH
  Ahead <- FamilyAhead, MaxClock <- FamilyClock, MaxVersion <- FamilyVersion, now <- time

Decisions == INSTANCE DecisionSnapshots WITH MaxVersion <- EpisodeVersion, history <- episode

Recovery == INSTANCE BackupRehearsal WITH history <- database

Identity == INSTANCE ReleaseIdentity

Composition == INSTANCE DownstreamComposition

Starting == INSTANCE StartUp

artifactVars == <<catalog, file, lock, row, client, answers>>
slotVars == <<installed, selection, disk, holder, operator, acks>>
valueVars == <<now, entries, reviews, pending>>
familyVars == <<time, source, version, gates, promotions>>
decisionVars == <<episode, snapshots, intents, directory, work, told>>
backupVars == <<database, store, release, bundle, backup, target, rehearsal, review>>
identityVars == <<checkout, preparation, inputs, environment, preflight, edits, drifts>>
compositionVars == <<binding, policy, call, opened, stuck>>
startVars == <<settings, report, server, admitted>>
keptVars == <<artifactVars, slotVars, valueVars, familyVars, decisionVars, backupVars>>
vars == <<keptVars, identityVars, compositionVars, startVars>>

-----------------------------------------------------------------------------
\* None is neither a file nor a row.
ArtifactsAssumption == None \notin Artifacts!File /\ None \notin Metadata

\* Generations are counted; None is neither a state of the file nor an operator.
SlotsAssumption == MaxGeneration \in Nat /\ None \notin Selections!State /\ None \notin Operators

\* The clocks of hosts need not agree (see ValueLedger); None is no number.
ValuesAssumption ==
  /\ Ahead \subseteq Nat
  /\ ValueClock \in Nat /\ MaxEntries \in Nat /\ MaxReviews \in Nat
  /\ None \notin Nat /\ None \notin Values!Entry \cup Values!Review

\* An artifact's entry is among the critical rows (BackupRehearsal).
RecoveryAssumption ==
  /\ Critical \subseteq Rows /\ Blobs \subseteq Critical /\ MaxCommits \in Nat
  /\ None \notin Recovery!Database \cup Recovery!Archive \cup Recovery!Manifest

\* An Episode has a first version.
DecisionsAssumption == EpisodeVersion \in Nat \ {0}

\* Stages are in their order, and time is counted; the clocks of hosts need not agree.
FamilyAssumption ==
  /\ Family!StagesAreValid
  /\ FamilyAhead \cup Lifetimes \subseteq Nat /\ Freshness \in Nat /\ FamilyClock \in Nat
  /\ FamilyVersion \in Nat \ {0} /\ MaxSnapshots \in Nat
  /\ None \notin Subjects \cup Nat \cup Family!Reality \cup Family!Revision

\* None is no record of ReleaseIdentity.
IdentityAssumption ==
  None \notin Identity!Preparation \cup Identity!InstallInputs
                \cup Identity!Installation \cup Identity!Examination

\* What a caller of DownstreamComposition can be at, and end with.
CallPcs == {"public", "shape", "identity", "source", "runtime", "server", "artifacts", "policy",
            "services", "composed", "done"}
CallReasons == {"MISSING_REQUIRED_PROVIDER", "INCOMPATIBLE_PROVIDER_CONTRACT", "CONTRACT_PASS",
                "POLICY_SCHEMA_UNSUPPORTED", "SOURCE_BINDING_MISMATCH", "COMPOSITION_FAIL_CLOSED"}
ProviderCalls ==
  [pc : CallPcs, purpose : {"contract", "preflight", "composition", "start"},
   touched : SUBSET Composition!Category, policy : Versions \cup {None}, moved : BOOLEAN,
   inventory : [Composition!Category -> {"MISSING", "INCOMPATIBLE", "COMPATIBLE"}],
   reason : CallReasons \cup {None}]

\* None is neither a fault nor a reason nor a call.
CompositionAssumption ==
  Published \in Versions /\ None \notin Composition!Faults \cup CallReasons \cup ProviderCalls

\* None is no verdict.
StartAssumption == None \notin {"PASS", "runs", "refused", "failed"}

ASSUME RecordsAssumption ==
  /\ ArtifactsAssumption /\ SlotsAssumption /\ ValuesAssumption /\ FamilyAssumption
  /\ DecisionsAssumption /\ RecoveryAssumption /\ IdentityAssumption /\ CompositionAssumption
  /\ StartAssumption

-----------------------------------------------------------------------------
Init ==
  /\ Artifacts!Init /\ Selections!Init /\ Values!Init /\ Family!Init /\ Decisions!Init
  /\ Recovery!Init /\ Identity!Init /\ Composition!Init /\ Starting!Init

deploymentVars == <<identityVars, compositionVars, startVars>>

ArtifactStep ==
  Artifacts!Next
    /\ UNCHANGED <<slotVars, valueVars, familyVars, decisionVars, backupVars, deploymentVars>>
SelectionStep ==
  Selections!Next
    /\ UNCHANGED <<artifactVars, valueVars, familyVars, decisionVars, backupVars, deploymentVars>>
ValueStep ==
  Values!Next
    /\ UNCHANGED <<artifactVars, slotVars, familyVars, decisionVars, backupVars, deploymentVars>>
FamilyStep ==
  Family!Next
    /\ UNCHANGED <<artifactVars, slotVars, valueVars, decisionVars, backupVars, deploymentVars>>
DecisionStep ==
  Decisions!Next
    /\ UNCHANGED <<artifactVars, slotVars, valueVars, familyVars, backupVars, deploymentVars>>
RecoveryStep ==
  Recovery!Next
    /\ UNCHANGED <<artifactVars, slotVars, valueVars, familyVars, decisionVars, deploymentVars>>
IdentityStep == Identity!Next /\ UNCHANGED <<keptVars, compositionVars, startVars>>
CompositionStep == Composition!Next /\ UNCHANGED <<keptVars, identityVars, startVars>>
StartStep == Starting!Next /\ UNCHANGED <<keptVars, identityVars, compositionVars>>

Next ==
  \/ ArtifactStep \/ SelectionStep \/ ValueStep \/ FamilyStep \/ DecisionStep \/ RecoveryStep
  \/ IdentityStep \/ CompositionStep \/ StartStep

Spec == Init /\ [][Next]_vars

-----------------------------------------------------------------------------
\* A scope has one account of an artifact, and what a writer was answered
\* survives the loss of power (ArtifactStore).
ArtifactsStand ==
  Artifacts!TypeOK /\ Artifacts!RegistrationsAgree /\ Artifacts!WritesSurvive

\* Answered transitions are the history of the selection, and all slots that
\* were ever selected had one release (ReleaseSlots).
SelectionStands == Selections!TypeOK /\ Selections!AcksStand /\ Selections!OneRelease

\* No value is counted twice at any cutoff that its host could know of, and
\* validated benefit was approved by somebody else (ValueLedger).
ValueIsSound == Values!TypeOK /\ Values!NothingCountsTwice /\ Values!ValidatedIsIndependent

\* What is called qualified, a release, composed or ready to start has earned it
\* (FamilyCenter, ReleaseIdentity, DownstreamComposition, StartUp).
QualifiedIsEarned ==
  /\ Identity!ReleaseIsWhole
  /\ Composition!ComposedIsValid
  /\ Starting!RunsAsConfigured
  /\ Family!TypeOK /\ Family!QualifiedIsEarned

\* Snapshots show the Episode as it was, and there is one intent for what
\* several callers project (DecisionSnapshots).
DecisionsAreTrue == Decisions!DecisionsAreTrue

\* A rehearsal that is VERIFIED has the database of one instant and its
\* artifacts, and a review tells of all that moved (BackupRehearsal).
BackupsAreTrue ==
  /\ Recovery!TypeOK /\ Recovery!RestoredIsCaptured
  /\ Recovery!DeltasAreComplete /\ Recovery!VerifiedIsOneInstant

\* A report as known at a cutoff does not change (ValueLedger), and only the
\* Episode as it is becomes a snapshot (DecisionSnapshots).
RecordsStand == Values!AsKnownStands /\ Decisions!SnapshotsAreFresh
=============================================================================

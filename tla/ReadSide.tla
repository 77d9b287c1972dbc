-------------------------------- MODULE ReadSide --------------------------------
(***************************************************************************)
(* The read side and what runs offline, side by side: retained query       *)
(* pages, read heads, source ingress, the offline store, the in-memory     *)
(* advisory workflow and recovery evaluator, and what operations is told.  *)
(* They share no state; each step is one of one of them.                   *)
(***************************************************************************)
EXTENDS Integers, Sequences, FiniteSets

CONSTANTS Episodes, Subjects, Snapshots, PageSizes, MaxRows, Ttl, MaxState, MaxRevision,
          Entities, Revisions, HeadPublishers, Readers, MaxWorkflow, HeadClock,
          Partitions, Drafts, LegacySnapshots, SourcePublishers, SourceClock,
          Adapters, Threads, AdapterOf, Groups, LegacyGroups, Keys, GroupVersions,
          AdvisoryEpisodes, Clients, Damaged, AdvisoryVersions, MaxCheckpoints,
          Ids, Samples, Shapes, Needed, MaxAge, MaxDelay, RecoveryClock, MaxSubmissions,
          Jobs, Blobs, Gates, Inspected, Freshness, Moving, HealthClock,
          None

VARIABLES table, authority, snapshot, call, shown, instants,
          clock, workflow, revision, head, publishing, reading, bundles, history,
          now, source, capability, ingesting,
          file, writer, staged, held, open, thread, told, groups,
          repository, checkpoints, view, attention,
          submitted, counted, episode,
          tick, jobs, feed, bytes, gates, promoted, granted, cockpit

Pages == INSTANCE QuerySnapshots

Heads == INSTANCE ReadHeads WITH
  Publishers <- HeadPublishers, MaxClock <- HeadClock, instants <- history

Ingress == INSTANCE SourceIngress WITH
  Legacy <- LegacySnapshots, Publishers <- SourcePublishers, MaxClock <- SourceClock,
  snapshot <- source, publishing <- ingesting

Offline == INSTANCE OfflineStore WITH
  Legacy <- LegacyGroups, MaxVersion <- GroupVersions, lock <- held, read <- groups

Advisory == INSTANCE AdvisoryWorkflow WITH
  Episodes <- AdvisoryEpisodes, MaxVersion <- AdvisoryVersions

Recovery == INSTANCE RecoveryEvaluator WITH MaxClock <- RecoveryClock

Health == INSTANCE OperationsHealth WITH MaxClock <- HealthClock, clock <- tick, source <- feed

pagesVars == <<table, authority, snapshot, call, shown, instants>>
headsVars == <<clock, workflow, revision, head, publishing, reading, bundles, history>>
ingressVars == <<now, source, capability, ingesting>>
offlineVars == <<file, writer, staged, held, open, thread, told, groups>>
advisoryVars == <<repository, checkpoints, view, attention>>
recoveryVars == <<submitted, counted, episode>>
healthVars == <<tick, jobs, feed, bytes, gates, promoted, granted, cockpit>>
vars == <<pagesVars, headsVars, ingressVars, offlineVars, advisoryVars, recoveryVars, healthVars>>

-----------------------------------------------------------------------------
\* What the components' constants are: the bounds are numbers, and None is nothing
\* that is stored.

\* What can be selected at all, and so be retained.
Answers == {Pages!Selection(q, t) : q \in Pages!Queries, t \in [Episodes -> 0 .. MaxState]}
Rows == UNION {{answer[i] : i \in DOMAIN answer} : answer \in Answers}
Retained == [owner : Pages!Principal, query : Pages!Queries, left : 0 .. Ttl, rows : Seq(Rows)]

\* A page is asked for with a positive size.
PagesAssumption ==
  /\ IsFiniteSet(Episodes) /\ PageSizes \subseteq Nat \ {0}
  /\ MaxRows \in Nat /\ Ttl \in Nat /\ MaxState \in Nat /\ MaxRevision \in Nat
  /\ None \notin Retained /\ None \notin Pages!Cursor /\ None \notin Snapshots

\* The local states of publish() and of a bundle's two reads.
Publishing == [revision : Revisions, expected : Heads!Head \cup {None}, row : Heads!Row]
Reading == [entity : Entities, revision : Revisions, workflow : [Entities -> 0 .. MaxWorkflow]]

\* None is neither a row, nor a head, nor a transaction.
HeadsAssumption ==
  /\ MaxWorkflow \in Nat /\ HeadClock \in Nat
  /\ None \notin Heads!Row /\ None \notin Heads!Head /\ None \notin Publishing /\ None \notin Reading

\* What source_capability can say.
Capability == [state : {"READY", "STALE", "PARTIAL", "INSUFFICIENT", "UNAVAILABLE"},
               partition : Partitions, event : Ingress!Instant, available : Ingress!Instant,
               checked : Ingress!Instant, age : Nat]

\* publish() wants an age; rows of before migration 011 have none.  None is
\* neither a number nor anything that is stored.
IngressAssumption ==
  /\ SourceClock \in Nat
  /\ \A d \in Drafts : d.age \in Nat
  /\ \A d \in LegacySnapshots : d \in Ingress!Draft /\ d.age = None
  /\ None \notin Nat /\ None \notin Ingress!Draft
  /\ None \notin Capability

\* A file of an older release holds groups that there are.
OfflineAssumption ==
  /\ GroupVersions \in Nat /\ LegacyGroups \subseteq Groups /\ AdapterOf \in [Threads -> Adapters]
  /\ None \notin Nat /\ None \notin Threads /\ None \notin Adapters
  /\ None \notin Offline!Tables /\ None \notin Offline!Result

\* What a client holds.  A missing episode or view is neither an episode nor a
\* view.
ClientView == [episode : AdvisoryEpisodes, content : Advisory!Episode, restored : BOOLEAN]
AdvisoryAssumption ==
  /\ AdvisoryVersions \in Nat
  /\ None \notin Advisory!Episode /\ None \notin AdvisoryEpisodes /\ None \notin ClientView

\* RecoveryPolicy wants a positive number of samples.
RecoveryAssumption == Needed \in Nat \ {0} /\ MaxSubmissions \in Nat

HealthAssumption ==
  HealthClock \in Nat /\ Freshness \in Int /\ Inspected \subseteq Blobs /\ None \notin Nat

ASSUME ReadSideAssumption ==
  /\ PagesAssumption /\ HeadsAssumption /\ IngressAssumption /\ OfflineAssumption
  /\ AdvisoryAssumption /\ RecoveryAssumption /\ HealthAssumption

-----------------------------------------------------------------------------
Init ==
  /\ Pages!Init /\ Heads!Init /\ Ingress!Init /\ Offline!Init /\ Advisory!Init /\ Recovery!Init
  /\ Health!Init

PagesStep ==
  Pages!Next
    /\ UNCHANGED <<headsVars, ingressVars, offlineVars, advisoryVars, recoveryVars, healthVars>>
HeadsStep ==
  Heads!Next
    /\ UNCHANGED <<pagesVars, ingressVars, offlineVars, advisoryVars, recoveryVars, healthVars>>
IngressStep ==
  Ingress!Next
    /\ UNCHANGED <<pagesVars, headsVars, offlineVars, advisoryVars, recoveryVars, healthVars>>
OfflineStep ==
  Offline!Next
    /\ UNCHANGED <<pagesVars, headsVars, ingressVars, advisoryVars, recoveryVars, healthVars>>
AdvisoryStep ==
  Advisory!Next
    /\ UNCHANGED <<pagesVars, headsVars, ingressVars, offlineVars, recoveryVars, healthVars>>
RecoveryStep ==
  Recovery!Next
    /\ UNCHANGED <<pagesVars, headsVars, ingressVars, offlineVars, advisoryVars, healthVars>>
HealthStep ==
  Health!Next
    /\ UNCHANGED <<pagesVars, headsVars, ingressVars, offlineVars, advisoryVars, recoveryVars>>

Next ==
  PagesStep \/ HeadsStep \/ IngressStep \/ OfflineStep \/ AdvisoryStep \/ RecoveryStep \/ HealthStep

Spec == Init /\ [][Next]_vars

-----------------------------------------------------------------------------
\* The pages of a query are one answer of one instant (QuerySnapshots).
PagesAreOneAnswer == Pages!TypeOK /\ Pages!PagesAreOneAnswer

\* No publication is lost, and what a reader sees side by side was current side
\* by side (ReadHeads).
HeadsAreLinear == Heads!TypeOK /\ Heads!HeadsAreLinear /\ Heads!BundlesAreInstants

\* The capability row is that of the latest snapshot, and READY is earned
\* (SourceIngress); what operations is told of it and of the other authorities
\* is as good as it was when it asked (OperationsHealth).
CapabilityIsEarned ==
  /\ Ingress!TypeOK /\ Ingress!CapabilityIsLatest /\ Ingress!ReadyIsEarned
  /\ Health!TypeOK /\ Health!CockpitIsEarned /\ Health!StatusIsEarned

\* The offline file is whole, and groups are read whole (OfflineStore).
OfflineIsSound == Offline!OfflineIsSound

\* The state of a recovery is what its evidence makes of it (RecoveryEvaluator),
\* and a version of an advisory episode is one content (AdvisoryWorkflow).
EvidenceCountsOnce ==
  /\ Recovery!TypeOK /\ Recovery!RecoveryIsEarned
  /\ Advisory!TypeOK /\ Advisory!VersionsAreContents

\* The offline store takes the steps of the atomic commands (OfflineStore).
StepsAreCommands == Offline!StepsAreCommands
=============================================================================

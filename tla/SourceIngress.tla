---------------------------- MODULE SourceIngress ----------------------------
(***************************************************************************)
(* Source snapshots and the capability they leave behind:                  *)
(* application/source_ingress.py over infrastructure/postgresql_source.py, *)
(* for one key of source, family and capability.                           *)
(*                                                                         *)
(* A partition revision is published once, whoever repeats it; the         *)
(* capability row is the only one that is rewritten, by a conditional      *)
(* upsert.  Observations appear by the last fact among them.  Definitions  *)
(* marked "Mistake" are as in QuerySnapshots.                              *)
(***************************************************************************)
EXTENDS Integers

CONSTANTS Partitions,   \* partition revisions; a snapshot's id is made of it
          Drafts,       \* the drafts that publishers send
          Legacy,       \* snapshots of before migration 011, without an age
          Publishers,
          MaxClock,     \* bound of the model
          None

VARIABLES now, snapshot, capability, publishing

vars == <<now, snapshot, capability, publishing>>

Statuses == {"PUBLISHED", "PARTIAL", "INSUFFICIENT", "QUARANTINED"}
Instant == 0 .. MaxClock

\* A draft: its window ends with event, its facts were available by its cutoff;
\* fact is the last of its observations, None of an empty partition.
\* content stands for all else that the manifest hash covers.
Draft == [partition : Partitions, content : Nat, event : Instant, available : Instant,
          fact : [event : Instant, available : Instant] \cup {None},
          status : Statuses, age : Nat \cup {None}]

\* SourceSnapshotDraft.__post_init__ and MetrologyObservation's
Valid(d) ==
  /\ d \in Draft
  /\ d.fact # None =>
       /\ d.fact.event <= d.fact.available
       /\ d.fact.event <= d.event
       /\ d.fact.available <= d.available
  /\ d.status = "PUBLISHED" => d.fact # None

Rank(r) == r.available * (MaxClock + 1) + r.event

\* _capability_state
CapabilityState(d, checked, age) ==
  CASE d.status = "PARTIAL" -> "PARTIAL"
    [] d.status # "PARTIAL" /\ (d.status = "INSUFFICIENT" \/ d.fact = None) -> "INSUFFICIENT"
    [] d.status = "QUARANTINED" /\ d.fact # None -> "UNAVAILABLE"
    [] d.status = "PUBLISHED" /\ d.fact # None ->
         IF checked - d.available > age THEN "STALE" ELSE "READY"

CapabilityOf(d, checked) ==
  [state |-> CapabilityState(d, checked, d.age), partition |-> d.partition, event |-> d.event,
   available |-> d.available, checked |-> checked, age |-> d.age]

TypeOK ==
  /\ now \in Instant
  /\ \A p \in Partitions : snapshot[p] # None => snapshot[p] \in Draft
  /\ capability # None => capability.partition \in Partitions /\ capability.checked \in Instant
  /\ \A p \in Publishers : publishing[p] # None => publishing[p].draft \in Draft

Init ==
  /\ now = 0
  /\ \E old \in SUBSET Legacy :
       snapshot = [p \in Partitions |->
         IF \E d \in old : d.partition = p THEN CHOOSE d \in old : d.partition = p ELSE None]
  /\ capability = None
  /\ publishing = [p \in Publishers |-> None]

Tick == now < MaxClock /\ now' = now + 1 /\ UNCHANGED <<snapshot, capability, publishing>>

-----------------------------------------------------------------------------
At(p, pc) == publishing[p] # None /\ publishing[p].pc = pc
Goto(p, pc) == publishing' = [publishing EXCEPT ![p].pc = pc]
Return(p) == publishing' = [publishing EXCEPT ![p] = None]

\* publish, up to the store: the draft is valid and not from the future, its
\* artifact is there, and the capability is computed as of this instant.
Ingest(p) ==
  /\ publishing[p] = None
  /\ \E d \in {x \in Drafts : Valid(x)} :
       /\ d.available <= now /\ d.event <= now
       /\ publishing' = [publishing EXCEPT ![p] =
            [pc |-> "select", draft |-> d, capability |-> CapabilityOf(d, now)]]
  /\ UNCHANGED <<now, snapshot, capability>>

\* Mistake: a replay is recognized by its id.
SamePartition(stored, d) == stored.partition = d.partition

\* immutable_identity, but for the age that it ends with.
Identity(d) == <<d.partition, d.content, d.event, d.available, d.fact, d.status>>

\* _ensure_same; rows of before migration 011 declare no age.
Same(stored, d) == Identity(stored) = Identity(d) /\ stored.age \in {None, d.age}

\* Mistake: the last publication is the latest one.
Replaces(new, old) == new.checked >= old.checked

\* The WHERE of _upsert_capability.
Supersedes(new, old) ==
  \/ new.available > old.available
  \/ new.available = old.available /\ new.event >= old.event

Upsert(new) ==
  capability' = IF capability = None \/ Supersedes(new, capability) THEN new ELSE capability

\* SELECT ... FOR UPDATE.  A row that is there is locked until the capability
\* is written; one that is not there locks nothing.
SelectSnapshot(p) ==
  /\ At(p, "select")
  /\ LET d == publishing[p].draft
         stored == snapshot[d.partition]
     IN CASE stored = None -> Goto(p, "insert") /\ UNCHANGED capability
          [] stored # None /\ Same(stored, d) -> Upsert(publishing[p].capability) /\ Return(p)
          [] OTHER -> Return(p) /\ UNCHANGED capability    \* SourceSnapshotConflictError
  /\ UNCHANGED <<now, snapshot>>

\* INSERT and upsert in one transaction, or a unique violation.
InsertSnapshot(p) ==
  /\ At(p, "insert")
  /\ LET d == publishing[p].draft IN
       IF snapshot[d.partition] = None
       THEN /\ snapshot' = [snapshot EXCEPT ![d.partition] = d]
            /\ Upsert(publishing[p].capability)
            /\ Return(p)
       ELSE Goto(p, "taken") /\ UNCHANGED <<snapshot, capability>>
  /\ UNCHANGED now

\* The row of the other publisher is read outside any transaction...
ReadTaken(p) ==
  /\ At(p, "taken")
  /\ LET d == publishing[p].draft IN
       IF Same(snapshot[d.partition], d) THEN Goto(p, "upsert") ELSE Return(p)
  /\ UNCHANGED <<now, snapshot, capability>>

\* ... and the capability is written in another one.
UpsertAgain(p) ==
  /\ At(p, "upsert")
  /\ Upsert(publishing[p].capability)
  /\ Return(p)
  /\ UNCHANGED <<now, snapshot>>

\* The artifact is missing, a statement fails, the process dies.
Fail(p) ==
  /\ publishing[p] # None
  /\ Return(p)
  /\ UNCHANGED <<now, snapshot, capability>>

Next ==
  \/ Tick
  \/ \E p \in Publishers : Ingest(p) \/ SelectSnapshot(p) \/ InsertSnapshot(p) \/ ReadTaken(p)
                           \/ UpsertAgain(p) \/ Fail(p)

Spec == Init /\ [][Next]_vars

-----------------------------------------------------------------------------
\* get_capability: without a row the capability is UNAVAILABLE.
Reported == IF capability = None THEN "UNAVAILABLE" ELSE capability.state

\* The capability row and the snapshot it names are written by different
\* statements and in different orders, and yet agree: it says of the stored
\* snapshot what there was to say when it was checked, and no snapshot that a
\* publisher stored lies further ahead.
CapabilityIsLatest ==
  /\ \A p \in Partitions : snapshot[p] # None /\ snapshot[p].age # None =>
       capability # None /\ Rank(capability) >= Rank(snapshot[p])
  /\ capability # None =>
       LET d == snapshot[capability.partition] IN
         /\ d # None
         /\ Rank(capability) = Rank(d)
         /\ capability.state = CapabilityState(d, capability.checked, capability.age)

\* What reads as READY had facts, none from after the check, and fresh ones.
ReadyIsEarned ==
  Reported = "READY" =>
    LET d == snapshot[capability.partition] IN
      /\ d.fact # None
      /\ d.fact.available \in 0 .. capability.checked
      /\ capability.checked - d.available <= capability.age
=============================================================================

-------------------------- MODULE DecisionSnapshots -------------------------
(***************************************************************************)
(* Decision snapshots of one Episode and the handoff intents projected     *)
(* from its committed outbox events: application/handoff.py on             *)
(* infrastructure/handoff.py.  What becomes of an intent after it is       *)
(* stored is HandoffDelivery's.                                            *)
(*                                                                         *)
(* The Episode's workflow has one state and one outbox event per version.  *)
(* A snapshot is identified by the hash of its content, so equal snapshots *)
(* are the same row.  A call that authorization or validation refuses      *)
(* changes nothing and is not a step.                                      *)
(***************************************************************************)
EXTENDS Naturals, Sequences

CONSTANTS Engineers,    \* who create snapshots and handoffs
          Selectors,    \* recipient selectors of the directory
          Texts,        \* what changed, why it matters, ...: the engineer's words
          MaxVersion,   \* bound on the Episode's versions
          None

\* The commands that trigger a handoff, and one that does not.
EventKind == [ClaimEpisode |-> "ASSIGNMENT_HANDOFF", RecordExternalAction |-> "ACTION_RECORDED",
              CloseEpisode |-> "CLOSURE", ReopenEpisode |-> "REOPEN"]
Commands == DOMAIN EventKind \cup {"AcknowledgeEpisode"}

VARIABLES history,    \* history[v]: the command that made version v, and its state
          snapshots,  \* decision_snapshot
          intents,    \* handoff_intent
          directory,  \* the selectors that resolve to a recipient now
          work,       \* what each engineer is doing
          told        \* history: the intents that callers were told

vars == <<history, snapshots, intents, directory, work, told>>

Version == Len(history)

\* The state a snapshot copies: the cycles so far, with the last one's status.
State == [cycles: 1..MaxVersion, open: BOOLEAN]
Snapshot == [version: 1..MaxVersion, cycle: 1..MaxVersion, seen: State, text: Texts]
Key == [cycle: 1..MaxVersion, kind: {EventKind[c] : c \in DOMAIN EventKind},
        event: 1..MaxVersion, selector: Selectors]
Intent == [key: Key, snapshot: Snapshot]
Idle == [pc |-> "idle"]

Init ==
  /\ history = <<[command |-> "InitializeDecisionLoop", state |-> [cycles |-> 1, open |-> TRUE]]>>
  /\ snapshots = {} /\ intents = {} /\ told = {}
  /\ directory = Selectors
  /\ work = [e \in Engineers |-> Idle]

-----------------------------------------------------------------------------
\* The state after a command (EpisodeDecisionLoop): a closed cycle is followed
\* by the next one.
After(command, state) ==
  CASE command = "CloseEpisode" -> [state EXCEPT !.open = FALSE]
    [] command = "ReopenEpisode" -> [cycles |-> state.cycles + 1, open |-> TRUE]
    [] OTHER -> state

Move(command) ==
  LET now == history[Version].state
  IN  /\ Version < MaxVersion
      /\ now.open = (command # "ReopenEpisode")
      /\ history' = Append(history, [command |-> command, state |-> After(command, now)])
      /\ UNCHANGED <<snapshots, intents, directory, work, told>>

Begin(e, state) == work' = [work EXCEPT ![e] = state]

\* create_decision_snapshot: compare the viewed version, read the workflow and
\* copy the cycle that was asked for, or the active one.
ReadWorkflow(e, expected, cycle, text) ==
  /\ work[e] = Idle
  /\ expected = Version
  /\ cycle <= history[Version].state.cycles
  /\ Begin(e, [pc |-> "insert",
               snapshot |-> [version |-> expected, cycle |-> cycle,
                             seen |-> history[Version].state, text |-> text]])
  /\ UNCHANGED <<history, snapshots, intents, directory, told>>

\* Mistake: what was read before the transaction is good enough.
AnyVersion(s) == s.version <= Version

\* The row of the workflow is locked and its version compared again.
SameVersion(s) == s.version = Version

\* A snapshot that exists already is returned.
InsertSnapshot(e) ==
  /\ work[e].pc = "insert"
  /\ SameVersion(work[e].snapshot)
  /\ snapshots' = snapshots \cup {work[e].snapshot}
  /\ Begin(e, Idle)
  /\ UNCHANGED <<history, intents, directory, told>>

\* VERSION_CONFLICT; nothing is written.
ConflictSnapshot(e) ==
  /\ work[e].pc = "insert"
  /\ ~SameVersion(work[e].snapshot)
  /\ Begin(e, Idle)
  /\ UNCHANGED <<history, snapshots, intents, directory, told>>

-----------------------------------------------------------------------------
\* Mistake: any event of the Episode will do.
AnyEvent(s, event) == TRUE

\* The event that made the snapshot's version.
BindsSnapshot(s, event) == event = s.version

\* create_handoff: the caller's view is the snapshot's, the committed event is of
\* the snapshot's version and kind, and the recipient is in the directory.
Derive(e, s, viewed, event, selector) ==
  /\ work[e] = Idle
  /\ s \in snapshots
  /\ viewed = s.version
  /\ event \in 1..Version
  /\ BindsSnapshot(s, event)
  /\ history[event].command \in DOMAIN EventKind
  /\ selector \in directory
  /\ Begin(e, [pc |-> "intend", snapshot |-> s,
               key |-> [cycle |-> s.cycle, kind |-> EventKind[history[event].command],
                        event |-> event, selector |-> selector]])
  /\ UNCHANGED <<history, snapshots, intents, directory, told>>

\* Mistake: another snapshot is another intent.
SameIntent(i, w) == i.key = w.key /\ i.snapshot = w.snapshot

\* The deduplication key: Episode and cycle, event kind and facts, recipient,
\* channel and policy.
HasKey(i, w) == i.key = w.key

\* INSERT ... ON CONFLICT DO NOTHING and read the row that is there; then the
\* delivery job is enqueued under the same key and bound to it.
StoreIntent(e) ==
  LET w == work[e]
      known == {i \in intents : HasKey(i, w)}
  IN  /\ w.pc = "intend"
      /\ intents' = IF known = {} THEN intents \cup {[key |-> w.key, snapshot |-> w.snapshot]}
                    ELSE intents
      /\ \E i \in intents' : HasKey(i, w) /\ told' = told \cup {i}
      /\ Begin(e, Idle)
      /\ UNCHANGED <<history, snapshots, directory>>

\* The process dies, or its statement fails.
Abandon(e) ==
  /\ work[e] # Idle
  /\ Begin(e, Idle)
  /\ UNCHANGED <<history, snapshots, intents, directory, told>>

\* A recipient is registered or revoked.
ChangeDirectory(s) ==
  /\ directory' = IF s \in directory THEN directory \ {s} ELSE directory \cup {s}
  /\ UNCHANGED <<history, snapshots, intents, work, told>>

Next ==
  \/ \E c \in Commands : Move(c)
  \/ \E e \in Engineers :
       \/ \E v, c \in 1..MaxVersion, t \in Texts : ReadWorkflow(e, v, c, t)
       \/ InsertSnapshot(e) \/ ConflictSnapshot(e)
       \/ \E s \in snapshots, v, n \in 1..MaxVersion, r \in Selectors : Derive(e, s, v, n, r)
       \/ StoreIntent(e) \/ Abandon(e)
  \/ \E s \in Selectors : ChangeDirectory(s)

Spec == Init /\ [][Next]_vars

-----------------------------------------------------------------------------
TypeOK ==
  /\ Version \in 1..MaxVersion
  /\ snapshots \subseteq Snapshot
  /\ intents \subseteq Intent
  /\ directory \subseteq Selectors

\* A snapshot shows the Episode as it was at its version, whatever happened
\* between reading and storing it.
SnapshotsAreTrue ==
  \A s \in snapshots : /\ s.seen = history[s.version].state
                       /\ s.cycle <= s.seen.cycles

\* An intent tells of the committed event that made its snapshot's version, and
\* there is one for a recipient, however many callers project the event, with
\* whatever words: all of them are told the same one.
IntentsAreEarned ==
  /\ \A i \in intents :
       /\ i.snapshot \in snapshots
       /\ i.key.cycle = i.snapshot.cycle
       /\ i.key.event = i.snapshot.version
       /\ i.key.kind = EventKind[history[i.key.event].command]
  /\ \A i, j \in intents : i.key = j.key => i = j
  /\ told \subseteq intents

\* What is stored of decisions.
DecisionsAreTrue == TypeOK /\ SnapshotsAreTrue /\ IntentsAreEarned

\* "a workflow mutation cannot slip between read and immutable snapshot commit":
\* what becomes a snapshot is the Episode as it is then; none is ever taken back.
SnapshotsAreFresh ==
  [][/\ snapshots \subseteq snapshots' /\ intents \subseteq intents'
     /\ \A s \in snapshots' \ snapshots : s.version = Len(history')]_vars
=============================================================================

--------------------------- MODULE AdvisoryWorkflow ---------------------------
(***************************************************************************)
(* The in-memory advisory workflow and its checkpoints: advisory/.         *)
(*                                                                         *)
(* An episode has a technical and an engineering state and the version of  *)
(* both, which names its revision.  Clients read it and change one of the  *)
(* two on the version that they read; a checkpoint that is restored puts   *)
(* back all of it, the version included.  Definitions marked "Mistake" are *)
(* as in ArtifactStore.                                                    *)
(***************************************************************************)
EXTENDS Naturals, FiniteSets

CONSTANTS Episodes, Clients,
          Damaged,       \* what has become of a payload that is no checkpoint
          MaxVersion, MaxCheckpoints,    \* bounds of the model
          None

VARIABLES repository,    \* the episodes, or None
          checkpoints,   \* payloads that callers keep, and what became of them
          view,          \* what each client read, and whether a restore came since
          attention      \* what the last query of open work returned

vars == <<repository, checkpoints, view, attention>>

Technical == {"ACTIVE", "RESOLVED"}
Terminal == {"RESOLVED", "DISMISSED"}
Engineering == {"OPEN", "INVESTIGATING"} \cup Terminal
Episode == [technical : Technical, engineering : Engineering, version : 0 .. MaxVersion]

TypeOK ==
  /\ repository \in [Episodes -> Episode \cup {None}]
  /\ checkpoints \subseteq [episode : Episodes, content : Episode] \cup {Damaged}
  /\ \A e \in attention : repository[e] # None

Init ==
  /\ repository = [e \in Episodes |-> None]
  /\ checkpoints = {Damaged}
  /\ view = [c \in Clients |-> None]
  /\ attention = {}

\* create_episode; an episode is not created twice.
Create(e) ==
  /\ repository[e] = None
  /\ repository' = [repository EXCEPT ![e] =
       [technical |-> "ACTIVE", engineering |-> "OPEN", version |-> 0]]
  /\ UNCHANGED <<checkpoints, view, attention>>

Read(c, e) ==
  /\ repository[e] # None
  /\ view' = [view EXCEPT ![c] = [episode |-> e, content |-> repository[e], restored |-> FALSE]]
  /\ UNCHANGED <<repository, checkpoints, attention>>

-----------------------------------------------------------------------------
\* Mistake: a change names no new revision.
Rewritten(episode, technical, engineering) ==
  [technical |-> technical, engineering |-> engineering, version |-> episode.version]

\* revision_identity: the version names the revision.
Changed(episode, technical, engineering) ==
  [technical |-> technical, engineering |-> engineering, version |-> episode.version + 1]

\* transition_technical_state, or transition_engineering_work_state and
\* dispose_engineering_work, of a client on the version that it read (_mutate).
Mutate(c) ==
  /\ view[c] # None
  /\ LET e == view[c].episode
         current == repository[e]
     IN  /\ current.version = view[c].content.version
         /\ current.version < MaxVersion
         /\ \/ \E t \in Technical :
                 repository' = [repository EXCEPT ![e] = Changed(current, t, current.engineering)]
            \/ \E w \in Engineering :
                 repository' = [repository EXCEPT ![e] = Changed(current, current.technical, w)]
  /\ view' = [view EXCEPT ![c] = None]
  /\ UNCHANGED <<checkpoints, attention>>

\* WORKFLOW_VERSION_CONFLICT
Conflict(c) ==
  /\ view[c] # None
  /\ repository[view[c].episode].version # view[c].content.version
  /\ view' = [view EXCEPT ![c] = None]
  /\ UNCHANGED <<repository, checkpoints, attention>>

\* attention: the technical state is shown, and does not decide.
IsOpen(episode) == episode.engineering \notin Terminal

QueryAttention ==
  /\ attention' = {e \in Episodes : repository[e] # None /\ IsOpen(repository[e])}
  /\ UNCHANGED <<repository, checkpoints, view>>

-----------------------------------------------------------------------------
\* save_checkpoint
Save(e) ==
  /\ repository[e] # None
  /\ Cardinality(checkpoints) <= MaxCheckpoints
  /\ checkpoints' = checkpoints \cup {[episode |-> e, content |-> repository[e]]}
  /\ UNCHANGED <<repository, view, attention>>

\* restore_checkpoint of a whole payload, for the episode that is expected if
\* one is; it creates the episode if there is none.
Accepts(p, expected) == p # Damaged /\ (expected = None \/ p.episode = expected)

Restore(p, expected) ==
  /\ Accepts(p, expected)
  /\ repository' = [repository EXCEPT ![p.episode] = p.content]
  /\ view' = [c \in Clients |->
       IF view[c] # None /\ view[c].episode = p.episode THEN [view[c] EXCEPT !.restored = TRUE]
       ELSE view[c]]
  /\ UNCHANGED <<checkpoints, attention>>

Next ==
  \/ \E e \in Episodes : Create(e) \/ Save(e)
  \/ \E c \in Clients : (\E e \in Episodes : Read(c, e)) \/ Mutate(c) \/ Conflict(c)
  \/ QueryAttention
  \/ \E p \in checkpoints, expected \in Episodes \cup {None} : Restore(p, expected)

Spec == Init /\ [][Next]_vars

-----------------------------------------------------------------------------
\* A version is one content: whoever holds the version of an episode has seen
\* what it is, as long as no checkpoint of it was restored in between.  (After
\* a restore the next change gets a version that was given before.)
VersionsAreContents ==
  \A c \in Clients : view[c] # None /\ ~view[c].restored =>
    \/ view[c].content = repository[view[c].episode]
    \/ view[c].content.version < repository[view[c].episode].version
=============================================================================

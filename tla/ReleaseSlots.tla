----------------------------- MODULE ReleaseSlots -----------------------------
(***************************************************************************)
(* The selection of an installed release slot: release_slots.py.           *)
(*                                                                         *)
(* One state file names the current and the previous slot.  A transition   *)
(* reads it under a lock, compares its generation with the expected one,   *)
(* runs the preflight of the slot, and replaces the file atomically.       *)
(* Processes die, and so does the host, which forgets a replacement whose  *)
(* directory was not synced.  Digests of the state and its canonical form  *)
(* only tell a whole file from another.  Definitions marked "Mistake" are  *)
(* as in ArtifactStore.                                                    *)
(***************************************************************************)
EXTENDS Integers

CONSTANTS Slots,       \* slot ids
          Roots,       \* installed environments
          Releases, Inputs,   \* release_identity and install_inputs digests
          Operators,
          MaxGeneration,      \* bound of the model; 2^63 - 1 in the code
          None

VARIABLES installed,   \* what the preflight of each root would report
          file,        \* the state file, as running processes see it
          disk,        \* the state files that a loss of power may leave
          lock,        \* holder of the lock file beside it
          operator,    \* each operator's command
          acks         \* history: states that transitions returned

vars == <<installed, file, disk, lock, operator, acks>>

Identity == [release : Releases, inputs : Inputs]
Record == [root : Roots, identity : Identity]
State == [generation : 0 .. MaxGeneration, current : Slots, previous : Slots \cup {None},
          slots : UNION {[s -> Record] : s \in SUBSET Slots}]

\* _validate_state
Valid(state) ==
  /\ state.current \in DOMAIN state.slots
  /\ state.previous # None => state.previous \in DOMAIN state.slots \ {state.current}
  /\ \A a, b \in DOMAIN state.slots : state.slots[a].root = state.slots[b].root => a = b

TypeOK ==
  /\ installed \in [Roots -> Identity \cup {None}]
  /\ lock \in Operators \cup {None}
  /\ \A s \in (acks \cup disk) \ {None} : s \in State /\ Valid(s)

Idle == [pc |-> "idle"]

Init ==
  /\ installed \in [Roots -> Identity \cup {None}]
  /\ file = None
  /\ disk = {None}
  /\ lock = None
  /\ operator = [o \in Operators |-> Idle]
  /\ acks = {}

\* An environment is installed over, or broken, between any two commands.
Reinstall(r) ==
  /\ \E i \in Identity \cup {None} : installed' = [installed EXCEPT ![r] = i]
  /\ UNCHANGED <<file, disk, lock, operator, acks>>

-----------------------------------------------------------------------------
At(o, pc) == operator[o] # Idle /\ operator[o].pc = pc
Finish(o) == operator' = [operator EXCEPT ![o] = Idle]

Initialized(slot, root) ==
  [generation |-> 0, current |-> slot, previous |-> None,
   slots |-> [s \in {slot} |-> [root |-> root, identity |-> installed[root]]]]

\* initialize: there is no file, and the preflight passes.
Initialize(o, slot, root) ==
  /\ file = None
  /\ installed[root] # None
  /\ operator' = [operator EXCEPT ![o] = [pc |-> "replace", next |-> Initialized(slot, root)]]

\* Mistake: the slot is found where it should be, whatever is installed there.
SameRoot(record, root) == TRUE

\* SLOT_IDENTITY_MISMATCH
SameIdentity(record, root) == record.identity = installed[root]

\* What register, verify, select and rollback may be applied to.
Registers(state, slot, root) ==
  slot \notin DOMAIN state.slots /\ \A s \in DOMAIN state.slots : state.slots[s].root # root

Known(state, slot, root) ==
  /\ slot \in DOMAIN state.slots
  /\ state.slots[slot].root = root
  /\ SameIdentity(state.slots[slot], root)

\* CROSS_RELEASE_COMPATIBILITY_NOT_QUALIFIED: by what the file has recorded.
Compatible(state, slot) ==
  state.slots[slot].identity.release = state.slots[state.current].identity.release

Recorded(state, slot, root) ==
  [s \in DOMAIN state.slots \cup {slot} |->
     IF s = slot THEN [root |-> root, identity |-> installed[root]] ELSE state.slots[s]]

Selected(state, slot) == [state EXCEPT !.previous = state.current, !.current = slot]

\* Mistake: a transition applies to whatever is there.
AnyGeneration(state, expected) == TRUE

\* EXPECTED_GENERATION_MISMATCH
Expected(state, expected) == state.generation = expected

Write(o, state, expected) ==
  operator' = [operator EXCEPT ![o] =
    [pc |-> "replace", next |-> [state EXCEPT !.generation = expected + 1]]]

\* _transition, up to the write: the file cannot move, the lock is held.  The
\* generation that is expected was read, or computed, at any time.
Transition(o, slot, root) ==
  /\ file # None
  /\ \E expected \in 0 .. MaxGeneration - 1 :
       /\ Expected(file, expected)
       /\ \/ /\ Registers(file, slot, root) \/ Known(file, slot, root)  \* REGISTER, VERIFY
             /\ Write(o, [file EXCEPT !.slots = Recorded(file, slot, root)], expected)
          \/ /\ Known(file, slot, root)          \* SELECT, and ROLLBACK to the previous slot
             /\ slot # file.current
             /\ Compatible(file, slot)
             /\ Write(o, Selected(file, slot), expected)

\* A command that is refused changes nothing.
Compute(o) ==
  /\ operator[o] = Idle /\ lock = None
  /\ lock' = o
  /\ \E slot \in Slots, root \in {r \in Roots : installed[r] # None} :
       Initialize(o, slot, root) \/ Transition(o, slot, root)
  /\ UNCHANGED <<installed, file, disk, acks>>

\* os.replace of a temporary file that was flushed
Replace(o) ==
  /\ At(o, "replace")
  /\ file' = operator[o].next
  /\ disk' = disk \cup {file'}
  /\ operator' = [operator EXCEPT ![o].pc = "sync"]
  /\ UNCHANGED <<installed, lock, acks>>

\* Mistake: the directory is left to the operating system.
LeavesDirectory(o) == disk

\* os.fsync of the directory
Synced(o) == {file}

\* ... and the answer.
SyncDirectory(o) ==
  /\ At(o, "sync")
  /\ disk' = Synced(o)
  /\ acks' = acks \cup {operator[o].next}
  /\ lock' = None
  /\ Finish(o)
  /\ UNCHANGED <<installed, file>>

\* An exception or the death of the process: the lock is released.
Fail(o) ==
  /\ operator[o] # Idle
  /\ lock' = None
  /\ Finish(o)
  /\ UNCHANGED <<installed, file, disk, acks>>

PowerLoss ==
  /\ file' \in disk
  /\ disk' = {file'}
  /\ lock' = None
  /\ operator' = [o \in Operators |-> Idle]
  /\ UNCHANGED <<installed, acks>>

Next ==
  \/ \E r \in Roots : Reinstall(r)
  \/ \E o \in Operators : Compute(o) \/ Replace(o) \/ SyncDirectory(o) \/ Fail(o)
  \/ PowerLoss

Spec == Init /\ [][Next]_vars

-----------------------------------------------------------------------------
\* What a transition returned is the history of the file: one state for each
\* generation, none of them undone by the loss of power, no slot forgotten.
AcksStand ==
  /\ \A a \in acks :
       /\ file # None /\ a.generation <= file.generation
       /\ a.generation = file.generation => a = file
       /\ DOMAIN a.slots \subseteq DOMAIN file.slots
  /\ \A a, b \in acks : a.generation = b.generation => a = b

\* Whatever is verified, selected, rolled back and installed over in between:
\* all slots that were ever selected had one release.
ReleaseOf(state, slot) == state.slots[slot].identity.release

OneRelease ==
  \A a \in acks \cup ({file} \ {None}), b \in acks :
    /\ ReleaseOf(a, a.current) = ReleaseOf(b, b.current)
    /\ a.previous # None => ReleaseOf(a, a.previous) = ReleaseOf(b, b.current)
=============================================================================
